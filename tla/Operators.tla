------------------------------- MODULE Operators -------------------------------
(* What operators do to a run from the outside: they start it, send its broker *)
(* commands and stop it.  The three components keep no variable in common, so  *)
(* what one of them does never depends on another, and their states need not   *)
(* be multiplied: one of them, the subject, moves and the others stay as they  *)
(* begin.  Standard and custom rosters are two starts with the same variables. *)
EXTENDS Naturals, TLC

CONSTANTS c1, c2, r1, r2, i1, i2, k1, k2, k3, a, b, c, none, monitor, impl, rev

VARIABLES subject,
          \* StopReceipt
          host, stopSession, others, started, receipts, lock, client, finalized,
          kills, crashes,
          \* ControlCommand
          up, connected, baseline, worker, generation, role, allowance, receipt,
          failures, call, task, delivered, respawned, faults,
          \* Startup
          session, splits, marker, pane, pc, listed, launched, seen, read,
          stable, saved, flow, socket, linked, hungUp, together, deaths, stops,
          startFailures

stopVars == <<host, stopSession, others, started, receipts, lock, client,
              finalized, kills, crashes>>
controlVars == <<up, connected, baseline, worker, generation, role, allowance,
                 receipt, failures, call, task, delivered, respawned, faults>>
startVars == <<session, splits, marker, pane, pc, listed, launched, seen, read,
               stable, saved, flow, socket, linked, hungUp, together, deaths,
               stops, startFailures>>
vars == <<subject, stopVars, controlVars, startVars>>

Stop == INSTANCE StopReceipt WITH
    Clients <- {c1, c2}, Runs <- {r1, r2}, Ids <- {i1, i2}, NoRun <- none,
    MaxReceipts <- 2, MaxCrashes <- 1, session <- stopSession

Control == INSTANCE ControlCommand WITH
    Calls <- {k1, k2, k3}, Ids <- {i1, i2},
    Kinds <- {"send", "restart", "extend"}, MaxReceipts <- 2, MaxFaults <- 1

\* A roster of built-in roles: the start ends with its last launch.
Plain == INSTANCE Startup WITH
    Starts <- {a, b}, Roles <- {impl}, Monitor <- monitor, None <- none,
    Custom <- FALSE, MaxDeaths <- 0, MaxStops <- 1, MaxFailures <- 1,
    failures <- startFailures

\* A third start finds the name free when the second has killed for the first.
Crowded == INSTANCE Startup WITH
    Starts <- {a, b, c}, Roles <- {impl}, Monitor <- monitor, None <- none,
    Custom <- FALSE, MaxDeaths <- 0, MaxStops <- 1, MaxFailures <- 0,
    failures <- startFailures

\* A roster with custom roles: the start watches what it launched.
Watched == INSTANCE Startup WITH
    Starts <- {a, b}, Roles <- {impl, rev}, Monitor <- monitor, None <- none,
    Custom <- TRUE, MaxDeaths <- 1, MaxStops <- 0, MaxFailures <- 0,
    failures <- startFailures

ASSUME BoundsAreAllowed ==
    /\ Stop!StopReceiptAssumption /\ Control!ControlAssumption
    /\ Plain!StartupAssumption /\ Crowded!StartupAssumption
    /\ Watched!StartupAssumption

Init ==
    /\ subject \in {"stop", "control", "plain", "crowded", "watched"}
    /\ Stop!Init /\ (subject # "stop" => ~others)
    /\ Control!Init
    /\ CASE subject = "watched" -> Watched!Init
         [] subject = "crowded" -> Crowded!Init
         [] OTHER -> Plain!Init

Next ==
    /\ UNCHANGED subject
    /\ \/ subject = "stop" /\ Stop!Next /\ UNCHANGED <<controlVars, startVars>>
       \/ subject = "control" /\ Control!Next /\ UNCHANGED <<stopVars, startVars>>
       \/ /\ \/ subject = "plain" /\ Plain!Next
             \/ subject = "crowded" /\ Crowded!Next
             \/ subject = "watched" /\ Watched!Next
          /\ UNCHANGED <<stopVars, controlVars>>

Spec == Init /\ [][Next]_vars

\* For TLC: nothing tells the processes of operators apart, neither two that stop
\* or start a run nor two that send a command.  Each pair changes places at once.
Pairs == {{a, b}, {c1, c2}, {k1, k2}}
Exchanged ==
    {f \in Permutations(UNION Pairs) :
        \/ \A p \in UNION Pairs : f[p] = p
        \/ \A P \in Pairs : \A p \in P : f[p] \in P \ {p}}

-----------------------------------------------------------------------------
(* Properties *)

\* A stop kills only the run its receipt belongs to, a completed receipt says
\* the truth and stays completed, and two stops of one run never act at once:
\* whatever processes die in the middle and whoever takes the session's name.
StopsAreExact ==
    /\ [](/\ Stop!TypeOK /\ Stop!StopsOnlyItsRun
          /\ Stop!CompletedIsGone /\ Stop!OneStopAtATime)
    /\ Stop!CompletedIsFinal

\* Receipts of commands are final and true: an accepted command was delivered
\* and had its one effect, over retries, overlaps and deaths of the broker.
CommandsAreExact ==
    /\ [](/\ Control!TypeOK /\ Control!AcceptedIsDelivered
          /\ Control!RespawnOnce /\ Control!EffectsAreRecorded)
    /\ Control!ReceiptsAreFinal

\* A start that reports failure has left no session of its own behind, ended
\* starts leave none that the commands cannot name, and a custom roster is
\* admitted only if all of it was alive at one moment.
StartsAreExact ==
    /\ subject # "crowded" => Plain!FailedIsGone /\ Plain!NameIsUsable
    /\ subject = "crowded" => Crowded!FailedIsGone /\ Crowded!NameIsUsable
    /\ subject = "watched" => Watched!AdmittedTogether
================================================================================
