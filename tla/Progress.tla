------------------------------- MODULE Progress -------------------------------
(* What must eventually happen, in four components: a restart settles, a       *)
(* handler is not held up by an observer, a polling client catches up and      *)
(* every recipient of a report is told.  The components keep no variable in    *)
(* common: one of them, the subject, moves under its own fairness and the      *)
(* others stay as they begin.                                                  *)
EXTENDS Naturals

CONSTANTS i1, i2, k1, k2

VARIABLES subject,
          \* ControlCommand
          up, connected, baseline, worker, generation, role, allowance, receipt,
          failures, call, task, delivered, respawned, faults,
          \* Observers
          workflow, round, paused, filed, running, recent, members, plan, server,
          tube, link, parent, owed, used,
          \* EventFeed
          history, lost, cut, registry, query, answer, cursor, received, told,
          \* Relay
          report, marker, seen, done, typed, copies, refused, relay, trouble

controlVars == <<up, connected, baseline, worker, generation, role, allowance,
                 receipt, failures, call, task, delivered, respawned, faults>>
observerVars == <<workflow, round, paused, filed, running, recent, members, plan,
                  server, tube, link, parent, owed, used>>
feedVars == <<history, lost, cut, registry, query, answer, cursor, received, told>>
relayVars == <<report, marker, seen, done, typed, copies, refused, relay, trouble>>
vars == <<subject, controlVars, observerVars, feedVars, relayVars>>

Calls == {k1, k2}
Roles == {"implementer", "reviewer"}

Control == INSTANCE ControlCommand WITH
    Ids <- {i1, i2}, Kinds <- {"restart", "abort"}, MaxReceipts <- 1,
    MaxFaults <- 1

Observed == INSTANCE Observers WITH
    Parents <- {"p"}, Workers <- {"w"}, Reviewer <- "w", Limit <- 1,
    Buffer <- 0, MaxRetries <- 1, MaxReports <- 1, MaxChanges <- 1,
    MaxCrashes <- 0, MaxBreaks <- 0, up <- running

Polled == INSTANCE EventFeed WITH
    Brokered <- TRUE, Retained <- 2, Segment <- 1, Limit <- 1, MaxEvents <- 3,
    call <- query

Announced == [r \in {"handoff", "probe"} |->
                IF r = "handoff" THEN {"reviewer", "playwright"}
                                 ELSE {"implementer", "reviewer"}]
Posting == INSTANCE Relay WITH
    Reports <- {"handoff", "probe"}, Recipients <- Announced, Rpc <- TRUE,
    MaxFaults <- 2, faults <- trouble

ASSUME BoundsAreAllowed ==
    /\ Control!ControlAssumption /\ Observed!ObserverAssumption
    /\ Polled!FeedAssumption /\ Posting!RelayAssumption

Init ==
    /\ subject \in {"control", "observed", "polled", "posting"}
    /\ Control!Init /\ Observed!Init /\ Polled!Init /\ Posting!Init

Controls == subject = "control" /\ Control!Next
            /\ UNCHANGED <<observerVars, feedVars, relayVars>>
Observes == subject = "observed" /\ Observed!Next
            /\ UNCHANGED <<controlVars, feedVars, relayVars>>
Polls == subject = "polled" /\ Polled!Next
         /\ UNCHANGED <<controlVars, observerVars, relayVars>>
Posts == subject = "posting" /\ Posting!Next
         /\ UNCHANGED <<controlVars, observerVars, feedVars>>

Next == /\ UNCHANGED subject
        /\ Controls \/ Observes \/ Polls \/ Posts

-----------------------------------------------------------------------------
(* The fairness of each component's FairSpec, of the subject only. *)

\* A CLI process that was accepted runs on, and a respawned worker connects.
ControlFairness ==
    /\ WF_controlVars(subject = "control" /\ Control!Connect)
    /\ \A k \in Calls :
         /\ WF_controlVars(subject = "control" /\ Control!Respawn(k))
         /\ WF_controlVars(subject = "control" /\ Control!ReportFailed(k))

\* The event loop runs what can run and wait_for ends; no parent has to read.
LoopFairness ==
    /\ \A t \in Observed!Tasks :
         WF_observerVars(subject = "observed" /\ Observed!Broadcast(t))
    /\ WF_observerVars(subject = "observed" /\
         (\/ Observed!RouteEvidence("w") \/ Observed!RouteApproval("w")
          \/ Observed!RouteRejection("w") \/ Observed!RouteFailure("w")
          \/ Observed!AssignRepair("w") \/ Observed!HoldRepair("w")))
    /\ WF_observerVars(subject = "observed" /\
         (Observed!Repair \/ Observed!Confirm \/ Observed!RepairFails))
    /\ WF_observerVars(subject = "observed" /\ Observed!Connection("p"))

\* The client polls every role and its requests are served.
FeedFairness ==
    \A r \in Roles :
      /\ SF_feedVars(subject = "polled" /\ Polled!Ask(r))
      /\ SF_feedVars(subject = "polled" /\ Polled!ReadRows(r))
      /\ SF_feedVars(subject = "polled" /\ Polled!ReadBounds(r))

\* The relay's loop runs while its session does.
RelayFairness == WF_relayVars(subject = "posting" /\ Posting!Relays)

Spec == Init /\ [][Next]_vars
        /\ ControlFairness /\ LoopFairness /\ FeedFairness
        /\ RelayFairness

\* Only the relay.
PostingSpec == (Init /\ subject = "posting") /\ [][Next]_vars /\ RelayFairness

-----------------------------------------------------------------------------
(* Properties *)

\* The broker's work ends: a handler's broadcasts do although an observer never
\* reads, and so does the handover of an accepted restart.
WorkGoesOn == Observed!RoutingGoesOn /\ Control!RestartSettles

\* No reader is forgotten: a polling client catches up with each role or is told
\* that it cannot, and every enabled recipient of a report that stays good is
\* told of it, unless its supervisor refused the notice for good.
NewsArrives == Polled!CatchesUp /\ Posting!NobodyForgotten

\* Every enabled recipient of a report that stays good is told of it.
EverybodyTold == Posting!EverybodyTold
================================================================================
