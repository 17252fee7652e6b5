-------------------------------- MODULE Readers --------------------------------
(* What stands between a run's files and those who look at them: the database  *)
(* and its upgrade (BrokerSchema), the pages of events (EventFeed), the list of *)
(* retained runs (RetainedRuns), the file relay (Relay), the dashboard pane    *)
(* (Dashboard) and the capsules that tell a worker of the reports of the others *)
(* (RunState).  The components keep no variable in common, so their states    *)
(* need not be multiplied: one of them, the subject, moves and the others stay *)
(* as they begin.  Instances with different bounds share their variables.      *)
EXTENDS BrokerSchema

VARIABLES subject,
          \* EventFeed
          history, lost, cut, registry, call, answer, cursor, received, told,
          \* RetainedRuns
          run, request, throughout,
          \* Relay
          report, marker, seen, done, typed, copies, refused, relay, faults,
          \* Dashboard
          store, handler, pane, screen, size, signals, ticker, broker, left,
          tried, missed, printed,
          \* RunState
          filed, round, busy, decided, activated, gated, clients, steps, turn,
          queue, pending, kept, heard, receipts, guidance, files, look, fresh,
          owed, limits

feedVars == <<history, lost, cut, registry, call, answer, cursor, received, told>>
retainedVars == <<run, request, throughout>>
relayVars == <<report, marker, seen, done, typed, copies, refused, relay, faults>>
paneVars == <<store, handler, pane, screen, size, signals, ticker, broker, left,
              tried, missed, printed>>
capsuleVars == <<filed, round, busy, decided, activated, gated, clients, steps,
                 turn, queue, pending, kept, heard, receipts, guidance, files,
                 look, fresh, owed, limits>>
suiteVars == <<subject, vars, feedVars, retainedVars, relayVars, paneVars, capsuleVars>>

\* A run with a broker: one stream for all roles, pruned from the front.
Stream == INSTANCE EventFeed WITH
    Roles <- {"implementer", "reviewer"}, Brokered <- TRUE, Retained <- 2,
    Segment <- 1, Limit <- 2, MaxEvents <- 5

\* A run with a journal of two segments for a role, rotated twice and more.
Journal == INSTANCE EventFeed WITH
    Roles <- {"implementer"}, Brokered <- FALSE, Retained <- 1,
    Segment <- 2, Limit <- 1, MaxEvents <- 6

\* One session with more runs than a page.
Paged == INSTANCE RetainedRuns WITH
    Sessions <- {1}, MaxRuns <- 4, ScanLimit <- 4, SessionScan <- 4,
    PageLimit <- 2

\* More sessions and runs than a scan looks at.
Limited == INSTANCE RetainedRuns WITH
    Sessions <- {1, 2}, MaxRuns <- 2, ScanLimit <- 1, SessionScan <- 1,
    PageLimit <- 1

\* Two rounds of a run: the handoff goes to a role, too, that it does not have.
Announced == [r \in {"handoff", "probe"} |->
                IF r = "handoff" THEN {"reviewer", "playwright"}
                                 ELSE {"implementer", "reviewer"}]

\* Workers in tmux editors, and workers with an RPC inbox.
Typing == INSTANCE Relay WITH
    Reports <- {"handoff", "probe"}, Roles <- {"implementer", "reviewer"},
    Recipients <- Announced, Rpc <- FALSE, MaxFaults <- 2
Posting == INSTANCE Relay WITH
    Reports <- {"handoff", "probe"}, Roles <- {"implementer", "reviewer"},
    Recipients <- Announced, Rpc <- TRUE, MaxFaults <- 2

\* A pane that is a terminal, and one that prints lines.
Terminal == INSTANCE Dashboard WITH
    Handlers <- {1, 2}, Looks <- {"active", "ready", "waiting"},
    Animated <- {"active"}, Interactive <- TRUE, Turns <- 3, MaxWrites <- 3,
    MaxFaults <- 2, MaxResizes <- 1
Plain == INSTANCE Dashboard WITH
    Handlers <- {1, 2}, Looks <- {"active", "ready", "waiting"},
    Animated <- {"active"}, Interactive <- FALSE, Turns <- 3, MaxWrites <- 3,
    MaxFaults <- 2, MaxResizes <- 1

\* Two specialists and slow readers; and a reviewer whose context is retained,
\* told of files that change under the observation.
Routed == INSTANCE RunState WITH
    Specialists <- {"probe", "django"}, Early <- "probe", Retained <- {},
    Files <- 2, MaxReports <- 4, MaxEdits <- 0, MaxGuidance <- 0, MaxStalls <- 1,
    MaxBreaks <- 1
Hinted == INSTANCE RunState WITH
    Specialists <- {"probe"}, Early <- "probe", Retained <- {"reviewer"},
    Files <- 2, MaxReports <- 2, MaxEdits <- 1, MaxGuidance <- 1, MaxStalls <- 0,
    MaxBreaks <- 1

ASSUME BoundsAreAllowed ==
    /\ Stream!FeedAssumption /\ Journal!FeedAssumption
    /\ Paged!RetainedRunsAssumption /\ Limited!RetainedRunsAssumption
    /\ Typing!RelayAssumption /\ Posting!RelayAssumption
    /\ Terminal!DashboardAssumption /\ Plain!DashboardAssumption
    /\ Routed!RunStateAssumption /\ Hinted!RunStateAssumption

EachInit ==
    /\ subject \in {"upgrade", "stream", "journal", "paged", "limited",
                    "typing", "posting", "terminal", "plain",
                    "routed", "hinted"}
    /\ Init /\ (subject # "upgrade" =>
                  from = Schema /\ bad = {} /\ \A t \in Tasks : db.tasks[t] = NotMade)
    /\ IF subject = "journal" THEN Journal!Init ELSE Stream!Init
    /\ IF subject = "limited" THEN Limited!Init ELSE Paged!Init
    /\ Typing!Init
    /\ IF subject = "plain" THEN Plain!Init ELSE Terminal!Init
    /\ subject \notin {"terminal", "plain"} => store = "active"
    /\ IF subject = "routed" THEN Routed!Init ELSE Hinted!Init
    /\ subject # "hinted" /\ subject # "routed" => activated = {}

EachNext ==
    /\ UNCHANGED subject
    /\ \/ /\ subject = "upgrade" /\ Next
          /\ UNCHANGED <<feedVars, retainedVars, relayVars, paneVars, capsuleVars>>
       \/ /\ \/ subject = "stream" /\ Stream!Next
             \/ subject = "journal" /\ Journal!Next
          /\ UNCHANGED <<vars, retainedVars, relayVars, paneVars, capsuleVars>>
       \/ /\ \/ subject = "paged" /\ Paged!Next
             \/ subject = "limited" /\ Limited!Next
          /\ UNCHANGED <<vars, feedVars, relayVars, paneVars, capsuleVars>>
       \/ /\ \/ subject = "typing" /\ Typing!Next
             \/ subject = "posting" /\ Posting!Next
          /\ UNCHANGED <<vars, feedVars, retainedVars, paneVars, capsuleVars>>
       \/ /\ \/ subject = "terminal" /\ Terminal!Next
             \/ subject = "plain" /\ Plain!Next
          /\ UNCHANGED <<vars, feedVars, retainedVars, relayVars, capsuleVars>>
       \/ /\ \/ subject = "routed" /\ Routed!Next
             \/ subject = "hinted" /\ Hinted!Next
          /\ UNCHANGED <<vars, feedVars, retainedVars, relayVars, paneVars>>

EachSpec == EachInit /\ [][EachNext]_suiteVars

-----------------------------------------------------------------------------
(* Properties; the upgrade's is UpgradeIsSafe in BrokerSchema. *)

\* Of events: a client that is not told of a gap has every event up to its
\* cursor, each once and in order, a page that is not cut off leaves nothing
\* out, a gap is never a false alarm, and a record called synchronized agrees
\* with the page.  Of runs: an answer that does not call itself truncated misses
\* none, a listing prefers newer ones, and a command without a run id acts on
\* the newest, while runs come and go under the scan.
PagesAreHonest ==
    /\ subject = "stream" =>
         /\ Stream!TypeOK /\ Stream!OnceInOrder /\ Stream!NoSilentLoss
         /\ Stream!CompleteUnlessTruncated /\ Stream!GapIsReal
    /\ subject = "journal" =>
         /\ Journal!TypeOK /\ Journal!OnceInOrder /\ Journal!NoSilentLoss
         /\ Journal!GapIsReal /\ Journal!SynchronizedRecord
    /\ subject = "paged" =>
         Paged!TypeOK /\ Paged!NewestIsListed /\ Paged!ResolvedIsNewest
    /\ subject = "limited" => Limited!HonestPage

\* A token on disk is never ahead of its delivery; an RPC worker is told of a
\* report once, a tmux worker again only after a fault.
NoticesAreSent ==
    /\ Typing!TypeOK /\ Typing!SeenIsDelivered
    /\ IF subject = "posting" THEN Posting!RpcNoticedOnce
                              ELSE Typing!RepeatsAreFaults

\* With nothing under way the pane shows the database as it is, at the size it
\* has; the frame the next one is compared with is the one on the screen; and
\* a pane that is no terminal repeats a frame only after a notice.
PaneIsTrue ==
    /\ subject = "terminal" =>
         Terminal!TypeOK /\ Terminal!PaneIsCurrent /\ Terminal!LastIsShown
    /\ subject = "plain" => Plain!PaneIsCurrent /\ Plain!FramesAreRare

\* No report is lost between the workers: what one was to be told of it has, is
\* being sent, or gets with its next assignment; and a report it is told is
\* unchanged is one since whose acceptance nothing was edited or guided.
EvidenceIsTrue ==
    /\ subject = "routed" => Routed!TypeOK /\ Routed!NothingIsDropped
    /\ subject = "hinted" =>
         Hinted!TypeOK /\ Hinted!NothingIsDropped /\ Hinted!HintsAreTrue
================================================================================
