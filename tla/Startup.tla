-------------------------------- MODULE Startup --------------------------------
(* Starting a run (start_commands.py, tmux.py).  A start is a process of its   *)
(* own: it refuses a session name that is in use, prepares a coordination      *)
(* directory, creates the tmux session, lays out its panes, marks the session  *)
(* with the run, saves the manifest, launches workers and broker in the panes  *)
(* and, with custom roles, watches until the broker and all workers have been  *)
(* seen well for a while.  Calls of tmux with one kind of address are one step, *)
(* which the server answers at once.  They address the session by NAME or a    *)
(* pane by its ID: a name can change its bearer, an ID cannot.  All starts     *)
(* here use one session name, and a session is identified with the start that  *)
(* created it.                                                                 *)
EXTENDS Naturals

CONSTANTS Starts,      \* start processes, each with a run of its own
          Roles,       \* the workers of every run
          Monitor,     \* the pane of the broker
          None,        \* no session, no run
          Custom,      \* does the roster have custom roles?
          MaxDeaths,   \* bound: processes that exit by themselves
          MaxStops,    \* bound: stops by the operator
          MaxFailures  \* bound: local failures of starts, and killed starts

\* Assumed of the constants by every module that instantiates this one.
StartupAssumption ==
    /\ Monitor \notin Roles /\ None \notin Starts
    /\ Starts \cap {"shell", "dead", "none"} = {}  \* what a pane can hold instead
    /\ Custom \in BOOLEAN
    /\ MaxDeaths \in Nat /\ MaxStops \in Nat /\ MaxFailures \in Nat

Panes == Roles \cup {Monitor}

VARIABLES session,   \* the start whose session bears the name, or None
          splits,    \* how often that session has been split for the roster
          marker,    \* its option @pi_agents_coord
          pane,      \* what runs in each of its panes: a run, "shell" or "dead"
          pc,        \* where each start stands; "running" and "failed" are what
                     \* the file startup-state says in the end
          listed,    \* the session whose pane IDs the start found
          launched,  \* panes the start has launched its commands in
          seen,      \* panes found alive in this round of the watch
          read,      \* workflow state the watch has read in this round
          stable,    \* was the previous round good?
          saved,     \* runs whose manifest is on disk
          flow,      \* workflow state in each broker's database
          socket,    \* runs whose broker socket exists
          linked,    \* workers each broker's database holds for connected
          hungUp,    \* runs whose broker got a signal and is closing
          together,  \* ghost: runs that were whole at one moment
          deaths, stops, failures

vars == <<session, splits, marker, pane, pc, listed, launched, seen, read,
          stable, saved, flow, socket, linked, hungUp, together,
          deaths, stops, failures>>

tmuxVars == <<session, splits, marker, pane>>
watchVars == <<seen, read, stable>>
ownVars == <<listed, launched, saved>>
startVars == <<pc, ownVars, watchVars>>
brokerVars == <<flow, socket, linked, hungUp>>
bounds == <<deaths, stops, failures>>

Steps == {"check", "collide", "prepare", "create", "split", "list", "title",
          "mark", "save", "launch", "watch", "finish", "kill", "rollback", "gone",
          "fail", "refused", "running", "failed", "dead"}
Ended == {"refused", "running", "failed", "dead"}

\* The state's type; without a session there is nothing in it.
TypeOK ==
    /\ session \in Starts \cup {None} /\ splits \in Nat
    /\ marker \in Starts \cup {None}
    /\ pane \in [Panes -> Starts \cup {"shell", "dead", "none"}]
    /\ session = None => marker = None /\ pane = [p \in Panes |-> "none"]
    /\ pc \in [Starts -> Steps] /\ listed \in [Starts -> Starts \cup {None}]
    /\ launched \in [Starts -> SUBSET Panes] /\ seen \in [Starts -> SUBSET Panes]
    /\ read \in [Starts -> {"none", "starting", "connecting", "active"}]
    /\ stable \in [Starts -> BOOLEAN]
    /\ saved \subseteq Starts
    /\ flow \in [Starts -> {"starting", "connecting", "active"}]
    /\ socket \subseteq Starts /\ linked \in [Starts -> SUBSET Roles]
    /\ hungUp \subseteq Starts
    /\ together \subseteq Starts
    /\ deaths \in 0 .. MaxDeaths /\ stops \in 0 .. MaxStops
    /\ failures \in 0 .. MaxFailures

Init ==
    /\ session = None /\ splits = 0 /\ marker = None
    /\ pane = [p \in Panes |-> "none"]
    /\ pc = [s \in Starts |-> "check"] /\ listed = [s \in Starts |-> None]
    /\ launched = [s \in Starts |-> {}] /\ seen = [s \in Starts |-> {}]
    /\ read = [s \in Starts |-> "none"] /\ stable = [s \in Starts |-> FALSE]
    /\ saved = {}
    /\ flow = [s \in Starts |-> "starting"] /\ socket = {}
    /\ linked = [s \in Starts |-> {}] /\ hungUp = {}
    /\ together = {}
    /\ deaths = 0 /\ stops = 0 /\ failures = 0

-----------------------------------------------------------------------------
(* The tmux server. *)

\* The processes of a killed session are hung up; a broker then closes.
HangUp(panes) == hungUp' = hungUp \cup
    {s \in Starts : Monitor \in panes /\ pane[Monitor] = s}

\* kill-session by name, whoever bears it.
KillByName ==
    /\ session' = None /\ splits' = 0 /\ marker' = None
    /\ pane' = [p \in Panes |-> "none"]
    /\ HangUp(Panes)
    /\ UNCHANGED <<flow, socket, linked>>

\* A pane ID that start s has listed still stands for a pane of the server.
HasPane(s) == session # None /\ session = listed[s]

Alive(p) == pane[p] \notin {"none", "dead"}

-----------------------------------------------------------------------------
(* start_command.                                                            *)

Goes(s, step) == pc' = [pc EXCEPT ![s] = step]

\* Broken: an error in the grid is reported and nothing more (NameIsUsable).
FailsQuietly(s) == Goes(s, "fail")

\* A failing call inside create_tmux_grid kills the session before the error
\* reaches start_command; anywhere else it goes there directly.
Fails(s) == Goes(s, "kill")

Check(s) ==
    /\ pc[s] = "check"
    /\ Goes(s, IF session = None THEN "prepare" ELSE "collide")
    /\ UNCHANGED <<tmuxVars, watchVars, ownVars, brokerVars, bounds, together>>

\* The run that a command finds under the name: the session is marked with it
\* and its manifest can be read.
HostedRun == IF marker \in saved THEN marker ELSE None

\* The name is taken: describe its bearer, touch nothing.
Collide(s) ==
    /\ pc[s] = "collide"
    /\ Goes(s, "refused")
    /\ UNCHANGED <<tmuxVars, watchVars, ownVars, brokerVars, bounds, together>>

\* Coordination directory with startup-state STARTING, broker database, payload
\* and tokens.
Prepare(s) ==
    /\ pc[s] = "prepare"
    /\ Goes(s, "create")
    /\ UNCHANGED <<tmuxVars, watchVars, ownVars, brokerVars, bounds, together>>

\* A local step fails (a full disk), or an interrupt, which create_tmux_grid's
\* handler lets pass, ends whatever the start was doing.
LocalFailure(s) ==
    /\ failures < MaxFailures /\ failures' = failures + 1
    /\ \/ pc[s] = "save" /\ Fails(s)
       \/ pc[s] \in {"prepare", "create", "split", "list", "title", "mark",
                    "save", "launch", "watch", "finish"} /\ Goes(s, "rollback")
    /\ UNCHANGED <<tmuxVars, watchVars, ownVars, brokerVars, together,
                   deaths, stops>>

\* new-session fails when the name is taken; that failure is outside the
\* handler of create_tmux_grid.
NewSession(s) ==
    /\ pc[s] = "create"
    /\ IF session = None
       THEN /\ session' = s /\ splits' = 0 /\ marker' = None
            /\ pane' = [p \in Panes |-> "shell"]
            /\ Goes(s, "split")
       ELSE Goes(s, "rollback") /\ UNCHANGED tmuxVars
    /\ UNCHANGED <<watchVars, ownVars, brokerVars, bounds, together>>

\* set-environment, the split-windows, layout and options, all by name.
Split(s) ==
    /\ pc[s] = "split"
    /\ IF session # None THEN splits' = splits + 1 /\ Goes(s, "list")
       ELSE Fails(s) /\ UNCHANGED splits
    /\ UNCHANGED <<watchVars, ownVars, brokerVars, bounds, session, marker,
                    pane, together>>

\* list-panes by name must find exactly the panes of the roster.
List(s) ==
    /\ pc[s] = "list"
    /\ IF session # None /\ splits = 1
       THEN listed' = [listed EXCEPT ![s] = session] /\ Goes(s, "title")
       ELSE Fails(s) /\ UNCHANGED listed
    /\ UNCHANGED <<tmuxVars, watchVars, brokerVars, bounds, launched, saved,
                   together>>

\* The panes' titles, by ID.
Title(s) ==
    /\ pc[s] = "title"
    /\ IF HasPane(s) THEN Goes(s, "mark") ELSE Fails(s)
    /\ UNCHANGED <<tmuxVars, watchVars, ownVars, brokerVars, bounds, together>>

\* The run's options on the session, by name: whoever bears it is marked.
Mark(s) ==
    /\ pc[s] = "mark"
    /\ IF session # None THEN marker' = s /\ Goes(s, "save")
       ELSE Fails(s) /\ UNCHANGED marker
    /\ UNCHANGED <<watchVars, ownVars, brokerVars, bounds, session, splits,
                    pane, together>>

Save(s) ==
    /\ pc[s] = "save"
    /\ saved' = saved \cup {s}
    /\ Goes(s, "launch")
    /\ UNCHANGED <<tmuxVars, watchVars, brokerVars, bounds, listed, launched,
                   together>>

\* respawn-pane -k by ID: the workers in the roster's order, the broker last.
Launch(s, p) ==
    /\ pc[s] = "launch" /\ p \notin launched[s]
    /\ p = Monitor => launched[s] = Roles
    /\ IF HasPane(s)
       THEN /\ pane' = [pane EXCEPT ![p] = s]
            /\ HangUp({p})
            /\ launched' = [launched EXCEPT ![s] = @ \cup {p}]
            /\ IF p # Monitor THEN UNCHANGED pc
               ELSE Goes(s, IF Custom THEN "watch" ELSE "finish")
       ELSE Fails(s) /\ UNCHANGED <<pane, hungUp, launched>>
    /\ UNCHANGED <<watchVars, bounds, session, splits, marker, listed, saved,
                    flow, socket, linked, together>>

Finish(s) ==
    /\ pc[s] = "finish"
    /\ Goes(s, "running")
    /\ UNCHANGED <<tmuxVars, watchVars, ownVars, brokerVars, bounds, together>>

-----------------------------------------------------------------------------
(* wait_for_custom_startup: a round finds every pane alive, then reads the    *)
(* workflow state, then the workers' rows.  Two good rounds at least a quarter *)
(* of a second apart, with no bad one between them, admit the run.            *)

\* A pane that cannot be found or is dead ends the start.
WatchPane(s, p) ==
    /\ pc[s] = "watch" /\ p \in Panes \ seen[s] /\ read[s] = "none"
    /\ IF HasPane(s) /\ Alive(p)
       THEN seen' = [seen EXCEPT ![s] = @ \cup {p}] /\ UNCHANGED pc
       ELSE Goes(s, "rollback") /\ UNCHANGED seen
    /\ UNCHANGED <<tmuxVars, ownVars, brokerVars, bounds, read, stable,
                   together>>

\* Broken: one pane is enough (AdmittedTogether).
SomeSeen(s) == seen[s] # {}

AllSeen(s) == seen[s] = Panes

\* A round begins anew; it keeps the previous one only when that was good.
NewRound(s, good) ==
    /\ seen' = [seen EXCEPT ![s] = {}]
    /\ read' = [read EXCEPT ![s] = "none"]
    /\ stable' = [stable EXCEPT ![s] = good]

\* No socket yet, or a database that is held: the broker is not ready.
WatchNotReady(s) ==
    /\ pc[s] = "watch" /\ AllSeen(s) /\ read[s] = "none"
    /\ NewRound(s, FALSE)
    /\ UNCHANGED <<tmuxVars, ownVars, brokerVars, bounds, pc, together>>

\* The snapshot's first query.
WatchWorkflow(s) ==
    /\ pc[s] = "watch" /\ AllSeen(s) /\ read[s] = "none"
    /\ s \in socket
    /\ read' = [read EXCEPT ![s] = flow[s]]
    /\ UNCHANGED <<tmuxVars, ownVars, brokerVars, bounds, pc, seen, stable,
                   together>>

\* Broken: a worker that is connected will do (AdmittedTogether).
AnyLinked(s) == linked[s] # {}

AllLinked(s) == linked[s] = Roles

\* Everything of run s is up at this moment.
Whole(s) == /\ session = listed[s] /\ \A p \in Panes : pane[p] = s
            /\ AllLinked(s) /\ flow[s] = "active"

\* Broken: the first good round admits the run (AdmittedTogether).
AtOnce(s) == s \in Starts

Steady(s) == stable[s]

\* The snapshot's second query, and the verdict on the round: a good round
\* starts the quarter of a second, continues it, or ends it.
WatchRoles(s) ==
    /\ pc[s] = "watch" /\ read[s] # "none"
    /\ together' = IF Whole(s) THEN together \cup {s} ELSE together
    /\ LET good == read[s] = "active" /\ AllLinked(s)
       IN \/ good /\ Steady(s) /\ Goes(s, "finish")
             /\ UNCHANGED <<seen, read, stable>>
          \/ NewRound(s, good) /\ UNCHANGED pc
    /\ UNCHANGED <<tmuxVars, ownVars, brokerVars, bounds>>

\* Twenty seconds are over; the deadline is looked at between rounds.
WatchTimeout(s) ==
    /\ pc[s] = "watch" /\ seen[s] = {} /\ read[s] = "none"
    /\ Goes(s, "rollback")
    /\ UNCHANGED <<tmuxVars, watchVars, ownVars, brokerVars, bounds, together>>

-----------------------------------------------------------------------------
(* A start that fails.                                                       *)

\* create_tmux_grid's own handler.
KillGrid(s) ==
    /\ pc[s] = "kill"
    /\ KillByName
    /\ Goes(s, "rollback")
    /\ UNCHANGED <<watchVars, ownVars, bounds, together>>

\* Broken: only what the grid's handler left is cleaned up (FailedIsGone).
Skipped == UNCHANGED <<tmuxVars, brokerVars>>

RollbackKill == KillByName

\* rollback_partial_start: kill, again by name, then wait.
Rollback(s) ==
    /\ pc[s] = "rollback"
    /\ RollbackKill
    /\ Goes(s, "gone")
    /\ UNCHANGED <<watchVars, ownVars, bounds, together>>

\* Broken: the wait has no deadline (StartsSettle).
NeverLate == FALSE

\* Five seconds can always be over.
Late == TRUE

WaitGone(s) ==
    /\ pc[s] = "gone"
    /\ (session = None /\ s \notin socket) \/ Late
    /\ Goes(s, "fail")
    /\ UNCHANGED <<tmuxVars, watchVars, ownVars, brokerVars, bounds, together>>

MarkFailed(s) ==
    /\ pc[s] = "fail"
    /\ Goes(s, "failed")
    /\ UNCHANGED <<tmuxVars, watchVars, ownVars, brokerVars, bounds, together>>

\* The process itself is killed: nothing is rolled back.
Killed(s) ==
    /\ pc[s] \notin Ended /\ failures < MaxFailures
    /\ failures' = failures + 1
    /\ Goes(s, "dead")
    /\ UNCHANGED <<tmuxVars, watchVars, ownVars, brokerVars, together,
                   deaths, stops>>

-----------------------------------------------------------------------------
(* What was launched.                                                        *)

\* The broker of run s opens its socket and takes the workflow to connecting.
BrokerOpens(s) ==
    /\ pane[Monitor] = s /\ s \in saved /\ s \notin socket
    /\ flow[s] = "starting"
    /\ socket' = socket \cup {s}
    /\ flow' = [flow EXCEPT ![s] = "connecting"]
    /\ UNCHANGED <<tmuxVars, startVars, bounds, linked, hungUp, together>>

\* A worker process reads its manifest entry, token and policies and says hello.
WorkerConnects(s, role) ==
    /\ pane[role] = s /\ pane[Monitor] = s /\ s \in saved /\ s \in socket
    /\ role \notin linked[s]
    /\ linked' = [linked EXCEPT ![s] = @ \cup {role}]
    /\ UNCHANGED <<tmuxVars, startVars, bounds, flow, socket, hungUp,
                   together>>

\* maybe_start_workflow, once the whole roster is connected.
WorkflowStarts(s) ==
    /\ pane[Monitor] = s /\ flow[s] = "connecting" /\ AllLinked(s)
    /\ flow' = [flow EXCEPT ![s] = "active"]
    /\ UNCHANGED <<tmuxVars, startVars, bounds, socket, linked, hungUp,
                   together>>

\* The broker notices that a worker is gone.
WorkerLost(s, role) ==
    /\ pane[Monitor] = s /\ role \in linked[s] /\ pane[role] # s
    /\ linked' = [linked EXCEPT ![s] = @ \ {role}]
    /\ UNCHANGED <<tmuxVars, startVars, bounds, flow, socket, hungUp,
                   together>>

\* A process exits by itself; remain-on-exit keeps its pane.  A broker leaves
\* its socket file and the rows of its workers behind.
ProcessExits(p) ==
    /\ pane[p] \in Starts /\ deaths < MaxDeaths /\ deaths' = deaths + 1
    /\ pane' = [pane EXCEPT ![p] = "dead"]
    /\ UNCHANGED <<startVars, brokerVars, session, splits, marker, together,
                    stops, failures>>

\* A broker that was hung up disconnects everybody and removes its socket.
BrokerCloses(s) ==
    /\ s \in hungUp
    /\ hungUp' = hungUp \ {s} /\ socket' = socket \ {s}
    /\ linked' = [linked EXCEPT ![s] = {}]
    /\ UNCHANGED <<tmuxVars, startVars, bounds, flow, together>>

\* The operator stops the run that the name resolves to.
OperatorStop ==
    /\ session # None /\ HostedRun # None /\ stops < MaxStops
    /\ stops' = stops + 1
    /\ KillByName
    /\ UNCHANGED <<startVars, together, deaths, failures>>

-----------------------------------------------------------------------------
StartStep(s) ==
    \/ Check(s) \/ Collide(s) \/ Prepare(s) \/ NewSession(s) \/ Split(s)
    \/ List(s) \/ Title(s) \/ Mark(s) \/ Save(s) \/ Finish(s)
    \/ \E p \in Panes : Launch(s, p) \/ WatchPane(s, p)
    \/ WatchNotReady(s) \/ WatchWorkflow(s) \/ WatchRoles(s) \/ WatchTimeout(s)
    \/ KillGrid(s) \/ Rollback(s) \/ WaitGone(s) \/ MarkFailed(s)

Environment ==
    \/ \E s \in Starts : LocalFailure(s) \/ Killed(s) \/ BrokerOpens(s)
          \/ WorkflowStarts(s) \/ BrokerCloses(s)
          \/ \E role \in Roles : WorkerConnects(s, role) \/ WorkerLost(s, role)
    \/ \E p \in Panes : ProcessExits(p)
    \/ OperatorStop

Next == Environment \/ \E s \in Starts : StartStep(s)

Spec == Init /\ [][Next]_vars

\* A start that is not killed goes on, and the watch's clock runs out: the
\* loop compares a monotonic clock with its deadline in every round.
Fairness == \A s \in Starts : /\ WF_vars(StartStep(s))
                              /\ SF_vars(WatchTimeout(s))

FairSpec == Spec /\ Fairness

-----------------------------------------------------------------------------
\* A start that reports failure has left no session of its own behind, at
\* whichever call it failed and whatever other starts did to the name meanwhile.
FailedIsGone == \A s \in Starts : pc[s] \in {"fail", "failed"} => session # s

\* Nobody else has found the panes that s found.  With three starts somebody
\* may: the first lists the session of the third after the second killed its own.
Unshared(s) == \A t \in Starts \ {s} : listed[t] # listed[s]

\* A custom run is admitted only if, at one moment, all its panes ran its own
\* processes, all its workers were connected and the workflow had started:
\* panes and rows are read one after the other, and rows outlive their workers.
\* Into shared panes another start may launch what this one's watch then sees.
AdmittedTogether ==
    \A s \in Starts : Custom /\ pc[s] \in {"finish", "running"} /\ Unshared(s)
                      => s \in together

\* When the start that made the session and the one that marked it last came to
\* their ends, well or badly, the commands can resolve the name: otherwise they
\* could not stop the session, and it would block every later start.
NameIsUsable ==
    /\ session # None
    /\ \A s \in {session, marker} \ {None} : pc[s] \in {"running", "failed"}
    => HostedRun # None

\* Every start comes to an end.
StartsSettle == \A s \in Starts : <>(pc[s] \in Ended)

\* A rollback kills only the session of its own start, as rollback_partial_start
\* and the usage notes say ("kills only the exact new tmux session").
RollbackIsExact ==
    [][\A s \in Starts : pc[s] \in {"kill", "rollback"} /\ pc'[s] # pc[s]
                         => session \in {s, None} \/ pc'[s] = "dead"]_vars
=============================================================================
