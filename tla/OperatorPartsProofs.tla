-------------------------- MODULE OperatorPartsProofs --------------------------
(***************************************************************************)
(* Proofs about the parts of Operators: the start of a run (Startup), for   *)
(* any number of starts of one name, rosters and bounds, with starts that   *)
(* are killed, interrupted or roll back each other's sessions; and its      *)
(* local stop (StopReceipt), for any runs, clients and ids, with starts and *)
(* deaths at any step.                                                      *)
(*                                                                         *)
(* Of a start, first one lemma for each variable says how a step may change *)
(* it; the invariants then follow from these, not from the actions.         *)
(***************************************************************************)
EXTENDS Startup, FiniteSetTheorems, TLAPS

\* Of StopReceipt.
CONSTANTS Clients, Runs, Ids, NoRun, MaxReceipts, MaxCrashes
VARIABLES host, stopSession, others, started, receipts, lock, client, finalized,
          kills, crashes

Stop == INSTANCE StopReceipt WITH session <- stopSession

-----------------------------------------------------------------------------
(* How a step may change the state.                                         *)

\* Stretches of a start's way, each entered only from the step before it.
Unborn == {"check", "collide", "prepare", "create"}
Blind == Unborn \cup {"split", "list"}
Young == Blind \cup {"title", "mark", "save", "launch"}
Up == {"watch", "finish", "running"}
Saving == Up \cup {"launch"}
Marking == Saving \cup {"save"}
Over == {"gone", "fail", "failed"}

\* A start goes from stretch to stretch, and pays for each entry.
Enters(s) ==
  /\ pc'[s] \in Unborn => pc[s] \in Unborn
  /\ pc'[s] \in Blind => pc[s] \in Blind
  /\ pc'[s] \in Young => pc[s] \in Young
  /\ pc'[s] \in Marking => pc[s] \in Marking \/ marker' = s
  /\ pc'[s] \in Saving => pc[s] \in Saving \/ s \in saved'
  /\ pc'[s] \in Up => pc[s] \in Up \/ (launched[s] = Roles /\ launched'[s] = Roles \cup {Monitor})
  /\ pc'[s] \in Over => pc[s] \in Over \/ (session' = None /\ marker' = None)
  /\ pc'[s] = "watch" => pc[s] \in {"watch", "launch"}
  /\ pc'[s] \in {"finish", "running"} =>
       \/ pc[s] \in {"finish", "running"}
       \/ Custom => pc[s] = "watch" /\ stable[s] /\ read[s] # "none"

\* The name is freed, or a start on its way to split takes it while it is free.
Bears ==
  \/ session' = session
  \/ session' = None
  \/ session = None /\ session' \in Starts /\ pc[session'] = "create" /\ pc'[session'] = "split"

\* A session is born unmarked, and marked by a start that is about to save.
Marks ==
  \/ marker' = marker
  \/ marker' = None /\ (session' = None \/ session = None)
  \/ marker' \in Starts /\ pc[marker'] = "mark" /\ pc'[marker'] = "save"

\* A start lists once, and finds the session that bears the name.
Finds(s) ==
  \/ listed'[s] = listed[s]
  \/ /\ pc[s] = "list" /\ pc'[s] = "title"
     /\ session # None /\ listed'[s] = session /\ session' = session

LEMMA StepEnters ==
  ASSUME StartupAssumption, TypeOK, [Next]_vars, NEW s \in Starts
  PROVE  Enters(s)
<1> USE DEF Enters, Unborn, Blind, Young, Up, Saving, Marking, Over, StartupAssumption, Goes, Fails, Steps
<1>0. pc \in [Starts -> Steps]
  BY DEF TypeOK
<1>1. ASSUME NEW t \in Starts,
             \/ Check(t) \/ Collide(t) \/ Prepare(t) \/ NewSession(t) \/ Split(t)
             \/ List(t) \/ Title(t) \/ Finish(t) \/ WatchNotReady(t) \/ WatchWorkflow(t)
             \/ WatchTimeout(t) \/ WaitGone(t) \/ MarkFailed(t) \/ LocalFailure(t) \/ Killed(t)
      PROVE  Enters(s)
  BY <1>0, <1>1 DEF Check, Collide, Prepare, NewSession, Split, List, Title, Finish, WatchNotReady,
     WatchWorkflow, WatchTimeout, WaitGone, MarkFailed, LocalFailure, Killed, Ended
<1>2. ASSUME NEW t \in Starts, Mark(t) \/ Save(t) PROVE Enters(s)
  BY <1>0, <1>2 DEF Mark, Save
<1>3. ASSUME NEW t \in Starts, NEW p \in Panes, Launch(t, p) \/ WatchPane(t, p) PROVE Enters(s)
  BY <1>0, <1>3 DEF Launch, WatchPane, TypeOK
<1>4. ASSUME NEW t \in Starts, WatchRoles(t) PROVE Enters(s)
  BY <1>0, <1>4 DEF WatchRoles, Steady
<1>5. ASSUME NEW t \in Starts, KillGrid(t) \/ Rollback(t) PROVE Enters(s)
  BY <1>0, <1>5 DEF KillGrid, Rollback, RollbackKill, KillByName
<1>6. CASE UNCHANGED pc
  BY <1>6
<1>7. ASSUME \/ \E t \in Starts : BrokerOpens(t) \/ WorkflowStarts(t) \/ BrokerCloses(t)
                \/ \E role \in Roles : WorkerConnects(t, role) \/ WorkerLost(t, role)
             \/ \E p \in Panes : ProcessExits(p)
             \/ OperatorStop \/ UNCHANGED vars
      PROVE  UNCHANGED pc
  BY <1>7 DEF BrokerOpens, WorkflowStarts, BrokerCloses, WorkerConnects, WorkerLost, ProcessExits,
     OperatorStop, startVars, vars
<1> QED
  BY <1>1, <1>2, <1>3, <1>4, <1>5, <1>6, <1>7 DEF Next, Environment, StartStep

LEMMA StepOfServer ==
  ASSUME TypeOK, [Next]_vars
  PROVE  /\ Bears /\ Marks /\ saved \subseteq saved' /\ together \subseteq together'
         /\ \A s \in Starts : Finds(s)
<1> USE DEF Bears, Marks, Finds, Goes, Fails, Steps
<1> DEFINE Goal == /\ Bears /\ Marks /\ saved \subseteq saved' /\ together \subseteq together'
                   /\ \A s \in Starts : Finds(s)
<1>0. pc \in [Starts -> Steps] /\ listed \in [Starts -> Starts \cup {None}]
  BY DEF TypeOK
<1>1. ASSUME NEW t \in Starts,
             \/ Check(t) \/ Collide(t) \/ Prepare(t) \/ Split(t) \/ Title(t) \/ Finish(t)
             \/ WatchNotReady(t) \/ WatchWorkflow(t) \/ WatchRoles(t) \/ WatchTimeout(t)
             \/ WaitGone(t) \/ MarkFailed(t) \/ LocalFailure(t) \/ Killed(t) \/ Save(t)
             \/ \E p \in Panes : Launch(t, p) \/ WatchPane(t, p)
      PROVE  Goal
  BY <1>0, <1>1 DEF Check, Collide, Prepare, Split, Title, Finish, WatchNotReady, WatchWorkflow,
     WatchRoles, WatchTimeout, WaitGone, MarkFailed, LocalFailure, Killed, Save, Launch, WatchPane,
     tmuxVars, ownVars
<1>2. ASSUME NEW t \in Starts, NewSession(t) PROVE Goal
  BY <1>0, <1>2 DEF NewSession, tmuxVars, ownVars
<1>3. ASSUME NEW t \in Starts, List(t) PROVE Goal
  BY <1>0, <1>3 DEF List, tmuxVars
<1>4. ASSUME NEW t \in Starts, Mark(t) PROVE Goal
  BY <1>0, <1>4 DEF Mark, ownVars
<1>5. ASSUME NEW t \in Starts, KillGrid(t) \/ Rollback(t) PROVE Goal
  BY <1>0, <1>5 DEF KillGrid, Rollback, RollbackKill, KillByName, ownVars
<1>6. ASSUME \/ \E t \in Starts : BrokerOpens(t) \/ WorkflowStarts(t) \/ BrokerCloses(t)
                \/ \E role \in Roles : WorkerConnects(t, role) \/ WorkerLost(t, role)
             \/ \E p \in Panes : ProcessExits(p)
             \/ OperatorStop \/ UNCHANGED vars
      PROVE  Goal
  BY <1>0, <1>6 DEF BrokerOpens, WorkflowStarts, BrokerCloses, WorkerConnects, WorkerLost,
     ProcessExits,
     OperatorStop, KillByName, startVars, tmuxVars, ownVars, vars
<1> QED
  BY <1>1, <1>2, <1>3, <1>4, <1>5, <1>6 DEF Next, Environment, StartStep

-----------------------------------------------------------------------------
(* Types.                                                                   *)

LEMMA InitTyped == StartupAssumption /\ Init => TypeOK
  BY DEF StartupAssumption, Init, TypeOK, Steps, Panes

LEMMA StepTyped ==
  ASSUME StartupAssumption, TypeOK, [Next]_vars
  PROVE  TypeOK'
<1> USE DEF TypeOK, StartupAssumption, Goes, Fails, Steps, tmuxVars, watchVars, ownVars, brokerVars, bounds
<1>1. ASSUME NEW t \in Starts,
             \/ Check(t) \/ Collide(t) \/ Prepare(t) \/ Title(t) \/ Finish(t) \/ Save(t)
             \/ WatchTimeout(t) \/ WaitGone(t) \/ MarkFailed(t)
      PROVE  TypeOK'
  BY <1>1 DEF Check, Collide, Prepare, Title, Finish, Save, WatchTimeout, WaitGone, MarkFailed
<1>2. ASSUME NEW t \in Starts, LocalFailure(t) \/ Killed(t) PROVE TypeOK'
  BY <1>2 DEF LocalFailure, Killed
<1>3. ASSUME NEW t \in Starts, NewSession(t) \/ Split(t) \/ List(t) \/ Mark(t) PROVE TypeOK'
  BY <1>3 DEF NewSession, Split, List, Mark
<1>4. ASSUME NEW t \in Starts, NEW p \in Panes, Launch(t, p) PROVE TypeOK'
  BY <1>4 DEF Launch, HasPane, HangUp
<1>5. ASSUME NEW t \in Starts, NEW p \in Panes, WatchPane(t, p) PROVE TypeOK'
  BY <1>5 DEF WatchPane
<1>6. ASSUME NEW t \in Starts, WatchNotReady(t) \/ WatchWorkflow(t) PROVE TypeOK'
  <2>1. flow[t] \in {"starting", "connecting", "active"}
    OBVIOUS
  <2>2. CASE WatchNotReady(t)
    BY <2>2 DEF WatchNotReady, NewRound
  <2>3. CASE WatchWorkflow(t)
    BY <2>1, <2>3 DEF WatchWorkflow
  <2> QED
    BY <1>6, <2>2, <2>3
<1>7. ASSUME NEW t \in Starts, WatchRoles(t) PROVE TypeOK'
  <2>1. /\ pc' \in [Starts -> Steps]
        /\ seen' \in [Starts -> SUBSET Panes] /\ stable' \in [Starts -> BOOLEAN]
        /\ read' \in [Starts -> {"none", "starting", "connecting", "active"}]
    BY <1>7 DEF WatchRoles, NewRound, AllLinked
  <2>2. together' \subseteq Starts
    BY <1>7 DEF WatchRoles
  <2> QED
    BY <1>7, <2>1, <2>2 DEF WatchRoles
<1>8. ASSUME NEW t \in Starts, KillGrid(t) \/ Rollback(t) PROVE TypeOK'
  BY <1>8 DEF KillGrid, Rollback, RollbackKill, KillByName, HangUp
<1>9. ASSUME NEW t \in Starts,
             \/ BrokerOpens(t) \/ WorkflowStarts(t) \/ BrokerCloses(t)
             \/ \E role \in Roles : WorkerConnects(t, role) \/ WorkerLost(t, role)
      PROVE  TypeOK'
  BY <1>9 DEF BrokerOpens, WorkflowStarts, BrokerCloses, WorkerConnects, WorkerLost, startVars
<1>10. ASSUME NEW p \in Panes, ProcessExits(p) PROVE TypeOK'
  BY <1>10 DEF ProcessExits, startVars
<1>11. CASE OperatorStop
  BY <1>11 DEF OperatorStop, KillByName, HangUp, startVars
<1>12. CASE UNCHANGED vars
  BY <1>12 DEF vars
<1> QED
  BY <1>1, <1>2, <1>3, <1>4, <1>5, <1>6, <1>7, <1>8, <1>9, <1>10, <1>11, <1>12
     DEF Next, Environment, StartStep

-----------------------------------------------------------------------------
(* Who bears and marks the name.                                            *)

\* A session is created by a start that has not been there before.
FirstBorn == \A s \in Starts : pc[s] \in Unborn => session # s /\ \A t \in Starts : listed[t] # s

NothingLeft == \A s \in Starts : pc[s] \in Over => session # s /\ marker # s
OwnsAreMarked == \A s \in Starts : pc[s] \in Marking /\ session = s => marker # None
MarkedAreSaved == \A s \in Starts : pc[s] \in Saving => s \in saved

NameInv == FirstBorn /\ NothingLeft /\ OwnsAreMarked /\ MarkedAreSaved

LEMMA InitNamed == StartupAssumption /\ Init => NameInv
  BY DEF StartupAssumption, Init, NameInv, FirstBorn, NothingLeft, OwnsAreMarked, MarkedAreSaved,
     Unborn, Over, Marking, Saving, Up

LEMMA StepNamed ==
  ASSUME StartupAssumption, TypeOK, NameInv, [Next]_vars
  PROVE  NameInv'
<1> USE StepOfServer, StepEnters
<1>0. /\ None \notin Starts /\ session \in Starts \cup {None} /\ marker \in Starts \cup {None}
      /\ \A s \in Starts : listed[s] \in Starts \cup {None}
  BY DEF StartupAssumption, TypeOK
<1>1. FirstBorn'
  <2> SUFFICES ASSUME NEW s \in Starts, pc'[s] \in Unborn
               PROVE  session' # s /\ \A t \in Starts : listed'[t] # s
    BY DEF FirstBorn
  <2>1. session # s /\ \A t \in Starts : listed[t] # s
    BY DEF Enters, NameInv, FirstBorn
  <2>2. session' # s
    BY <2>1, <1>0 DEF Bears, Unborn
  <2> QED
    BY <2>1, <2>2 DEF Finds
<1>2. NothingLeft'
  <2> SUFFICES ASSUME NEW s \in Starts, pc'[s] \in Over PROVE session' # s /\ marker' # s
    BY DEF NothingLeft
  <2>1. CASE session' = None /\ marker' = None
    BY <2>1, <1>0
  <2>2. CASE pc[s] \in Over
    <3>1. session # s /\ marker # s
      BY <2>2 DEF NameInv, NothingLeft
    <3> QED
      BY <2>2, <3>1, <1>0 DEF Bears, Marks, Over
  <2> QED
    BY <2>1, <2>2 DEF Enters
<1>3. OwnsAreMarked'
  <2> SUFFICES ASSUME NEW s \in Starts, pc'[s] \in Marking, session' = s PROVE marker' # None
    BY DEF OwnsAreMarked
  <2>1. session = s
    BY <1>0 DEF Bears, Marking, Saving, Up
  <2>2. CASE pc[s] \in Marking
    <3>1. marker # None
      BY <2>1, <2>2 DEF NameInv, OwnsAreMarked
    <3> QED
      BY <1>0, <2>1, <3>1 DEF Marks
  <2>3. CASE marker' = s
    BY <2>3, <1>0
  <2> QED
    BY <2>2, <2>3 DEF Enters
<1>4. MarkedAreSaved'
  BY DEF NameInv, MarkedAreSaved, Enters
<1> QED
  BY <1>1, <1>2, <1>3, <1>4 DEF NameInv

-----------------------------------------------------------------------------
(* The watch.                                                               *)

\* A pane's process may die; otherwise only a start that listed it fills it.
Fills(p) ==
  \/ session' # session
  \/ pane'[p] \in {pane[p], "dead"}
  \/ \E t \in Starts : pc[t] = "launch" /\ session = listed[t] /\ pane'[p] = t

Launches(s) ==
  \/ launched'[s] = launched[s]
  \/ /\ session # None /\ session = listed[s] /\ listed'[s] = listed[s]
     /\ \E p \in Panes : launched'[s] = launched[s] \cup {p} /\ pane'[p] = s

LooksAt(s, p) ==
  /\ session = listed[s] /\ pane[p] # "dead"
  /\ seen'[s] = seen[s] \cup {p} /\ UNCHANGED <<session, pane, listed>>
  /\ read[s] = "none" /\ read'[s] = "none" /\ stable'[s] = stable[s]

Reads(s) ==
  /\ seen[s] = Panes /\ seen'[s] = seen[s]
  /\ read'[s] = flow[s] /\ stable'[s] = stable[s]

Judges(s) ==
  /\ seen'[s] = {} /\ read'[s] = "none"
  /\ UNCHANGED <<session, pane, listed>>
  /\ stable'[s] => read[s] = "active" /\ AllLinked(s) /\ (Whole(s) => s \in together')

\* What a step does to a start's round.
Watches(s) ==
  \/ seen'[s] = seen[s] /\ read'[s] = read[s] /\ stable'[s] = stable[s]
  \/ pc[s] = "watch" /\ \/ \E p \in Panes : LooksAt(s, p)
                        \/ Reads(s) \/ Judges(s)

LEMMA StepFills ==
  ASSUME StartupAssumption, TypeOK, [Next]_vars, NEW p \in Panes
  PROVE  Fills(p)
<1> USE DEF Fills, tmuxVars
<1>0. pane \in [Panes -> Starts \cup {"shell", "dead", "none"}]
  BY DEF TypeOK
<1>1. ASSUME NEW t \in Starts,
             \/ Check(t) \/ Collide(t) \/ Prepare(t) \/ Split(t) \/ List(t) \/ Title(t) \/ Mark(t)
             \/ Save(t) \/ Finish(t) \/ \E q \in Panes : WatchPane(t, q)
             \/ WatchNotReady(t) \/ WatchWorkflow(t) \/ WatchRoles(t) \/ WatchTimeout(t)
             \/ WaitGone(t) \/ MarkFailed(t) \/ LocalFailure(t) \/ Killed(t)
      PROVE  UNCHANGED pane
  BY <1>1 DEF Check, Collide, Prepare, Split, List, Title, Mark, Save, Finish, WatchPane,
     WatchNotReady, WatchWorkflow, WatchRoles, WatchTimeout, WaitGone, MarkFailed, LocalFailure,
     Killed
<1>2. ASSUME \/ \E t \in Starts : BrokerOpens(t) \/ WorkflowStarts(t) \/ BrokerCloses(t)
                \/ \E role \in Roles : WorkerConnects(t, role) \/ WorkerLost(t, role)
             \/ UNCHANGED vars
      PROVE  UNCHANGED pane
  BY <1>2 DEF BrokerOpens, WorkflowStarts, BrokerCloses, WorkerConnects, WorkerLost, vars
<1>3. ASSUME NEW t \in Starts, NewSession(t) PROVE Fills(p)
  BY <1>0, <1>3 DEF NewSession, StartupAssumption
<1>4. ASSUME NEW t \in Starts, NEW q \in Panes, Launch(t, q) PROVE Fills(p)
  BY <1>0, <1>4 DEF Launch, HasPane
<1>5. ASSUME NEW q \in Panes, ProcessExits(q) PROVE Fills(p)
  BY <1>0, <1>5 DEF ProcessExits
<1>6. ASSUME (\E t \in Starts : KillGrid(t) \/ Rollback(t)) \/ OperatorStop PROVE Fills(p)
  <2>1. session' = None /\ pane' = [q \in Panes |-> "none"]
    BY <1>6 DEF KillGrid, Rollback, RollbackKill, OperatorStop, KillByName
  <2>2. session = None => pane[p] = "none"
    BY DEF TypeOK
  <2> QED
    BY <2>1, <2>2
<1>7. UNCHANGED pane => Fills(p)
  OBVIOUS
<1> QED
  BY <1>1, <1>2, <1>3, <1>4, <1>5, <1>6, <1>7 DEF Next, Environment, StartStep

LEMMA StepLaunches ==
  ASSUME TypeOK, [Next]_vars, NEW s \in Starts
  PROVE  Launches(s)
<1> USE DEF Launches
<1>0. pane \in [Panes -> Starts \cup {"shell", "dead", "none"}] /\ launched \in [Starts -> SUBSET Panes]
  BY DEF TypeOK
<1>1. ASSUME NEW t \in Starts,
             \/ Check(t) \/ Collide(t) \/ Prepare(t) \/ NewSession(t) \/ Split(t) \/ List(t)
             \/ Title(t) \/ Mark(t) \/ Save(t) \/ Finish(t) \/ \E q \in Panes : WatchPane(t, q)
             \/ WatchNotReady(t) \/ WatchWorkflow(t) \/ WatchRoles(t) \/ WatchTimeout(t)
             \/ KillGrid(t) \/ Rollback(t)
             \/ WaitGone(t) \/ MarkFailed(t) \/ LocalFailure(t) \/ Killed(t)
      PROVE  UNCHANGED launched
  BY <1>1 DEF Check, Collide, Prepare, NewSession, Split, List, Title, Mark, Save, Finish,
     WatchPane,
     WatchNotReady, WatchWorkflow, WatchRoles, WatchTimeout, KillGrid, Rollback, WaitGone,
     MarkFailed,
     LocalFailure, Killed, ownVars
<1>2. ASSUME \/ \E t \in Starts : BrokerOpens(t) \/ WorkflowStarts(t) \/ BrokerCloses(t)
                \/ \E role \in Roles : WorkerConnects(t, role) \/ WorkerLost(t, role)
             \/ \E q \in Panes : ProcessExits(q)
             \/ OperatorStop \/ UNCHANGED vars
      PROVE  UNCHANGED launched
  BY <1>2 DEF BrokerOpens, WorkflowStarts, BrokerCloses, WorkerConnects, WorkerLost, ProcessExits,
     OperatorStop, startVars, ownVars, vars
<1>3. ASSUME NEW t \in Starts, NEW q \in Panes, Launch(t, q) PROVE Launches(s)
  BY <1>0, <1>3 DEF Launch, HasPane
<1>4. UNCHANGED launched => Launches(s)
  OBVIOUS
<1> QED
  BY <1>1, <1>2, <1>3, <1>4 DEF Next, Environment, StartStep

LEMMA StepWatches ==
  ASSUME TypeOK, [Next]_vars, NEW s \in Starts
  PROVE  Watches(s) /\ (flow[s] = "active" => flow'[s] = "active")
<1> DEFINE Goal == Watches(s) /\ (flow[s] = "active" => flow'[s] = "active")
<1> USE DEF Watches, LooksAt, Reads, Judges, tmuxVars, watchVars, ownVars, brokerVars
<1>0. /\ seen \in [Starts -> SUBSET Panes] /\ stable \in [Starts -> BOOLEAN]
      /\ read \in [Starts -> {"none", "starting", "connecting", "active"}]
      /\ flow \in [Starts -> {"starting", "connecting", "active"}]
  BY DEF TypeOK
<1>1. ASSUME NEW t \in Starts,
             \/ Check(t) \/ Collide(t) \/ Prepare(t) \/ NewSession(t) \/ Split(t) \/ List(t)
             \/ Title(t) \/ Mark(t) \/ Save(t) \/ Finish(t) \/ WatchTimeout(t)
             \/ WaitGone(t) \/ MarkFailed(t) \/ LocalFailure(t) \/ Killed(t)
             \/ \E q \in Panes : Launch(t, q)
      PROVE  UNCHANGED <<watchVars, flow>>
  BY <1>1 DEF Check, Collide, Prepare, NewSession, Split, List, Title, Mark, Save, Finish,
     WatchTimeout, WaitGone, MarkFailed, LocalFailure, Killed, Launch
<1>2. ASSUME \/ \E t \in Starts : \/ KillGrid(t) \/ Rollback(t) \/ BrokerCloses(t)
                                  \/ \E role \in Roles : WorkerConnects(t, role) \/ WorkerLost(t, role)
             \/ \E q \in Panes : ProcessExits(q)
             \/ OperatorStop \/ UNCHANGED vars
      PROVE  UNCHANGED <<watchVars, flow>>
  BY <1>2 DEF KillGrid, Rollback, RollbackKill, KillByName, BrokerCloses, WorkerConnects,
     WorkerLost,
     ProcessExits, OperatorStop, startVars, vars
<1>3. ASSUME NEW t \in Starts, BrokerOpens(t) \/ WorkflowStarts(t) PROVE Goal
  BY <1>0, <1>3 DEF BrokerOpens, WorkflowStarts, startVars
<1>4. ASSUME NEW t \in Starts, NEW q \in Panes, WatchPane(t, q) PROVE Goal
  BY <1>0, <1>4 DEF WatchPane, HasPane, Alive
<1>5. ASSUME NEW t \in Starts, WatchNotReady(t) \/ WatchWorkflow(t) PROVE Goal
  BY <1>0, <1>5 DEF WatchNotReady, WatchWorkflow, NewRound, AllSeen
<1>6. ASSUME NEW t \in Starts, WatchRoles(t) PROVE Goal
  <2>1. CASE UNCHANGED watchVars
    BY <1>6, <2>1 DEF WatchRoles
  <2>2. CASE NewRound(t, read[t] = "active" /\ AllLinked(t)) /\ t = s
    BY <1>0, <1>6, <2>2 DEF WatchRoles, NewRound
  <2>3. CASE NewRound(t, read[t] = "active" /\ AllLinked(t)) /\ t # s
    BY <1>0, <1>6, <2>3 DEF WatchRoles, NewRound
  <2> QED
    BY <1>6, <2>1, <2>2, <2>3 DEF WatchRoles
<1>7. UNCHANGED <<watchVars, flow>> => Goal
  OBVIOUS
<1> QED
  BY <1>1, <1>2, <1>3, <1>4, <1>5, <1>6, <1>7 DEF Next, Environment, StartStep

\* What has launched anything has listed before, and listing comes once.
Rooted ==
  \A s \in Starts :
    /\ pc[s] \in Blind => listed[s] = None
    /\ launched[s] # {} => listed[s] # None
    /\ pc[s] \in Up => launched[s] = Panes

\* Nobody else launches into panes that only one start has found.
OwnPanes ==
  \A s \in Starts : Unshared(s) /\ session = listed[s] =>
    \A p \in launched[s] : pane[p] \in {s, "dead"}

\* A round begins with nothing read; rows are read when all panes were seen.
Rounds ==
  \A s \in Starts :
    /\ pc[s] \in Young => ~stable[s]
    /\ read[s] # "none" => seen[s] = Panes
    /\ read[s] = "active" => flow[s] = "active"

\* A pane that the watch of s will not find alive again.
Lost(s, p) == session # listed[s] \/ pane[p] = "dead"

\* A good round that was not whole has lost a pane that the next must still see.
Doubted ==
  \A s \in Starts : pc[s] = "watch" /\ stable[s] /\ Unshared(s) /\ s \notin together =>
    \E p \in Panes \ seen[s] : Lost(s, p)

WatchInv == Rooted /\ OwnPanes /\ Rounds /\ Doubted /\ AdmittedTogether

LEMMA InitWatched == StartupAssumption /\ Init => WatchInv
  BY DEF StartupAssumption, Init, WatchInv, Rooted, OwnPanes, Rounds, Doubted, AdmittedTogether,
     Young,
     Blind, Unborn, Up

LEMMA StepRooted ==
  ASSUME StartupAssumption, TypeOK, Rooted, [Next]_vars
  PROVE  Rooted'
<1> SUFFICES ASSUME NEW s \in Starts
             PROVE  /\ pc'[s] \in Blind => listed'[s] = None
                    /\ launched'[s] # {} => listed'[s] # None
                    /\ pc'[s] \in Up => launched'[s] = Panes
  BY DEF Rooted
<1>0. /\ Enters(s) /\ Finds(s) /\ Launches(s)
      /\ launched[s] \subseteq Panes /\ listed[s] \in Starts \cup {None} /\ None \notin Starts
  BY StepEnters, StepOfServer, StepLaunches DEF TypeOK, StartupAssumption
<1>1. pc'[s] \in Blind => listed'[s] = None
  BY <1>0 DEF Enters, Finds, Rooted, Blind, Unborn
<1>2. launched'[s] # {} => listed'[s] # None
  BY <1>0 DEF Launches, Finds, Rooted, Blind
<1>3. pc'[s] \in Up => launched'[s] = Panes
  BY <1>0 DEF Launches, Enters, Rooted, Panes
<1> QED
  BY <1>1, <1>2, <1>3

\* What a start has listed stays the session it knows, and can only get lost.
LEMMA ListedStays ==
  ASSUME StartupAssumption, TypeOK, NameInv, Rooted, [Next]_vars,
         NEW s \in Starts, listed[s] # None, listed'[s] = listed[s]
  PROVE  /\ Unshared(s)' => Unshared(s)
         /\ session' = listed'[s] => session = listed[s]
<1>1. ASSUME Unshared(s)' PROVE Unshared(s)
  <2> SUFFICES ASSUME NEW t \in Starts \ {s}, listed[t] = listed[s] PROVE FALSE
    BY DEF Unshared
  <2>1. listed'[t] # listed[t]
    BY <1>1 DEF Unshared
  <2> QED
    BY <2>1, StepOfServer DEF Finds, Rooted, Blind, Unborn
<1>2. ASSUME session' = listed'[s] PROVE session = listed[s]
  BY <1>2, StepOfServer DEF Bears, NameInv, FirstBorn, Unborn
<1> QED
  BY <1>1, <1>2

LEMMA StepOwnPanes ==
  ASSUME StartupAssumption, TypeOK, NameInv, Rooted, OwnPanes, [Next]_vars
  PROVE  OwnPanes'
<1> SUFFICES ASSUME NEW s \in Starts, Unshared(s)', session' = listed'[s], NEW p \in launched'[s]
             PROVE  pane'[p] \in {s, "dead"}
  BY DEF OwnPanes
<1>0. Launches(s) /\ Finds(s) /\ launched[s] \subseteq Panes
  BY StepLaunches, StepOfServer DEF TypeOK
<1>1. CASE launched'[s] # launched[s] /\ p \notin launched[s]
  BY <1>0, <1>1 DEF Launches
<1>2. CASE p \in launched[s]
  <2>1. listed[s] # None /\ listed'[s] = listed[s]
    BY <1>0, <1>2 DEF Rooted, Finds, Blind, Unborn
  <2>2. Unshared(s) /\ session = listed[s] /\ session' = session
    BY <2>1, ListedStays
  <2>3. pane[p] \in {s, "dead"}
    BY <1>2, <2>2 DEF OwnPanes
  <2>4. Fills(p)
    BY <1>0, <1>2, StepFills
  <2>5. ASSUME NEW t \in Starts, session = listed[t] PROVE t = s
    BY <2>2, <2>5 DEF Unshared
  <2> QED
    BY <2>2, <2>3, <2>4, <2>5 DEF Fills
<1> QED
  BY <1>1, <1>2

LEMMA StepRounds ==
  ASSUME StartupAssumption, TypeOK, Rounds, [Next]_vars
  PROVE  Rounds'
<1> SUFFICES ASSUME NEW s \in Starts
             PROVE  /\ pc'[s] \in Young => ~stable'[s]
                    /\ read'[s] # "none" => seen'[s] = Panes
                    /\ read'[s] = "active" => flow'[s] = "active"
  BY DEF Rounds
<1>0. /\ Enters(s) /\ Watches(s) /\ (flow[s] = "active" => flow'[s] = "active")
      /\ seen[s] \subseteq Panes
  BY StepEnters, StepWatches DEF TypeOK
<1>1. pc'[s] \in Young => ~stable'[s]
  <2>1. pc[s] = "watch" => pc'[s] \notin Young
    BY <1>0 DEF Enters, Young, Blind, Unborn
  <2> QED
    BY <1>0, <2>1 DEF Enters, Watches, Rounds
<1>2. read'[s] # "none" => seen'[s] = Panes
  BY <1>0 DEF Watches, LooksAt, Reads, Judges, Rounds
<1>3. read'[s] = "active" => flow'[s] = "active"
  BY <1>0 DEF Watches, LooksAt, Reads, Judges, Rounds
<1> QED
  BY <1>1, <1>2, <1>3

\* A start that watches or has ended well knows its session, and keeps it to itself.
LEMMA UpKnows ==
  ASSUME StartupAssumption, TypeOK, NameInv, Rooted, [Next]_vars,
         NEW s \in Starts, pc[s] \in Up, Unshared(s)'
  PROVE  listed[s] # None /\ listed'[s] = listed[s] /\ Unshared(s) /\ launched[s] = Panes
<1>1. listed[s] # None /\ launched[s] = Panes
  BY DEF Rooted, Panes
<1>2. listed'[s] = listed[s]
  BY StepOfServer DEF Finds, Up
<1> QED
  BY <1>1, <1>2, ListedStays

LEMMA LostStays ==
  ASSUME StartupAssumption, TypeOK, NameInv, Rooted, [Next]_vars,
         NEW s \in Starts, pc[s] = "watch", Unshared(s)', NEW p \in Panes, Lost(s, p)
  PROVE  Lost(s, p)'
<1>1. listed[s] # None /\ listed'[s] = listed[s] /\ Unshared(s)
  BY UpKnows DEF Up
<1>2. CASE session' # listed'[s]
  BY <1>2 DEF Lost
<1>3. CASE session' = listed'[s]
  <2>1. session = listed[s] /\ session' = session /\ pane[p] = "dead"
    BY <1>1, <1>3, ListedStays DEF Lost
  <2>2. ASSUME NEW t \in Starts, session = listed[t] PROVE pc[t] # "launch"
    BY <1>1, <2>1, <2>2 DEF Unshared
  <2> QED
    BY <2>1, <2>2, StepFills DEF Fills, Lost
<1> QED
  BY <1>2, <1>3

LEMMA StepDoubted ==
  ASSUME StartupAssumption, TypeOK, NameInv, WatchInv, [Next]_vars
  PROVE  Doubted'
<1> SUFFICES ASSUME NEW s \in Starts, pc'[s] = "watch", stable'[s], Unshared(s)', s \notin together'
             PROVE  \E p \in Panes \ seen'[s] : Lost(s, p)'
  BY DEF Doubted
<1> USE DEF WatchInv
<1>0. Enters(s) /\ Watches(s) /\ together \subseteq together'
  BY StepEnters, StepWatches, StepOfServer
<1>1. pc[s] = "watch"
  <2>1. pc[s] = "launch" => ~stable'[s]
    BY <1>0 DEF Watches, Rounds, Young
  <2> QED
    BY <1>0, <2>1 DEF Enters
<1>2. listed[s] # None /\ listed'[s] = listed[s] /\ Unshared(s) /\ launched[s] = Panes
  BY <1>1, UpKnows DEF Up
<1>3. ASSUME stable[s] PROVE \E p \in Panes \ seen[s] : Lost(s, p) /\ Lost(s, p)'
  BY <1>0, <1>1, <1>2, <1>3, LostStays DEF Doubted
<1>4. CASE seen'[s] = seen[s] /\ stable'[s] = stable[s]
  BY <1>3, <1>4
<1>5. ASSUME NEW q \in Panes, LooksAt(s, q) PROVE \E p \in Panes \ seen'[s] : Lost(s, p)'
  <2>1. PICK p \in Panes \ seen[s] : Lost(s, p) /\ Lost(s, p)'
    BY <1>3, <1>5 DEF LooksAt
  <2>2. p # q
    BY <1>5, <2>1 DEF LooksAt, Lost
  <2> QED
    BY <1>5, <2>1, <2>2 DEF LooksAt
<1>6. ASSUME Judges(s) PROVE \E p \in Panes \ seen'[s] : Lost(s, p)'
  <2>1. /\ seen'[s] = {} /\ session' = session /\ pane' = pane
        /\ read[s] = "active" /\ AllLinked(s) /\ ~Whole(s)
    BY <1>6 DEF Judges
  <2>2. PICK p \in Panes : session # listed[s] \/ pane[p] # s
    BY <2>1 DEF Whole, Rounds, Panes
  <2>3. session = listed[s] => pane[p] \in {s, "dead"}
    BY <1>2, <2>2 DEF OwnPanes
  <2> QED
    BY <1>2, <2>1, <2>2, <2>3 DEF Lost
<1> QED
  BY <1>0, <1>4, <1>5, <1>6 DEF Watches, Reads

LEMMA StepAdmitted ==
  ASSUME StartupAssumption, TypeOK, NameInv, WatchInv, [Next]_vars
  PROVE  AdmittedTogether'
<1> SUFFICES ASSUME NEW s \in Starts, Custom, pc'[s] \in {"finish", "running"}, Unshared(s)'
             PROVE  s \in together'
  BY DEF AdmittedTogether
<1> USE DEF WatchInv
<1>0. Enters(s) /\ together \subseteq together'
  BY StepEnters, StepOfServer
<1>1. CASE pc[s] \in {"finish", "running"}
  BY <1>0, <1>1, UpKnows DEF AdmittedTogether, Up
<1>2. CASE pc[s] = "watch" /\ stable[s] /\ read[s] # "none"
  BY <1>0, <1>2, UpKnows DEF Doubted, Rounds, Up
<1> QED
  BY <1>0, <1>1, <1>2 DEF Enters

-----------------------------------------------------------------------------
(* What follows.                                                            *)

StartupInv == TypeOK /\ NameInv /\ WatchInv

LEMMA InitInvariant == StartupAssumption /\ Init => StartupInv
  BY InitTyped, InitNamed, InitWatched DEF StartupInv

LEMMA NextInvariant ==
  ASSUME StartupAssumption, StartupInv, [Next]_vars
  PROVE  StartupInv'
<1>1. TypeOK' /\ NameInv'
  BY StepTyped, StepNamed DEF StartupInv
<1>2. Rooted' /\ OwnPanes' /\ Rounds'
  BY StepRooted, StepOwnPanes, StepRounds DEF StartupInv, WatchInv
<1>3. Doubted' /\ AdmittedTogether'
  BY StepDoubted, StepAdmitted DEF StartupInv
<1> QED
  BY <1>1, <1>2, <1>3 DEF StartupInv, WatchInv

LEMMA Invariant == StartupAssumption => (Spec => []StartupInv)
<1> SUFFICES ASSUME StartupAssumption PROVE Spec => []StartupInv
  OBVIOUS
<1>1. Init => StartupInv
  BY InitInvariant
<1>2. StartupInv /\ [Next]_vars => StartupInv'
  BY NextInvariant
<1> QED
  BY <1>1, <1>2, PTL DEF Spec

LEMMA FailedAreGone == StartupInv => FailedIsGone
  BY DEF StartupInv, NameInv, NothingLeft, FailedIsGone, Over

LEMMA EndedAreNamed ==
  ASSUME StartupAssumption, StartupInv
  PROVE  NameIsUsable
<1> SUFFICES ASSUME session # None,
                    \A s \in {session, marker} \ {None} : pc[s] \in {"running", "failed"}
             PROVE  HostedRun # None
  BY DEF NameIsUsable
<1> USE DEF StartupInv, NameInv
<1>0. session \in Starts /\ marker \in Starts \cup {None} /\ None \notin Starts
  BY DEF TypeOK, StartupAssumption
<1>1. pc[session] = "running"
  BY <1>0 DEF NothingLeft, Over
<1>2. marker # None
  BY <1>0, <1>1 DEF OwnsAreMarked, Marking, Saving, Up
<1>3. pc[marker] = "running"
  BY <1>0, <1>2 DEF NothingLeft, Over
<1>4. marker \in saved
  BY <1>0, <1>2, <1>3 DEF MarkedAreSaved, Saving, Up
<1> QED
  BY <1>2, <1>4 DEF HostedRun

LEMMA AdmittedWereWhole == StartupInv => AdmittedTogether
  BY DEF StartupInv, WatchInv

\* The state keeps its types, and without a session there is nothing in it.
THEOREM TypeCorrect == StartupAssumption => (Spec => []TypeOK)
<1>1. StartupInv => TypeOK
  BY DEF StartupInv
<1> QED
  BY <1>1, Invariant, PTL

\* A start that fails leaves no session of its own, wherever it failed, and
\* whoever took the name meanwhile: rollback_partial_start kills by name.
THEOREM FailedStartsAreGone == StartupAssumption => (Spec => []FailedIsGone)
  BY FailedAreGone, Invariant, PTL

\* A session whose start, and whose last marker, have ended is resolved by the
\* commands: it is marked, and its marker's manifest was written.
THEOREM NamesAreUsable == StartupAssumption => (Spec => []NameIsUsable)
<1> SUFFICES ASSUME StartupAssumption PROVE Spec => []NameIsUsable
  OBVIOUS
<1>1. StartupInv => NameIsUsable
  BY EndedAreNamed
<1> QED
  BY <1>1, Invariant, PTL

\* A custom roster whose panes no other start has found is admitted only if all
\* of it was up at one moment, although panes and rows are read one by one and a
\* dead worker's row may still say connected (wait_for_custom_startup).
THEOREM CustomRunsAreWhole == StartupAssumption => (Spec => []AdmittedTogether)
  BY AdmittedWereWhole, Invariant, PTL

-----------------------------------------------------------------------------
(* The local stop: the inductive invariant.                                 *)

\* From its claim to the completion a stop holds the lock of its run.
Holding == {"create", "observe", "kill", "complete", "written"}

Claims == [at : Stop!Steps, run : Runs \cup {NoRun}, id : Ids \cup {NoRun},
           duplicate : BOOLEAN, target : Nat]

\* The types that the rest needs; numbers of sessions are not bounded here.
Forms ==
  /\ client \in [Clients -> Claims]
  /\ lock \in [Runs -> Clients \cup {NoRun}]
  /\ receipts \in [Runs -> [Ids -> Stop!Contents]]
  /\ stopSession \in Nat

\* A stop between claim and completion has the lock; its receipt is what it left of it.
Held(c) ==
  client[c].at \in Holding =>
    /\ client[c].run \in started /\ client[c].run \in Runs /\ client[c].id \in Ids
    /\ lock[client[c].run] = c
    /\ receipts[client[c].run][client[c].id] =
         IF client[c].at \in {"create", "written"} THEN "empty" ELSE "uncertain"

\* The session a stop observed is of its run, as long as it is there.
Aimed(c) ==
  client[c].at = "kill" =>
    /\ client[c].target <= stopSession
    /\ host # NoRun /\ stopSession = client[c].target => host = client[c].run

\* A stop that is to complete its receipt has seen that its run is gone.
Seen(c) == client[c].at \in {"complete", "written"} => host # client[c].run

\* A completed receipt is of a run that was started and is gone.
Gone == \A r \in Runs : \A i \in Ids :
          receipts[r][i] = "completed" => r \in started /\ host # r

StopInv ==
  /\ Forms
  /\ \A c \in Clients : Held(c) /\ Aimed(c) /\ Seen(c)
  /\ Gone
  /\ Stop!StopsOnlyItsRun

LEMMA InitStops == Stop!StopReceiptAssumption /\ Stop!Init => StopInv
  BY DEF Stop!StopReceiptAssumption, Stop!Init, StopInv, Forms, Held, Aimed, Seen, Gone,
     Stop!StopsOnlyItsRun,
     Claims, Stop!Idle, Holding, Stop!Steps, Stop!Contents

-----------------------------------------------------------------------------
(* The server's steps and those that give up.                                *)

LEMMA ServerSteps ==
  ASSUME Stop!StopReceiptAssumption, StopInv,
         (\E r \in Runs : Stop!StartRun(r)) \/ Stop!SessionExits \/ Stop!OthersComeAndGo \/ UNCHANGED Stop!vars
  PROVE  StopInv'
<1>1. CASE \E r \in Runs : Stop!StartRun(r)
  <2> PICK r \in Runs : Stop!StartRun(r)
    BY <1>1
  <2>1. /\ host' = r /\ stopSession' = stopSession + 1 /\ started' = started \cup {r}
        /\ r \notin started /\ UNCHANGED <<receipts, lock, client, kills>>
    BY DEF Stop!StartRun
  <2>2. Forms'
    BY <2>1 DEF StopInv, Forms
  <2>3. ASSUME NEW c \in Clients PROVE Held(c)' /\ Aimed(c)' /\ Seen(c)'
    <3>1. client[c].target \in Nat /\ stopSession \in Nat
      BY DEF StopInv, Forms, Claims
    <3>2. Held(c) /\ Aimed(c) /\ Seen(c)
      BY DEF StopInv
    <3>3. Held(c)'
      BY <2>1, <3>2 DEF Held
    <3>4. Aimed(c)'
      BY <2>1, <3>1, <3>2 DEF Aimed
    <3>5. Seen(c)'
      BY <2>1, <3>2 DEF Seen, Held, Holding
    <3> QED
      BY <3>3, <3>4, <3>5
  <2>4. Gone' /\ Stop!StopsOnlyItsRun'
    BY <2>1 DEF StopInv, Gone, Stop!StopsOnlyItsRun
  <2> QED
    BY <2>2, <2>3, <2>4 DEF StopInv
<1>2. CASE Stop!SessionExits
  <2>1. host' = NoRun /\ UNCHANGED <<stopSession, started, receipts, lock, client, kills>>
    BY <1>2 DEF Stop!SessionExits
  <2>2. ASSUME NEW c \in Clients PROVE Held(c)' /\ Aimed(c)' /\ Seen(c)'
    <3>1. Held(c) /\ Aimed(c) /\ Seen(c)
      BY DEF StopInv
    <3> QED
      BY <2>1, <3>1 DEF Held, Aimed, Seen, Holding, Stop!StopReceiptAssumption
  <2>3. Gone'
    BY <2>1 DEF StopInv, Gone, Stop!StopReceiptAssumption
  <2> QED
    BY <2>1, <2>2, <2>3 DEF StopInv, Forms, Stop!StopsOnlyItsRun
<1>3. CASE Stop!OthersComeAndGo \/ UNCHANGED Stop!vars
  BY <1>3 DEF Stop!OthersComeAndGo, Stop!vars, StopInv, Forms, Held, Aimed, Seen, Gone,
     Stop!StopsOnlyItsRun
<1> QED
  BY <1>1, <1>2, <1>3

\* A stop that ends, in whatever way, takes nothing from the others.
LEMMA EndsAlone ==
  ASSUME Stop!StopReceiptAssumption, StopInv, NEW c \in Clients, Stop!Ends(c),
         UNCHANGED <<host, stopSession, started, receipts, kills>>
  PROVE  StopInv'
<1>1. /\ client' = [client EXCEPT ![c] = Stop!Idle]
      /\ \A r \in Runs : lock'[r] = IF lock[r] = c THEN NoRun ELSE lock[r]
      /\ lock' \in [Runs -> Clients \cup {NoRun}]
  BY DEF Stop!Ends, Stop!Released, StopInv, Forms
<1>2. Forms'
  BY <1>1 DEF StopInv, Forms, Claims, Stop!Idle, Stop!Steps
<1>3. ASSUME NEW d \in Clients PROVE Held(d)' /\ Aimed(d)' /\ Seen(d)'
  <2>1. CASE d = c
    BY <1>1, <2>1 DEF Held, Aimed, Seen, Stop!Idle, Holding, StopInv, Forms, Claims
  <2>2. CASE d # c
    <3>1. client'[d] = client[d] /\ Held(d) /\ Aimed(d) /\ Seen(d)
      BY <1>1, <2>2 DEF StopInv, Forms
    <3> QED
      BY <1>1, <2>2, <3>1 DEF Held, Aimed, Seen
  <2> QED
    BY <2>1, <2>2
<1> QED
  BY <1>2, <1>3 DEF StopInv, Gone, Stop!StopsOnlyItsRun

-----------------------------------------------------------------------------
(* The steps of a stop with a receipt.                                       *)

LEMMA ClaimStep ==
  ASSUME Stop!StopReceiptAssumption, StopInv, NEW c \in Clients, NEW r \in Runs, NEW i \in Ids,
         Stop!Claim(c, r, i)
  PROVE  StopInv'
<1>1. /\ lock[r] = NoRun /\ r \in started /\ lock' = [lock EXCEPT ![r] = c]
      /\ UNCHANGED <<host, stopSession, started, kills>>
  BY DEF Stop!Claim, Stop!ClaimKnown, Stop!ClaimNew, Stop!LockFree
<1>2. \/ /\ receipts[r][i] = "uncertain" /\ receipts' = receipts
         /\ client' = [client EXCEPT ![c] =
              [at |-> "observe", run |-> r, id |-> i, duplicate |-> TRUE, target |-> 0]]
      \/ /\ receipts[r][i] = "none" /\ receipts' = [receipts EXCEPT ![r][i] = "empty"]
         /\ client' = [client EXCEPT ![c] =
              [at |-> "create", run |-> r, id |-> i, duplicate |-> FALSE, target |-> 0]]
  BY DEF Stop!Claim, Stop!ClaimKnown, Stop!ClaimNew, Stop!TakenUp
<1>3. Forms'
  <2>1. lock' \in [Runs -> Clients \cup {NoRun}] /\ stopSession' \in Nat
    BY <1>1 DEF StopInv, Forms
  <2>2. receipts' \in [Runs -> [Ids -> Stop!Contents]]
    <3>1. receipts \in [Runs -> [Ids -> Stop!Contents]] /\ "empty" \in Stop!Contents
      BY DEF StopInv, Forms, Stop!Contents
    <3> QED
      BY <1>2, <3>1
  <2>3. client' \in [Clients -> Claims]
    <3>1. /\ [at |-> "observe", run |-> r, id |-> i, duplicate |-> TRUE, target |-> 0] \in Claims
          /\ [at |-> "create", run |-> r, id |-> i, duplicate |-> FALSE, target |-> 0] \in Claims
      BY DEF Claims, Stop!Steps
    <3> QED
      BY <1>2, <3>1 DEF StopInv, Forms
  <2> QED
    BY <2>1, <2>2, <2>3 DEF Forms
<1>4. ASSUME NEW d \in Clients PROVE Held(d)' /\ Aimed(d)' /\ Seen(d)'
  <2>1. CASE d = c
    BY <1>1, <1>2, <2>1 DEF StopInv, Forms, Held, Aimed, Seen, Holding
  <2>2. CASE d # c
    <3>1. client'[d] = client[d] /\ Held(d) /\ Aimed(d) /\ Seen(d)
      BY <1>2, <2>2 DEF StopInv, Forms
    <3>2. client[d].at \in Holding => client[d].run # r
      BY <1>1, <3>1 DEF Held, Stop!StopReceiptAssumption
    <3> QED
      BY <1>1, <1>2, <3>1, <3>2 DEF Held, Aimed, Seen, StopInv, Forms
  <2> QED
    BY <2>1, <2>2
<1>5. Gone'
  BY <1>1, <1>2 DEF StopInv, Gone, Forms
<1> QED
  BY <1>1, <1>3, <1>4, <1>5 DEF StopInv, Stop!StopsOnlyItsRun

\* A step of a stop that keeps its lock touches no other stop.
LEMMA OthersStay ==
  ASSUME Stop!StopReceiptAssumption, StopInv, NEW c \in Clients, client[c].at \in Holding,
         NEW d \in Clients \ {c}, client'[d] = client[d],
         UNCHANGED <<stopSession, started>>, host' \in {host, NoRun},
         \A r \in Runs \ {client[c].run} : lock'[r] = lock[r] /\ receipts'[r] = receipts[r]
  PROVE  Held(d)' /\ Aimed(d)' /\ Seen(d)'
<1>1. Held(c) /\ Held(d) /\ Aimed(d) /\ Seen(d)
  BY DEF StopInv
<1>2. client[d].at \in Holding => client[d].run # client[c].run
  BY <1>1 DEF Held
<1>3. Held(d)'
  BY <1>1, <1>2 DEF Held
<1>4. Aimed(d)'
  BY <1>1 DEF Aimed
<1>5. Seen(d)'
  BY <1>1 DEF Seen, Held, Holding, Stop!StopReceiptAssumption
<1> QED
  BY <1>3, <1>4, <1>5

LEMMA WriteClaimStep ==
  ASSUME Stop!StopReceiptAssumption, StopInv, NEW c \in Clients, Stop!WriteClaim(c)
  PROVE  StopInv'
<1> DEFINE r == client[c].run
           i == client[c].id
<1>1. /\ client[c].at = "create" /\ receipts' = [receipts EXCEPT ![r][i] = "uncertain"]
      /\ client' = [client EXCEPT ![c].at = "observe"]
      /\ UNCHANGED <<host, stopSession, started, lock, kills>>
  BY DEF Stop!WriteClaim, Stop!StaysLocked
<1>2. Held(c) /\ r \in Runs /\ i \in Ids /\ lock[r] = c /\ r \in started
  BY <1>1 DEF StopInv, Held, Holding
<1>3. Forms'
  BY <1>1, <1>2 DEF StopInv, Forms, Claims, Stop!Steps, Stop!Contents
<1>4. Held(c)' /\ Aimed(c)' /\ Seen(c)'
  BY <1>1, <1>2 DEF StopInv, Forms, Held, Aimed, Seen, Holding
<1>5. ASSUME NEW d \in Clients \ {c} PROVE Held(d)' /\ Aimed(d)' /\ Seen(d)'
  <2>1. client'[d] = client[d] /\ \A q \in Runs \ {r} : receipts'[q] = receipts[q]
    BY <1>1 DEF StopInv, Forms
  <2> QED
    BY <1>1, <2>1, OthersStay DEF Holding
<1>6. Gone'
  BY <1>1, <1>2 DEF StopInv, Gone, Forms
<1> QED
  BY <1>1, <1>3, <1>4, <1>5, <1>6 DEF StopInv, Stop!StopsOnlyItsRun

LEMMA ObserveStep ==
  ASSUME Stop!StopReceiptAssumption, StopInv, NEW c \in Clients, Stop!Observe(c)
  PROVE  StopInv'
<1>1. /\ client[c].at = "observe"
      /\ UNCHANGED <<host, stopSession, started, receipts, kills>>
  BY DEF Stop!Observe
<1>2. Held(c)
  BY DEF StopInv
<1>3. CASE host = client[c].run /\ lock' = lock
           /\ client' = [client EXCEPT ![c].at = "kill", ![c].target = stopSession]
  <2>1. Forms'
    BY <1>1, <1>3 DEF StopInv, Forms, Claims, Stop!Steps
  <2>2. Held(c)' /\ Aimed(c)' /\ Seen(c)'
    BY <1>1, <1>2, <1>3 DEF StopInv, Forms, Held, Aimed, Seen, Holding
  <2>3. ASSUME NEW d \in Clients \ {c} PROVE Held(d)' /\ Aimed(d)' /\ Seen(d)'
    BY <1>1, <1>3, OthersStay DEF Holding, StopInv, Forms
  <2> QED
    BY <1>1, <2>1, <2>2, <2>3 DEF StopInv, Gone, Stop!StopsOnlyItsRun
<1>4. CASE host = NoRun /\ lock' = lock /\ client' = [client EXCEPT ![c].at = "complete"]
  <2>1. Forms'
    BY <1>1, <1>4 DEF StopInv, Forms, Claims, Stop!Steps
  <2>2. Held(c)' /\ Aimed(c)' /\ Seen(c)'
    BY <1>1, <1>2, <1>4 DEF StopInv, Forms, Held, Aimed, Seen, Holding, Stop!StopReceiptAssumption
  <2>3. ASSUME NEW d \in Clients \ {c} PROVE Held(d)' /\ Aimed(d)' /\ Seen(d)'
    BY <1>1, <1>4, OthersStay DEF Holding, StopInv, Forms
  <2> QED
    BY <1>1, <2>1, <2>2, <2>3 DEF StopInv, Gone, Stop!StopsOnlyItsRun
<1>5. CASE Stop!Ends(c)
  BY <1>1, <1>5, EndsAlone
<1> QED
  BY <1>3, <1>4, <1>5 DEF Stop!Observe, Stop!AbsenceCompletes, Stop!StaysLocked

LEMMA KillStep ==
  ASSUME Stop!StopReceiptAssumption, StopInv, NEW c \in Clients, Stop!Kill(c)
  PROVE  StopInv'
<1>1. /\ client[c].at = "kill" /\ UNCHANGED <<stopSession, started, receipts>>
  BY DEF Stop!Kill
<1>2. CASE ~Stop!TargetAlive(c)
  BY <1>2, EndsAlone DEF Stop!Kill
<1>3. CASE Stop!TargetAlive(c)
  <2>1. /\ kills' = kills \cup {<<client[c].run, host>>} /\ host' = NoRun /\ lock' = lock
        /\ client' = [client EXCEPT ![c].at = "complete"]
    BY <1>3 DEF Stop!Kill, Stop!StaysLocked
  <2>2. Held(c) /\ host = client[c].run
    BY <1>1, <1>3 DEF StopInv, Aimed, Stop!TargetAlive
  <2>3. Forms'
    BY <1>1, <2>1 DEF StopInv, Forms, Claims, Stop!Steps
  <2>4. Held(c)' /\ Aimed(c)' /\ Seen(c)'
    BY <1>1, <2>1, <2>2 DEF StopInv, Forms, Held, Aimed, Seen, Holding, Stop!StopReceiptAssumption
  <2>5. ASSUME NEW d \in Clients \ {c} PROVE Held(d)' /\ Aimed(d)' /\ Seen(d)'
    BY <1>1, <2>1, OthersStay DEF Holding, StopInv, Forms
  <2>6. Gone'
    BY <1>1, <2>1 DEF StopInv, Gone, Stop!StopReceiptAssumption
  <2>7. Stop!StopsOnlyItsRun'
    BY <2>1, <2>2 DEF StopInv, Stop!StopsOnlyItsRun
  <2> QED
    BY <2>3, <2>4, <2>5, <2>6, <2>7 DEF StopInv
<1> QED
  BY <1>2, <1>3

LEMMA TruncateStep ==
  ASSUME Stop!StopReceiptAssumption, StopInv, NEW c \in Clients, Stop!TruncateReceipt(c)
  PROVE  StopInv'
<1> DEFINE r == client[c].run
           i == client[c].id
<1>1. /\ client[c].at = "complete" /\ receipts' = [receipts EXCEPT ![r][i] = "empty"]
      /\ client' = [client EXCEPT ![c].at = "written"]
      /\ UNCHANGED <<host, stopSession, started, lock, kills>>
  BY DEF Stop!TruncateReceipt, Stop!StaysLocked
<1>2. Held(c) /\ Seen(c) /\ r \in Runs /\ i \in Ids /\ lock[r] = c /\ r \in started
  BY <1>1 DEF StopInv, Held, Holding
<1>3. Forms'
  BY <1>1, <1>2 DEF StopInv, Forms, Claims, Stop!Steps, Stop!Contents
<1>4. Held(c)' /\ Aimed(c)' /\ Seen(c)'
  BY <1>1, <1>2 DEF StopInv, Forms, Held, Aimed, Seen, Holding
<1>5. ASSUME NEW d \in Clients \ {c} PROVE Held(d)' /\ Aimed(d)' /\ Seen(d)'
  <2>1. client'[d] = client[d] /\ \A q \in Runs \ {r} : receipts'[q] = receipts[q]
    BY <1>1 DEF StopInv, Forms
  <2> QED
    BY <1>1, <2>1, OthersStay DEF Holding
<1>6. Gone'
  BY <1>1, <1>2 DEF StopInv, Gone, Forms
<1> QED
  BY <1>1, <1>3, <1>4, <1>5, <1>6 DEF StopInv, Stop!StopsOnlyItsRun

LEMMA CompleteStep ==
  ASSUME Stop!StopReceiptAssumption, StopInv, NEW c \in Clients, Stop!Complete(c)
  PROVE  StopInv'
<1> DEFINE r == client[c].run
           i == client[c].id
<1>1. /\ client[c].at = "written" /\ receipts' = [receipts EXCEPT ![r][i] = "completed"]
      /\ client' = [client EXCEPT ![c].at = "finalize"]
      /\ lock' = [lock EXCEPT ![r] = NoRun]
      /\ UNCHANGED <<host, stopSession, started, kills>>
  BY DEF Stop!Complete
<1>2. Held(c) /\ Seen(c) /\ r \in Runs /\ i \in Ids /\ lock[r] = c /\ r \in started
  BY <1>1 DEF StopInv, Held, Holding
<1>3. Forms'
  BY <1>1, <1>2 DEF StopInv, Forms, Claims, Stop!Steps, Stop!Contents
<1>4. Held(c)' /\ Aimed(c)' /\ Seen(c)'
  BY <1>1, <1>2 DEF StopInv, Forms, Held, Aimed, Seen, Holding
<1>5. ASSUME NEW d \in Clients \ {c} PROVE Held(d)' /\ Aimed(d)' /\ Seen(d)'
  <2>1. /\ client'[d] = client[d]
        /\ \A q \in Runs \ {r} : receipts'[q] = receipts[q] /\ lock'[q] = lock[q]
    BY <1>1 DEF StopInv, Forms
  <2> QED
    BY <1>1, <2>1, OthersStay DEF Holding
<1>6. Gone'
  BY <1>1, <1>2 DEF StopInv, Gone, Forms, Seen
<1> QED
  BY <1>1, <1>3, <1>4, <1>5, <1>6 DEF StopInv, Stop!StopsOnlyItsRun

-----------------------------------------------------------------------------
(* A stop without a command id keeps no lock and writes no receipt.          *)

LEMMA PlainSteps ==
  ASSUME Stop!StopReceiptAssumption, StopInv, NEW c \in Clients,
         (\E r \in Runs : Stop!StopPlain(c, r)) \/ Stop!KillByName(c)
  PROVE  StopInv'
<1>1. /\ client[c].at \notin Holding /\ client'[c].at \notin Holding
      /\ \A d \in Clients \ {c} : client'[d] = client[d]
      /\ host' \in {host, NoRun}
      /\ UNCHANGED <<stopSession, started, receipts, lock, kills>>
  BY DEF Stop!StopPlain, Stop!KillByName, StopInv, Forms, Claims, Stop!Idle, Holding
<1>2. Forms'
  <2>1. \/ \E r \in Runs : client' = [client EXCEPT ![c].at = "byName", ![c].run = r]
        \/ client' = [client EXCEPT ![c].at = "finalize"]
        \/ client' = [client EXCEPT ![c] = Stop!Idle]
    BY DEF Stop!StopPlain, Stop!KillByName
  <2>2. client \in [Clients -> Claims] /\ Stop!Idle \in Claims
    BY DEF StopInv, Forms, Stop!Idle, Claims, Stop!Steps
  <2>3. /\ \A r \in Runs : [client[c] EXCEPT !.at = "byName", !.run = r] \in Claims
        /\ [client[c] EXCEPT !.at = "finalize"] \in Claims
    BY <2>2 DEF Claims, Stop!Steps
  <2>4. client' \in [Clients -> Claims]
    BY <2>1, <2>2, <2>3
  <2> QED
    BY <1>1, <2>4 DEF StopInv, Forms
<1>3. ASSUME NEW d \in Clients PROVE Held(d)' /\ Aimed(d)' /\ Seen(d)'
  <2>1. CASE d = c
    BY <1>1, <2>1 DEF Held, Aimed, Seen, Holding
  <2>2. CASE d # c
    <3>1. client'[d] = client[d] /\ Held(d) /\ Aimed(d) /\ Seen(d)
      BY <1>1, <2>2 DEF StopInv
    <3> QED
      BY <1>1, <3>1 DEF Held, Aimed, Seen, Holding, Stop!StopReceiptAssumption
  <2> QED
    BY <2>1, <2>2
<1>4. Gone'
  BY <1>1 DEF StopInv, Gone, Stop!StopReceiptAssumption
<1> QED
  BY <1>1, <1>2, <1>3, <1>4 DEF StopInv, Stop!StopsOnlyItsRun

LEMMA NextStops ==
  ASSUME Stop!StopReceiptAssumption, StopInv, [Stop!Next]_(Stop!vars)
  PROVE  StopInv'
<1>1. ASSUME NEW c \in Clients, Stop!Finalize(c) \/ Stop!ObserveFails(c) \/ Stop!Crash(c) PROVE StopInv'
  BY <1>1, EndsAlone DEF Stop!Finalize, Stop!ObserveFails, Stop!Unproven, Stop!Crash
<1> QED
  BY <1>1, ServerSteps, ClaimStep, WriteClaimStep, ObserveStep, KillStep, TruncateStep,
     CompleteStep, PlainSteps DEF Stop!Next, Stop!Continue

LEMMA StopsInvariant == Stop!StopReceiptAssumption => (Stop!Spec => []StopInv)
<1> SUFFICES ASSUME Stop!StopReceiptAssumption PROVE Stop!Spec => []StopInv
  OBVIOUS
<1>1. Stop!Init => StopInv
  BY InitStops
<1>2. StopInv /\ [Stop!Next]_(Stop!vars) => StopInv'
  BY NextStops
<1> QED
  BY <1>1, <1>2, PTL DEF Stop!Spec

-----------------------------------------------------------------------------
(* Types.  A lock is held by a stop that holds no other, and sessions are     *)
(* counted with the runs that were started.                                   *)

Locks == \A r \in Runs : lock[r] # NoRun =>
           client[lock[r]].at \in Holding /\ client[lock[r]].run = r

Counted ==
  /\ started \subseteq Runs /\ IsFiniteSet(started) /\ stopSession = Cardinality(started)
  /\ \A c \in Clients : client[c].target <= stopSession

Others ==
  /\ host \in Runs \cup {NoRun} /\ others \in BOOLEAN /\ finalized \subseteq Runs
  /\ kills \subseteq Runs \X Runs /\ crashes \in 0 .. MaxCrashes

\* A stop that has come past its receipt, or has none, is still of its run.
Parting ==
  \A c \in Clients : client[c].at \in {"byName", "finalize"} => client[c].run \in Runs

TypeInv == StopInv /\ Locks /\ Counted /\ Others /\ Parting

LEMMA InitTypes == Stop!StopReceiptAssumption /\ Stop!Init => TypeInv
<1> SUFFICES ASSUME Stop!StopReceiptAssumption, Stop!Init PROVE TypeInv
  OBVIOUS
<1>1. Locks /\ Others /\ Parting
  BY DEF Stop!StopReceiptAssumption, Stop!Init, Locks, Others, Parting, Stop!Idle
<1>2. Counted
  BY FS_EmptySet DEF Stop!Init, Counted, Stop!Idle
<1> QED
  BY <1>1, <1>2, InitStops DEF TypeInv

LEMMA StepLocks ==
  ASSUME Stop!StopReceiptAssumption, TypeInv, [Stop!Next]_(Stop!vars)
  PROVE  Locks'
<1> USE DEF TypeInv, StopInv, Forms, Locks, Holding, Stop!Idle, Stop!StopReceiptAssumption
<1>1. ASSUME NEW c \in Clients, NEW r \in Runs, NEW i \in Ids, Stop!Claim(c, r, i) PROVE Locks'
  <2>1. client[c].at \notin Holding /\ lock' = [lock EXCEPT ![r] = c]
    BY <1>1 DEF Stop!Claim, Stop!ClaimKnown, Stop!ClaimNew
  <2>2. client'[c].at \in Holding /\ client'[c].run = r
    BY <1>1 DEF Stop!Claim, Stop!ClaimKnown, Stop!ClaimNew
  <2>3. \A d \in Clients : d # c => client'[d] = client[d]
    BY <1>1 DEF Stop!Claim, Stop!ClaimKnown, Stop!ClaimNew
  <2> QED
    BY <2>1, <2>2, <2>3
<1>2. ASSUME NEW c \in Clients, NEW r \in Runs, Stop!StopPlain(c, r) PROVE Locks'
  BY <1>2 DEF Stop!StopPlain
<1>3. ASSUME NEW c \in Clients, Stop!Ends(c) PROVE Locks'
  BY <1>3 DEF Stop!Ends, Stop!Released
<1>4. ASSUME NEW c \in Clients, NEW step \in Holding, client[c].at \in Holding, Stop!StaysLocked(c, step)
      PROVE  Locks'
  BY <1>4 DEF Stop!StaysLocked, Claims
<1>5. ASSUME NEW c \in Clients, Stop!ObserveFails(c) \/ Stop!Finalize(c) \/ Stop!Crash(c) PROVE Locks'
  BY <1>3, <1>5 DEF Stop!ObserveFails, Stop!Unproven, Stop!Finalize, Stop!Crash
<1>6. ASSUME NEW c \in Clients, Stop!WriteClaim(c) \/ Stop!TruncateReceipt(c) \/ Stop!Kill(c) PROVE Locks'
  BY <1>3, <1>4, <1>6 DEF Stop!WriteClaim, Stop!TruncateReceipt, Stop!Kill
<1>7. ASSUME NEW c \in Clients, Stop!Observe(c) PROVE Locks'
  <2>1. CASE host = client[c].run /\ UNCHANGED lock
             /\ client' = [client EXCEPT ![c].at = "kill", ![c].target = stopSession]
    BY <1>7, <2>1 DEF Stop!Observe, Claims
  <2>2. CASE Stop!StaysLocked(c, "complete")
    BY <1>4, <1>7, <2>2 DEF Stop!Observe
  <2>3. CASE Stop!Ends(c)
    BY <1>3, <2>3
  <2> QED
    BY <1>7, <2>1, <2>2, <2>3 DEF Stop!Observe
<1>8. ASSUME NEW c \in Clients, Stop!Complete(c) PROVE Locks'
  BY <1>8 DEF Stop!Complete, Claims
<1>9. ASSUME NEW c \in Clients, Stop!KillByName(c) PROVE Locks'
  BY <1>9 DEF Stop!KillByName, Claims
<1>10. ASSUME (\E r \in Runs : Stop!StartRun(r)) \/ Stop!SessionExits \/ Stop!OthersComeAndGo \/ UNCHANGED Stop!vars
       PROVE  Locks'
  BY <1>10 DEF Stop!StartRun, Stop!SessionExits, Stop!OthersComeAndGo, Stop!vars
<1> QED
  BY <1>1, <1>2, <1>5, <1>6, <1>7, <1>8, <1>9, <1>10 DEF Stop!Next, Stop!Continue

LEMMA StepCounts ==
  ASSUME Stop!StopReceiptAssumption, TypeInv, [Stop!Next]_(Stop!vars)
  PROVE  Counted'
<1> USE DEF TypeInv, StopInv, Forms, Counted
<1>1. ASSUME NEW r \in Runs, Stop!StartRun(r) PROVE Counted'
  <2>1. r \notin started /\ started' = started \cup {r} /\ stopSession' = stopSession + 1 /\ client' = client
    BY <1>1 DEF Stop!StartRun
  <2>2. IsFiniteSet(started') /\ Cardinality(started') = Cardinality(started) + 1
    BY <2>1, FS_AddElement
  <2>3. \A c \in Clients : client[c].target \in Nat
    BY DEF Claims
  <2> QED
    BY <2>1, <2>2, <2>3
<1>2. ASSUME UNCHANGED <<started, stopSession>>,
             \A c \in Clients : client'[c].target \in {0, client[c].target, stopSession}
      PROVE  Counted'
  BY <1>2
<1>3. ASSUME NEW c \in Clients, NEW r \in Runs,
             Stop!StopPlain(c, r) \/ \E i \in Ids : Stop!Claim(c, r, i)
      PROVE  Counted'
  BY <1>2, <1>3 DEF Stop!StopPlain, Stop!Claim, Stop!ClaimKnown, Stop!ClaimNew, Claims
<1>4. ASSUME NEW c \in Clients, Stop!Continue(c) \/ Stop!ObserveFails(c) \/ Stop!Crash(c) PROVE Counted'
  BY <1>2, <1>4 DEF Stop!Continue, Stop!WriteClaim, Stop!Observe, Stop!Kill, Stop!TruncateReceipt,
     Stop!Complete, Stop!Finalize, Stop!KillByName,
     Stop!ObserveFails, Stop!Unproven, Stop!Crash, Stop!Ends, Stop!StaysLocked, Stop!Idle, Claims
<1>5. ASSUME Stop!SessionExits \/ Stop!OthersComeAndGo \/ UNCHANGED Stop!vars PROVE Counted'
  BY <1>2, <1>5 DEF Stop!SessionExits, Stop!OthersComeAndGo, Stop!vars
<1> QED
  BY <1>1, <1>3, <1>4, <1>5 DEF Stop!Next

LEMMA StepOthers ==
  ASSUME Stop!StopReceiptAssumption, TypeInv, [Stop!Next]_(Stop!vars)
  PROVE  Others'
<1> USE DEF Others
<1>0. Others
  BY DEF TypeInv
<1>1. ASSUME NEW c \in Clients, NEW r \in Runs, Stop!StopPlain(c, r) \/ \E i \in Ids : Stop!Claim(c, r, i)
      PROVE  Others'
  BY <1>0, <1>1 DEF Stop!StopPlain, Stop!Claim
<1>2. ASSUME NEW c \in Clients, \/ Stop!WriteClaim(c) \/ Stop!Observe(c) \/ Stop!TruncateReceipt(c)
                                \/ Stop!Complete(c) \/ Stop!KillByName(c) \/ Stop!ObserveFails(c)
      PROVE  Others'
  BY <1>0, <1>2 DEF Stop!WriteClaim, Stop!Observe, Stop!TruncateReceipt, Stop!Complete,
     Stop!KillByName, Stop!ObserveFails
<1>3. ASSUME NEW c \in Clients, Stop!Kill(c) PROVE Others'
  <2>1. client[c].run \in Runs
    BY <1>3 DEF Stop!Kill, TypeInv, StopInv, Held, Holding
  <2> QED
    BY <1>0, <1>3, <2>1 DEF Stop!Kill, Stop!TargetAlive
<1>4. ASSUME NEW c \in Clients, Stop!Finalize(c) PROVE Others'
  BY <1>0, <1>4 DEF Stop!Finalize, TypeInv, Parting
<1>5. ASSUME NEW c \in Clients, Stop!Crash(c) PROVE Others'
  BY <1>0, <1>5 DEF Stop!Crash, Stop!StopReceiptAssumption
<1>6. ASSUME (\E r \in Runs : Stop!StartRun(r)) \/ Stop!SessionExits \/ Stop!OthersComeAndGo \/ UNCHANGED Stop!vars
      PROVE  Others'
  BY <1>0, <1>6 DEF Stop!StartRun, Stop!SessionExits, Stop!OthersComeAndGo, Stop!vars
<1> QED
  BY <1>1, <1>2, <1>3, <1>4, <1>5, <1>6 DEF Stop!Next, Stop!Continue

LEMMA StepParting ==
  ASSUME Stop!StopReceiptAssumption, TypeInv, [Stop!Next]_(Stop!vars)
  PROVE  Parting'
<1> USE DEF Parting
<1>0. Parting /\ client \in [Clients -> Claims]
  BY DEF TypeInv, StopInv, Forms
<1>1. ASSUME NEW c \in Clients, \A d \in Clients : d # c => client'[d] = client[d],
             client'[c].at \in {"byName", "finalize"} => client'[c].run \in Runs
      PROVE  Parting'
  BY <1>0, <1>1
<1>2. ASSUME NEW c \in Clients, Stop!Ends(c) PROVE Parting'
  BY <1>0, <1>1, <1>2 DEF Stop!Ends, Stop!Idle
<1>3. ASSUME NEW c \in Clients, NEW step \in Holding, Stop!StaysLocked(c, step) PROVE Parting'
  BY <1>0, <1>1, <1>3 DEF Stop!StaysLocked, Holding, Claims
<1>4. ASSUME NEW c \in Clients, NEW r \in Runs, Stop!StopPlain(c, r) PROVE Parting'
  BY <1>0, <1>1, <1>4 DEF Stop!StopPlain, Claims
<1>5. ASSUME NEW c \in Clients, NEW r \in Runs, NEW i \in Ids, Stop!Claim(c, r, i) PROVE Parting'
  BY <1>0, <1>1, <1>5 DEF Stop!Claim, Stop!ClaimKnown, Stop!ClaimNew
<1>6. ASSUME NEW c \in Clients, Stop!WriteClaim(c) \/ Stop!TruncateReceipt(c) \/ Stop!Kill(c) PROVE Parting'
  BY <1>2, <1>3, <1>6 DEF Stop!WriteClaim, Stop!TruncateReceipt, Stop!Kill, Holding
<1>7. ASSUME NEW c \in Clients, Stop!Observe(c) PROVE Parting'
  <2>1. CASE client' = [client EXCEPT ![c].at = "kill", ![c].target = stopSession]
    BY <1>0, <1>1, <2>1 DEF Claims
  <2> QED
    BY <1>2, <1>3, <1>7, <2>1 DEF Stop!Observe, Holding
<1>8. ASSUME NEW c \in Clients, Stop!Complete(c) PROVE Parting'
  <2>1. client[c].run \in Runs
    BY <1>8 DEF Stop!Complete, TypeInv, StopInv, Held, Holding
  <2> QED
    BY <1>0, <1>1, <1>8, <2>1 DEF Stop!Complete, Claims
<1>9. ASSUME NEW c \in Clients, Stop!KillByName(c) PROVE Parting'
  BY <1>0, <1>1, <1>9 DEF Stop!KillByName, Stop!Idle, Claims
<1>10. ASSUME NEW c \in Clients, Stop!ObserveFails(c) \/ Stop!Finalize(c) \/ Stop!Crash(c) PROVE Parting'
  BY <1>2, <1>10 DEF Stop!ObserveFails, Stop!Unproven, Stop!Finalize, Stop!Crash
<1>11. ASSUME (\E r \in Runs : Stop!StartRun(r)) \/ Stop!SessionExits \/ Stop!OthersComeAndGo \/ UNCHANGED Stop!vars
       PROVE  Parting'
  BY <1>0, <1>11 DEF Stop!StartRun, Stop!SessionExits, Stop!OthersComeAndGo, Stop!vars
<1> QED
  BY <1>4, <1>5, <1>6, <1>7, <1>8, <1>9, <1>10, <1>11 DEF Stop!Next, Stop!Continue

LEMMA NextTypes ==
  ASSUME Stop!StopReceiptAssumption, TypeInv, [Stop!Next]_(Stop!vars)
  PROVE  TypeInv'
<1>1. StopInv'
  BY NextStops DEF TypeInv
<1>2. Locks' /\ Counted'
  BY StepLocks, StepCounts
<1>3. Others' /\ Parting'
  BY StepOthers, StepParting
<1> QED
  BY <1>1, <1>2, <1>3 DEF TypeInv

\* The sizes of the instance are the sizes.
LEMMA StopCounts == \A S : Stop!Cardinality(S) = Cardinality(S)
  BY DEF Stop!Cardinality, Cardinality

\* Every run has one session at most, so the tmux ids do not exceed the runs.
LEMMA TypesFollow ==
  ASSUME Stop!StopReceiptAssumption, TypeInv, IsFiniteSet(Runs)
  PROVE  Stop!TypeOK
<1>1. stopSession \in Nat /\ stopSession <= Cardinality(Runs) /\ Cardinality(Runs) \in Nat
  BY FS_Subset, FS_CardinalityType DEF TypeInv, Counted, StopInv, Forms
<1>2. client \in [Clients -> [at : Stop!Steps, run : Runs \cup {NoRun}, id : Ids \cup {NoRun},
                              duplicate : BOOLEAN, target : 0 .. Cardinality(Runs)]]
  <2>1. client \in [Clients -> Claims] /\ \A c \in Clients : client[c].target <= stopSession
    BY DEF TypeInv, StopInv, Forms, Counted
  <2>2. \A c \in Clients : client[c].target \in 0 .. Cardinality(Runs)
    BY <1>1, <2>1 DEF Claims
  <2> QED
    BY <2>1, <2>2 DEF Claims
<1>3. /\ started \subseteq Runs
      /\ receipts \in [Runs -> [Ids -> Stop!Contents]] /\ lock \in [Runs -> Clients \cup {NoRun}]
      /\ \A r \in Runs : lock[r] # NoRun => client[lock[r]].run = r
  BY DEF TypeInv, StopInv, Forms, Counted, Locks
<1> QED
  BY <1>1, <1>2, <1>3, StopCounts DEF Stop!TypeOK, TypeInv, Others

-----------------------------------------------------------------------------
(* What follows.                                                             *)

LEMMA StopsFollow == StopInv => Stop!StopsOnlyItsRun /\ Stop!CompletedIsGone /\ Stop!OneStopAtATime
<1>1. StopInv => Stop!StopsOnlyItsRun
  BY DEF StopInv
<1>2. StopInv => Stop!CompletedIsGone
  BY DEF StopInv, Gone, Stop!CompletedIsGone
<1>3. StopInv => Stop!OneStopAtATime
  BY DEF StopInv, Held, Holding, Stop!OneStopAtATime
<1> QED
  BY <1>1, <1>2, <1>3

\* What a step may not do to the receipts.
Final ==
  \A r \in Runs : \A i \in Ids : receipts[r][i] = "completed" => receipts'[r][i] = "completed"

LEMMA CompletedStep ==
  ASSUME StopInv, [Stop!Next]_(Stop!vars)
  PROVE  Final
<1> USE DEF Final
<1>1. ASSUME NEW c \in Clients, NEW r \in Runs, NEW i \in Ids, Stop!Claim(c, r, i) PROVE Final
  BY <1>1 DEF Stop!Claim, Stop!ClaimKnown, Stop!ClaimNew, StopInv, Forms
<1>2. ASSUME NEW c \in Clients, Stop!WriteClaim(c) \/ Stop!TruncateReceipt(c) PROVE Final
  <2>1. Held(c) /\ client[c].at \in {"create", "complete"}
    BY <1>2 DEF StopInv, Stop!WriteClaim, Stop!TruncateReceipt
  <2>2. receipts[client[c].run][client[c].id] # "completed"
    BY <2>1 DEF Held, Holding
  <2>3. receipts \in [Runs -> [Ids -> Stop!Contents]]
    BY DEF StopInv, Forms
  <2>4. \E v : receipts' = [receipts EXCEPT ![client[c].run][client[c].id] = v]
    BY <1>2 DEF Stop!WriteClaim, Stop!TruncateReceipt
  <2> QED
    BY <2>2, <2>3, <2>4
<1>3. ASSUME NEW c \in Clients, Stop!Complete(c) PROVE Final
  BY <1>3 DEF Stop!Complete, StopInv, Forms
<1>4. CASE UNCHANGED receipts
  BY <1>4
<1>5. ASSUME NEW c \in Clients,
             \/ \E r \in Runs : Stop!StopPlain(c, r)
             \/ Stop!Observe(c) \/ Stop!Kill(c) \/ Stop!Finalize(c) \/ Stop!KillByName(c) \/ Stop!ObserveFails(c) \/ Stop!Crash(c)
      PROVE  UNCHANGED receipts
  BY <1>5 DEF Stop!StopPlain, Stop!Observe, Stop!Kill, Stop!Finalize, Stop!KillByName,
     Stop!ObserveFails, Stop!Crash
<1>6. ASSUME (\E r \in Runs : Stop!StartRun(r)) \/ Stop!SessionExits \/ Stop!OthersComeAndGo \/ UNCHANGED Stop!vars
      PROVE  UNCHANGED receipts
  BY <1>6 DEF Stop!StartRun, Stop!SessionExits, Stop!OthersComeAndGo, Stop!vars
<1> QED
  BY <1>1, <1>2, <1>3, <1>4, <1>5, <1>6 DEF Stop!Next, Stop!Continue

LEMMA TypeInvariant == Stop!StopReceiptAssumption => (Stop!Spec => []TypeInv)
<1> SUFFICES ASSUME Stop!StopReceiptAssumption PROVE Stop!Spec => []TypeInv
  OBVIOUS
<1>1. Stop!Init => TypeInv
  BY InitTypes
<1>2. TypeInv /\ [Stop!Next]_(Stop!vars) => TypeInv'
  BY NextTypes
<1> QED
  BY <1>1, <1>2, PTL DEF Stop!Spec

\* The state keeps its types, and a lock is held by a stop of its run.
THEOREM StopTypes == Stop!StopReceiptAssumption /\ IsFiniteSet(Runs) => (Stop!Spec => []Stop!TypeOK)
<1> SUFFICES ASSUME Stop!StopReceiptAssumption, IsFiniteSet(Runs) PROVE Stop!Spec => []Stop!TypeOK
  OBVIOUS
<1>1. TypeInv => Stop!TypeOK
  BY TypesFollow
<1> QED
  BY <1>1, TypeInvariant, PTL

\* A stop with a receipt kills only the run its receipt belongs to, whoever took
\* the session's name between its observation and its kill.
THEOREM StopsAreAimed == Stop!StopReceiptAssumption => (Stop!Spec => []Stop!StopsOnlyItsRun)
  BY StopsFollow, StopsInvariant, PTL

\* A completed receipt tells the truth for good: its run is hosted no more.
THEOREM CompletedAreGone == Stop!StopReceiptAssumption => (Stop!Spec => []Stop!CompletedIsGone)
  BY StopsFollow, StopsInvariant, PTL

\* Between claim and completion a run has a single working stop.
THEOREM OneAtATime == Stop!StopReceiptAssumption => (Stop!Spec => []Stop!OneStopAtATime)
  BY StopsFollow, StopsInvariant, PTL

\* No later stop, retry or death of a process takes a completed receipt back.
THEOREM CompletedStay == Stop!StopReceiptAssumption => (Stop!Spec => Stop!CompletedIsFinal)
<1>1. StopInv /\ [Stop!Next]_(Stop!vars) => [Final]_(Stop!vars)
  BY CompletedStep
<1>2. Stop!CompletedIsFinal <=> [][Final]_(Stop!vars)
  BY PTL DEF Stop!CompletedIsFinal, Final
<1> QED
  BY <1>1, <1>2, StopsInvariant, PTL DEF Stop!Spec
================================================================================
