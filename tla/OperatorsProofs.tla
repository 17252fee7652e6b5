---------------------------- MODULE OperatorsProofs ----------------------------
(* The properties of Operators, from the theorems about its components.  An     *)
(* instance of a component's proofs has the same operators as the instance in   *)
(* Operators, which one lemma for each says; what is proved of it in one step   *)
(* is then proved of every step of Operators, where the subject moves or none.  *)
EXTENDS Operators, FiniteSetTheorems, TLAPS

PlainP == INSTANCE OperatorPartsProofs WITH
    Starts <- {a, b}, Roles <- {impl}, Monitor <- monitor, None <- none,
    Custom <- FALSE, MaxDeaths <- 0, MaxStops <- 1, MaxFailures <- 1,
    failures <- startFailures,
    Clients <- {c1, c2}, Runs <- {r1, r2}, Ids <- {i1, i2}, NoRun <- none,
    MaxReceipts <- 2, MaxCrashes <- 1

CrowdedP == INSTANCE OperatorPartsProofs WITH
    Starts <- {a, b, c}, Roles <- {impl}, Monitor <- monitor, None <- none,
    Custom <- FALSE, MaxDeaths <- 0, MaxStops <- 1, MaxFailures <- 0,
    failures <- startFailures,
    Clients <- {c1, c2}, Runs <- {r1, r2}, Ids <- {i1, i2}, NoRun <- none,
    MaxReceipts <- 2, MaxCrashes <- 1

WatchedP == INSTANCE OperatorPartsProofs WITH
    Starts <- {a, b}, Roles <- {impl, rev}, Monitor <- monitor, None <- none,
    Custom <- TRUE, MaxDeaths <- 1, MaxStops <- 0, MaxFailures <- 0,
    failures <- startFailures,
    Clients <- {c1, c2}, Runs <- {r1, r2}, Ids <- {i1, i2}, NoRun <- none,
    MaxReceipts <- 2, MaxCrashes <- 1

-----------------------------------------------------------------------------
(* The components and their proofs.                                             *)

LEMMA SameCount == \A S : Stop!Cardinality(S) = PlainP!Stop!Cardinality(S)
  BY DEF Stop!Cardinality, PlainP!Stop!Cardinality

LEMMA StopIsProved ==
  /\ Stop!StopReceiptAssumption <=> PlainP!Stop!StopReceiptAssumption
  /\ Stop!Init <=> PlainP!Stop!Init
  /\ Stop!Next <=> PlainP!Stop!Next
  /\ Stop!vars = PlainP!Stop!vars
  /\ Stop!TypeOK <=> PlainP!Stop!TypeOK
<1>1. Stop!StopReceiptAssumption <=> PlainP!Stop!StopReceiptAssumption
  BY DEF Stop!StopReceiptAssumption, PlainP!Stop!StopReceiptAssumption
<1>2. Stop!Init <=> PlainP!Stop!Init
  BY DEF Stop!Init, PlainP!Stop!Init, Stop!Idle, PlainP!Stop!Idle
<1>3. ASSUME NEW p, NEW r, NEW i PROVE Stop!Claim(p, r, i) <=> PlainP!Stop!Claim(p, r, i)
  <2>1. Stop!Retained(r) = PlainP!Stop!Retained(r)
    BY DEF Stop!Retained, PlainP!Stop!Retained
  <2>2. Stop!ClaimNew(p, r, i) <=> PlainP!Stop!ClaimNew(p, r, i)
    BY <2>1, SameCount DEF Stop!ClaimNew, PlainP!Stop!ClaimNew
  <2> QED
    BY <2>2 DEF Stop!Claim, PlainP!Stop!Claim, Stop!ClaimKnown, PlainP!Stop!ClaimKnown,
       Stop!TakenUp, PlainP!Stop!TakenUp,
       Stop!LockFree, PlainP!Stop!LockFree, Stop!Idle, PlainP!Stop!Idle
<1>4. ASSUME NEW p PROVE /\ Stop!Continue(p) <=> PlainP!Stop!Continue(p)
                         /\ Stop!ObserveFails(p) <=> PlainP!Stop!ObserveFails(p)
                         /\ Stop!Crash(p) <=> PlainP!Stop!Crash(p)
                         /\ \A r : Stop!StopPlain(p, r) <=> PlainP!Stop!StopPlain(p, r)
  BY DEF Stop!Idle, PlainP!Stop!Idle, Stop!Released, PlainP!Stop!Released, Stop!Ends,
     PlainP!Stop!Ends,
     Stop!StaysLocked, PlainP!Stop!StaysLocked, Stop!ServerAnswers, PlainP!Stop!ServerAnswers,
     Stop!AbsenceCompletes, PlainP!Stop!AbsenceCompletes, Stop!Unproven, PlainP!Stop!Unproven,
     Stop!TargetAlive, PlainP!Stop!TargetAlive, Stop!Continue, PlainP!Stop!Continue,
     Stop!WriteClaim, PlainP!Stop!WriteClaim, Stop!Observe, PlainP!Stop!Observe, Stop!Kill,
     PlainP!Stop!Kill,
     Stop!TruncateReceipt, PlainP!Stop!TruncateReceipt, Stop!Complete, PlainP!Stop!Complete,
     Stop!Finalize, PlainP!Stop!Finalize, Stop!KillByName, PlainP!Stop!KillByName,
     Stop!ObserveFails, PlainP!Stop!ObserveFails, Stop!Crash, PlainP!Stop!Crash, Stop!StopPlain,
     PlainP!Stop!StopPlain
<1>5. Stop!Next <=> PlainP!Stop!Next
  BY <1>3, <1>4 DEF Stop!Next, PlainP!Stop!Next, Stop!StartRun, PlainP!Stop!StartRun,
     Stop!SessionExits,
     PlainP!Stop!SessionExits, Stop!OthersComeAndGo, PlainP!Stop!OthersComeAndGo
<1>6. Stop!vars = PlainP!Stop!vars
  BY DEF Stop!vars, PlainP!Stop!vars
<1>7. Stop!TypeOK <=> PlainP!Stop!TypeOK
  BY SameCount DEF Stop!TypeOK, PlainP!Stop!TypeOK, Stop!Contents, PlainP!Stop!Contents,
     Stop!Steps, PlainP!Stop!Steps
<1> QED
  BY <1>1, <1>2, <1>5, <1>6, <1>7

LEMMA PlainIsProved ==
  /\ Plain!StartupAssumption <=> PlainP!StartupAssumption
  /\ Plain!Init <=> PlainP!Init
  /\ Plain!Next <=> PlainP!Next
  /\ Plain!vars = PlainP!vars
<1>1. Plain!StartupAssumption <=> PlainP!StartupAssumption
  BY DEF Plain!StartupAssumption, PlainP!StartupAssumption
<1>2. Plain!Init <=> PlainP!Init
  BY DEF Plain!Init, PlainP!Init, Plain!Panes, PlainP!Panes
<1>3. Plain!Next <=> PlainP!Next
  BY DEF Plain!Panes, PlainP!Panes, Plain!vars, PlainP!vars, Plain!tmuxVars, PlainP!tmuxVars,
     Plain!watchVars, PlainP!watchVars, Plain!ownVars, PlainP!ownVars, Plain!startVars,
     PlainP!startVars, Plain!brokerVars, PlainP!brokerVars, Plain!bounds, PlainP!bounds,
     Plain!Ended, PlainP!Ended, Plain!HangUp, PlainP!HangUp, Plain!KillByName,
     PlainP!KillByName, Plain!HasPane, PlainP!HasPane, Plain!Alive, PlainP!Alive, Plain!Goes,
     PlainP!Goes, Plain!Fails, PlainP!Fails, Plain!Check, PlainP!Check, Plain!HostedRun,
     PlainP!HostedRun, Plain!Collide, PlainP!Collide, Plain!Prepare, PlainP!Prepare,
     Plain!LocalFailure, PlainP!LocalFailure, Plain!NewSession, PlainP!NewSession, Plain!Split,
     PlainP!Split, Plain!List, PlainP!List, Plain!Title, PlainP!Title, Plain!Mark, PlainP!Mark,
     Plain!Save, PlainP!Save, Plain!Launch, PlainP!Launch, Plain!Finish, PlainP!Finish,
     Plain!WatchPane, PlainP!WatchPane, Plain!AllSeen, PlainP!AllSeen, Plain!NewRound,
     PlainP!NewRound, Plain!WatchNotReady, PlainP!WatchNotReady, Plain!WatchWorkflow,
     PlainP!WatchWorkflow, Plain!AllLinked, PlainP!AllLinked, Plain!Whole, PlainP!Whole,
     Plain!Steady, PlainP!Steady, Plain!WatchRoles, PlainP!WatchRoles, Plain!WatchTimeout,
     PlainP!WatchTimeout, Plain!KillGrid, PlainP!KillGrid, Plain!RollbackKill,
     PlainP!RollbackKill, Plain!Rollback, PlainP!Rollback, Plain!Late, PlainP!Late,
     Plain!WaitGone, PlainP!WaitGone, Plain!MarkFailed, PlainP!MarkFailed, Plain!Killed,
     PlainP!Killed, Plain!BrokerOpens, PlainP!BrokerOpens, Plain!WorkerConnects,
     PlainP!WorkerConnects, Plain!WorkflowStarts, PlainP!WorkflowStarts, Plain!WorkerLost,
     PlainP!WorkerLost, Plain!ProcessExits, PlainP!ProcessExits, Plain!BrokerCloses,
     PlainP!BrokerCloses, Plain!OperatorStop, PlainP!OperatorStop, Plain!StartStep,
     PlainP!StartStep, Plain!Environment, PlainP!Environment, Plain!Next, PlainP!Next
<1>4. Plain!vars = PlainP!vars
  BY DEF Plain!vars, PlainP!vars
<1> QED
  BY <1>1, <1>2, <1>3, <1>4

LEMMA CrowdedIsProved ==
  /\ Crowded!StartupAssumption <=> CrowdedP!StartupAssumption
  /\ Crowded!Init <=> CrowdedP!Init
  /\ Crowded!Next <=> CrowdedP!Next
  /\ Crowded!vars = CrowdedP!vars
<1>1. Crowded!StartupAssumption <=> CrowdedP!StartupAssumption
  BY DEF Crowded!StartupAssumption, CrowdedP!StartupAssumption
<1>2. Crowded!Init <=> CrowdedP!Init
  BY DEF Crowded!Init, CrowdedP!Init, Crowded!Panes, CrowdedP!Panes
<1>3. Crowded!Next <=> CrowdedP!Next
  BY DEF Crowded!Panes, CrowdedP!Panes, Crowded!vars, CrowdedP!vars, Crowded!tmuxVars,
     CrowdedP!tmuxVars, Crowded!watchVars, CrowdedP!watchVars, Crowded!ownVars,
     CrowdedP!ownVars, Crowded!startVars, CrowdedP!startVars, Crowded!brokerVars,
     CrowdedP!brokerVars, Crowded!bounds, CrowdedP!bounds, Crowded!Ended, CrowdedP!Ended,
     Crowded!HangUp, CrowdedP!HangUp, Crowded!KillByName, CrowdedP!KillByName, Crowded!HasPane,
     CrowdedP!HasPane, Crowded!Alive, CrowdedP!Alive, Crowded!Goes, CrowdedP!Goes,
     Crowded!Fails, CrowdedP!Fails, Crowded!Check, CrowdedP!Check, Crowded!HostedRun,
     CrowdedP!HostedRun, Crowded!Collide, CrowdedP!Collide, Crowded!Prepare, CrowdedP!Prepare,
     Crowded!LocalFailure, CrowdedP!LocalFailure, Crowded!NewSession, CrowdedP!NewSession,
     Crowded!Split, CrowdedP!Split, Crowded!List, CrowdedP!List, Crowded!Title, CrowdedP!Title,
     Crowded!Mark, CrowdedP!Mark, Crowded!Save, CrowdedP!Save, Crowded!Launch, CrowdedP!Launch,
     Crowded!Finish, CrowdedP!Finish, Crowded!WatchPane, CrowdedP!WatchPane, Crowded!AllSeen,
     CrowdedP!AllSeen, Crowded!NewRound, CrowdedP!NewRound, Crowded!WatchNotReady,
     CrowdedP!WatchNotReady, Crowded!WatchWorkflow, CrowdedP!WatchWorkflow, Crowded!AllLinked,
     CrowdedP!AllLinked, Crowded!Whole, CrowdedP!Whole, Crowded!Steady, CrowdedP!Steady,
     Crowded!WatchRoles, CrowdedP!WatchRoles, Crowded!WatchTimeout, CrowdedP!WatchTimeout,
     Crowded!KillGrid, CrowdedP!KillGrid, Crowded!RollbackKill, CrowdedP!RollbackKill,
     Crowded!Rollback, CrowdedP!Rollback, Crowded!Late, CrowdedP!Late, Crowded!WaitGone,
     CrowdedP!WaitGone, Crowded!MarkFailed, CrowdedP!MarkFailed, Crowded!Killed,
     CrowdedP!Killed, Crowded!BrokerOpens, CrowdedP!BrokerOpens, Crowded!WorkerConnects,
     CrowdedP!WorkerConnects, Crowded!WorkflowStarts, CrowdedP!WorkflowStarts,
     Crowded!WorkerLost, CrowdedP!WorkerLost, Crowded!ProcessExits, CrowdedP!ProcessExits,
     Crowded!BrokerCloses, CrowdedP!BrokerCloses, Crowded!OperatorStop, CrowdedP!OperatorStop,
     Crowded!StartStep, CrowdedP!StartStep, Crowded!Environment, CrowdedP!Environment,
     Crowded!Next, CrowdedP!Next
<1>4. Crowded!vars = CrowdedP!vars
  BY DEF Crowded!vars, CrowdedP!vars
<1> QED
  BY <1>1, <1>2, <1>3, <1>4

LEMMA WatchedIsProved ==
  /\ Watched!StartupAssumption <=> WatchedP!StartupAssumption
  /\ Watched!Init <=> WatchedP!Init
  /\ Watched!Next <=> WatchedP!Next
  /\ Watched!vars = WatchedP!vars
<1>1. Watched!StartupAssumption <=> WatchedP!StartupAssumption
  BY DEF Watched!StartupAssumption, WatchedP!StartupAssumption
<1>2. Watched!Init <=> WatchedP!Init
  BY DEF Watched!Init, WatchedP!Init, Watched!Panes, WatchedP!Panes
<1>3. Watched!Next <=> WatchedP!Next
  BY DEF Watched!Panes, WatchedP!Panes, Watched!vars, WatchedP!vars, Watched!tmuxVars,
     WatchedP!tmuxVars, Watched!watchVars, WatchedP!watchVars, Watched!ownVars,
     WatchedP!ownVars, Watched!startVars, WatchedP!startVars, Watched!brokerVars,
     WatchedP!brokerVars, Watched!bounds, WatchedP!bounds, Watched!Ended, WatchedP!Ended,
     Watched!HangUp, WatchedP!HangUp, Watched!KillByName, WatchedP!KillByName, Watched!HasPane,
     WatchedP!HasPane, Watched!Alive, WatchedP!Alive, Watched!Goes, WatchedP!Goes,
     Watched!Fails, WatchedP!Fails, Watched!Check, WatchedP!Check, Watched!HostedRun,
     WatchedP!HostedRun, Watched!Collide, WatchedP!Collide, Watched!Prepare, WatchedP!Prepare,
     Watched!LocalFailure, WatchedP!LocalFailure, Watched!NewSession, WatchedP!NewSession,
     Watched!Split, WatchedP!Split, Watched!List, WatchedP!List, Watched!Title, WatchedP!Title,
     Watched!Mark, WatchedP!Mark, Watched!Save, WatchedP!Save, Watched!Launch, WatchedP!Launch,
     Watched!Finish, WatchedP!Finish, Watched!WatchPane, WatchedP!WatchPane, Watched!AllSeen,
     WatchedP!AllSeen, Watched!NewRound, WatchedP!NewRound, Watched!WatchNotReady,
     WatchedP!WatchNotReady, Watched!WatchWorkflow, WatchedP!WatchWorkflow, Watched!AllLinked,
     WatchedP!AllLinked, Watched!Whole, WatchedP!Whole, Watched!Steady, WatchedP!Steady,
     Watched!WatchRoles, WatchedP!WatchRoles, Watched!WatchTimeout, WatchedP!WatchTimeout,
     Watched!KillGrid, WatchedP!KillGrid, Watched!RollbackKill, WatchedP!RollbackKill,
     Watched!Rollback, WatchedP!Rollback, Watched!Late, WatchedP!Late, Watched!WaitGone,
     WatchedP!WaitGone, Watched!MarkFailed, WatchedP!MarkFailed, Watched!Killed,
     WatchedP!Killed, Watched!BrokerOpens, WatchedP!BrokerOpens, Watched!WorkerConnects,
     WatchedP!WorkerConnects, Watched!WorkflowStarts, WatchedP!WorkflowStarts,
     Watched!WorkerLost, WatchedP!WorkerLost, Watched!ProcessExits, WatchedP!ProcessExits,
     Watched!BrokerCloses, WatchedP!BrokerCloses, Watched!OperatorStop, WatchedP!OperatorStop,
     Watched!StartStep, WatchedP!StartStep, Watched!Environment, WatchedP!Environment,
     Watched!Next, WatchedP!Next
<1>4. Watched!vars = WatchedP!vars
  BY DEF Watched!vars, WatchedP!vars
<1> QED
  BY <1>1, <1>2, <1>3, <1>4

-----------------------------------------------------------------------------
(* One invariant: what each component's proof keeps of its variables.          *)

Standard == subject \in {"stop", "control", "plain"}

OperatorsInv ==
  /\ subject \in {"stop", "control", "plain", "crowded", "watched"}
  /\ PlainP!TypeInv
  /\ Standard => PlainP!StartupInv
  /\ subject = "crowded" => CrowdedP!StartupInv
  /\ subject = "watched" => WatchedP!StartupInv

LEMMA BoundsAreProved ==
  /\ PlainP!Stop!StopReceiptAssumption /\ PlainP!StartupAssumption
  /\ CrowdedP!StartupAssumption /\ WatchedP!StartupAssumption
  BY BoundsAreAllowed, StopIsProved, PlainIsProved, CrowdedIsProved, WatchedIsProved

LEMMA InitOperators == Init => OperatorsInv
<1> SUFFICES ASSUME Init PROVE OperatorsInv
  OBVIOUS
<1>1. /\ subject \in {"stop", "control", "plain", "crowded", "watched"} /\ Stop!Init
      /\ Standard => Plain!Init
      /\ subject = "crowded" => Crowded!Init
      /\ subject = "watched" => Watched!Init
  BY DEF Init, Standard
<1>2. PlainP!TypeInv
  BY <1>1, BoundsAreProved, StopIsProved, PlainP!InitTypes
<1>3. Standard => PlainP!StartupInv
  BY <1>1, BoundsAreProved, PlainIsProved, PlainP!InitInvariant
<1>4. subject = "crowded" => CrowdedP!StartupInv
  BY <1>1, BoundsAreProved, CrowdedIsProved, CrowdedP!InitInvariant
<1>5. subject = "watched" => WatchedP!StartupInv
  BY <1>1, BoundsAreProved, WatchedIsProved, WatchedP!InitInvariant
<1> QED
  BY <1>1, <1>2, <1>3, <1>4, <1>5 DEF OperatorsInv

\* A step is a step of the subject, and leaves the others as they are.
LEMMA StepOfOne ==
  ASSUME [Next]_vars
  PROVE  /\ UNCHANGED subject
         /\ [PlainP!Stop!Next]_(PlainP!Stop!vars)
         /\ Standard => [PlainP!Next]_(PlainP!vars)
         /\ subject = "crowded" => [CrowdedP!Next]_(CrowdedP!vars)
         /\ subject = "watched" => [WatchedP!Next]_(WatchedP!vars)
<1>1. /\ UNCHANGED subject
      /\ Stop!Next \/ UNCHANGED stopVars
      /\ Standard => Plain!Next \/ UNCHANGED startVars
      /\ subject = "crowded" => Crowded!Next \/ UNCHANGED startVars
      /\ subject = "watched" => Watched!Next \/ UNCHANGED startVars
  BY DEF Next, vars, Standard
<1>2. /\ UNCHANGED stopVars => UNCHANGED PlainP!Stop!vars
      /\ UNCHANGED startVars => UNCHANGED PlainP!vars
      /\ UNCHANGED startVars => UNCHANGED CrowdedP!vars
      /\ UNCHANGED startVars => UNCHANGED WatchedP!vars
  BY DEF stopVars, startVars, PlainP!Stop!vars, PlainP!vars, CrowdedP!vars, WatchedP!vars
<1> QED
  BY <1>1, <1>2, StopIsProved, PlainIsProved, CrowdedIsProved, WatchedIsProved

LEMMA NextOperators ==
  ASSUME OperatorsInv, [Next]_vars
  PROVE  OperatorsInv'
<1>1. /\ subject' = subject
      /\ subject \in {"stop", "control", "plain", "crowded", "watched"}
  BY StepOfOne DEF OperatorsInv
<1>2. PlainP!TypeInv'
  BY StepOfOne, BoundsAreProved, PlainP!NextTypes DEF OperatorsInv
<1>3. Standard => PlainP!StartupInv'
  BY StepOfOne, BoundsAreProved, PlainP!NextInvariant DEF OperatorsInv
<1>4. subject = "crowded" => CrowdedP!StartupInv'
  BY StepOfOne, BoundsAreProved, CrowdedP!NextInvariant DEF OperatorsInv
<1>5. subject = "watched" => WatchedP!StartupInv'
  BY StepOfOne, BoundsAreProved, WatchedP!NextInvariant DEF OperatorsInv
<1> QED
  BY <1>1, <1>2, <1>3, <1>4, <1>5 DEF OperatorsInv, Standard

LEMMA Invariant == Spec => []OperatorsInv
<1>1. Init => OperatorsInv
  BY InitOperators
<1>2. OperatorsInv /\ [Next]_vars => OperatorsInv'
  BY NextOperators
<1> QED
  BY <1>1, <1>2, PTL DEF Spec

-----------------------------------------------------------------------------
(* What follows.                                                             *)

LEMMA StartsFollow == OperatorsInv => StartsAreExact
<1> SUFFICES ASSUME OperatorsInv PROVE StartsAreExact
  OBVIOUS
<1>1. ASSUME Standard PROVE Plain!FailedIsGone /\ Plain!NameIsUsable
  <2>1. PlainP!FailedIsGone /\ PlainP!NameIsUsable
    BY <1>1, BoundsAreProved, PlainP!FailedAreGone, PlainP!EndedAreNamed DEF OperatorsInv
  <2> QED
    BY <2>1 DEF Plain!FailedIsGone, PlainP!FailedIsGone, Plain!NameIsUsable,
       PlainP!NameIsUsable, Plain!HostedRun, PlainP!HostedRun
<1>2. ASSUME subject = "crowded" PROVE Crowded!FailedIsGone /\ Crowded!NameIsUsable
  <2>1. CrowdedP!FailedIsGone /\ CrowdedP!NameIsUsable
    BY <1>2, BoundsAreProved, CrowdedP!FailedAreGone, CrowdedP!EndedAreNamed DEF OperatorsInv
  <2> QED
    BY <2>1 DEF Crowded!FailedIsGone, CrowdedP!FailedIsGone, Crowded!NameIsUsable,
       CrowdedP!NameIsUsable, Crowded!HostedRun, CrowdedP!HostedRun
<1>3. ASSUME subject = "watched"
      PROVE  Plain!FailedIsGone /\ Plain!NameIsUsable /\ Watched!AdmittedTogether
  <2>1. WatchedP!FailedIsGone /\ WatchedP!NameIsUsable /\ WatchedP!AdmittedTogether
    BY <1>3, BoundsAreProved, WatchedP!FailedAreGone, WatchedP!EndedAreNamed,
       WatchedP!AdmittedWereWhole DEF OperatorsInv
  <2>2. Plain!FailedIsGone /\ Plain!NameIsUsable
    BY <2>1 DEF Plain!FailedIsGone, WatchedP!FailedIsGone, Plain!NameIsUsable,
       WatchedP!NameIsUsable, Plain!HostedRun, WatchedP!HostedRun
  <2>3. Watched!AdmittedTogether
    BY <2>1 DEF Watched!AdmittedTogether, WatchedP!AdmittedTogether, Watched!Unshared,
       WatchedP!Unshared
  <2> QED
    BY <2>2, <2>3
<1> QED
  BY <1>1, <1>2, <1>3 DEF StartsAreExact, OperatorsInv, Standard

\* Whichever roster is started, beside whatever one or two other starts of the
\* name: a failed start leaves no session of its own, an ended one can be named
\* by the commands, and a custom roster is admitted whole.
THEOREM StartsStayExact == Spec => []StartsAreExact
  BY Invariant, StartsFollow, PTL

LEMMA RunsAreFinite == PlainP!IsFiniteSet({r1, r2})
<1>1. IsFiniteSet({}) /\ {r1, r2} = ({} \cup {r1}) \cup {r2}
  BY FS_EmptySet
<1>2. IsFiniteSet({r1, r2})
  BY <1>1, FS_AddElement
<1> QED
  BY <1>2 DEF IsFiniteSet, PlainP!IsFiniteSet

LEMMA StopsFollow ==
  OperatorsInv => Stop!TypeOK /\ Stop!StopsOnlyItsRun /\ Stop!CompletedIsGone /\ Stop!OneStopAtATime
<1> SUFFICES ASSUME PlainP!TypeInv
             PROVE  Stop!TypeOK /\ Stop!StopsOnlyItsRun /\ Stop!CompletedIsGone /\ Stop!OneStopAtATime
  BY DEF OperatorsInv
<1>1. Stop!TypeOK
  BY BoundsAreProved, RunsAreFinite, StopIsProved, PlainP!TypesFollow
<1>2. PlainP!Stop!StopsOnlyItsRun /\ PlainP!Stop!CompletedIsGone /\ PlainP!Stop!OneStopAtATime
  BY PlainP!StopsFollow DEF PlainP!TypeInv
<1> QED
  BY <1>1, <1>2 DEF Stop!StopsOnlyItsRun, PlainP!Stop!StopsOnlyItsRun, Stop!CompletedIsGone,
     PlainP!Stop!CompletedIsGone, Stop!OneStopAtATime, PlainP!Stop!OneStopAtATime

LEMMA CompletedStep ==
  ASSUME OperatorsInv, [Next]_vars
  PROVE  PlainP!Final
  BY StepOfOne, PlainP!CompletedStep DEF OperatorsInv, PlainP!TypeInv

\* Whatever the operators do: a stop kills only its own run, a completed receipt
\* says the truth and stays completed, and no two stops of a run act at once.
THEOREM StopsStayExact == Spec => StopsAreExact
<1>1. Spec => [](/\ Stop!TypeOK /\ Stop!StopsOnlyItsRun
                 /\ Stop!CompletedIsGone /\ Stop!OneStopAtATime)
  BY Invariant, StopsFollow, PTL
<1>2. OperatorsInv /\ [Next]_vars => [PlainP!Final]_(Stop!vars)
  BY CompletedStep
<1>3. Stop!CompletedIsFinal <=> [][PlainP!Final]_(Stop!vars)
  BY PTL DEF Stop!CompletedIsFinal, PlainP!Final
<1>4. Spec => Stop!CompletedIsFinal
  BY <1>2, <1>3, Invariant, PTL DEF Spec
<1> QED
  BY <1>1, <1>4 DEF StopsAreExact
=============================================================================
