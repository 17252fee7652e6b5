--------------------------- MODULE BrokerRouting ---------------------------
(***************************************************************************)
(* The workflow of one broker process: which worker is given what, when    *)
(* the reviewer is woken, when a run is published as ready, and what is    *)
(* left of all that after a lost connection or a broker restart.           *)
(*                                                                         *)
(* The broker is one asyncio process over a SQLite file.  A database       *)
(* section holds no await, so it is one atomic step; a coroutine is cut    *)
(* where the code suspends:                                                *)
(*   - at broadcast(), which waits for the attached observers;             *)
(*   - at the drain of a worker's socket, while that worker is not reading.*)
(* What a suspended coroutine still has to do is the set todo[t] of its    *)
(* task t: a worker's connection or an operator's.  Steps of one rank are  *)
(* taken in any order, lower ranks first.                                  *)
(***************************************************************************)
EXTENDS Naturals, Sequences, FiniteSets

CONSTANTS
  Specialists,   \* the configured advisory roles
  Forced,        \* those whose activation the operator forced
  Retained,      \* roles whose worker keeps its context between assignments
  Phased,        \* implementation_flow = "phased": round 1 starts with a plan
  Capped,        \* a repair-round limit is configured
  RepairLimit,   \* its initial value
  Metered,       \* provider-call ceilings are configured
  Operators,     \* control connections that can be open at once
  FlakyRoles,    \* workers whose connection can be lost
  SlowRoles,     \* workers that can stop reading, so that a drain suspends
  FlakyOperators,\* operators whose connection can be lost
  MayCrash,      \* the broker process may be killed and started again
  MaxRounds,     \* bound: rounds explored
  MaxLimit       \* bound: repair limit the operator can reach

Implementer == "implementer"
Reviewer    == "reviewer"
Probe       == "probe"
Roles       == {Implementer, Reviewer} \cup Specialists
Rounds      == 1..MaxRounds
Tasks       == Roles \cup Operators
Nothing     == "nothing"   \* suspended at a broadcast, or no coroutine at all
Running     == "running"   \* not suspended: this task moves before any other

ASSUME ConstantAssumption ==
  /\ Implementer \notin Specialists /\ Reviewer \notin Specialists
  /\ Forced \subseteq Specialists /\ Retained \subseteq Roles
  /\ FlakyRoles \subseteq Roles /\ FlakyOperators \subseteq Operators
  /\ SlowRoles \subseteq Roles
  /\ Roles \cap Operators = {} /\ {Nothing, Running} \cap Roles = {}
  /\ Phased \in BOOLEAN /\ Capped \in BOOLEAN
  /\ Metered \in BOOLEAN /\ MayCrash \in BOOLEAN
  /\ MaxRounds \in Nat \ {0} /\ RepairLimit \in Nat /\ MaxLimit \in Nat

VARIABLES
  workflow,   \* meta.workflow_state
  round,      \* meta.round
  pending,    \* meta.pending_repair_round, 0 when absent
  limit,      \* max_repair_rounds of meta.continuation_policy
  paused,     \* meta.call_admission_paused
  asg,        \* per role, the rows of assignments in the order of creation
  active,     \* roles.active_assignment_id as an index of asg, 0 for NULL
  rstate,     \* roles.state
  decision,   \* specialist_activations: per role and round
  conn,       \* the client table: registered, registered but dead, absent
  baselined,  \* worker_baselines is filled
  owed,       \* pending_run_state: roles whose capsule waits for their next assignment
  todo,       \* per task, what its suspended coroutine still does
  waits       \* per task, what its coroutine waits for: a worker whose socket it drains

durable == <<workflow, round, pending, limit, paused, asg, active, rstate, decision>>
memory  == <<conn, baselined, owed, todo, waits>>
vars    == <<durable, memory>>

WorkflowStates == {"connecting", "initializing", "active", "routing", "ready",
                   "needs_attention", "uncertain"}
RoleStates     == {"disconnected", "idle", "active", "waiting", "uncertain"}

\* owes: what the assignment's attention columns say the broker waits for; the
\* middle three are "recovery_waiting", the last an operator's resumption of one.
Assignment == [round   : Rounds,
               kind    : {"plan", "implementation", "review", "evidence"},
               state   : {"delivering", "accepted", "uncertain", "completed"},
               verdict : {"none", "approved", "changes_requested"},
               owes    : {"report", "reminder", "retry", "attention", "resumed", "nothing"}]
Decisions  == {"none", "run", "skipped"}

Ranked == << {"baseline", "inform", "evidence", "planned", "implemented", "approved", "rejected"},
             {"begin", "advance", "insert", "reopen", "resume"},
             {"decide"},
             {"initial"},
             {"probe", "assign"},
             {"gate", "confirm", "started"},
             {"answer"} >>
Rank(do) == CHOOSE k \in DOMAIN Ranked : do \in Ranked[k]
Steps    == [do : UNION {Ranked[k] : k \in DOMAIN Ranked}, to : Roles, round : Rounds]
Step(do, to, q) == [do |-> do, to |-> to, round |-> q]

TypeOK ==
  /\ workflow \in WorkflowStates
  /\ round \in Rounds
  /\ pending \in 0..MaxRounds
  /\ limit \in Nat
  /\ paused \in BOOLEAN
  /\ asg \in [Roles -> Seq(Assignment)]
  /\ active \in [Roles -> Nat]
  /\ \A r \in Roles : active[r] \in 0..Len(asg[r])
  /\ rstate \in [Roles -> RoleStates]
  /\ decision \in [Specialists -> [Rounds -> Decisions]]
  /\ conn \in [Roles -> {"down", "up", "lost"}]
  /\ baselined \in BOOLEAN
  /\ owed \subseteq Roles
  /\ todo \in [Tasks -> SUBSET Steps]
  /\ waits \in [Tasks -> Roles \cup {Nothing, Running}]

Init ==
  /\ workflow = "connecting"
  /\ round = 1
  /\ pending = 0
  /\ limit = RepairLimit
  /\ paused = FALSE
  /\ asg = [r \in Roles |-> <<>>]
  /\ active = [r \in Roles |-> 0]
  /\ rstate = [r \in Roles |-> "disconnected"]
  /\ decision = [s \in Specialists |-> [q \in Rounds |-> "none"]]
  /\ conn = [r \in Roles |-> "down"]
  /\ baselined = FALSE
  /\ owed = {}
  /\ todo = [t \in Tasks |-> {}]
  /\ waits = [t \in Tasks |-> Nothing]

-----------------------------------------------------------------------------
(* What the database and the client table say.                             *)

Ids(r)        == 1..Len(asg[r])
Known(r)      == conn[r] # "down"
Working(r)    == active[r] # 0
Current(r)    == asg[r][active[r]]
Reports(r, q) == {i \in Ids(r) : asg[r][i].round = q /\ asg[r][i].state = "completed"}
Implemented(q) == \E i \in Reports(Implementer, q) : asg[Implementer][i].kind = "implementation"

\* Broken variants of a definition stand right before it, marked "Broken:"; each breaks
\* the property named there, so that the property is known to depend on the definition.

\* Broken: the pause is forgotten by a later state (ReadyIsQuiet).
PublishedAsGiven(state) == state

\* set_meta: while the call-admission pause holds, active and ready read needs_attention.
Published(state) ==
  IF paused /\ state \in {"active", "ready"} THEN "needs_attention" ELSE state

\* COUNT(DISTINCT round) of the implementation assignments after round 1.
RepairRounds ==
  {q \in 2..MaxRounds : \E i \in Ids(Implementer) : asg[Implementer][i].round = q}
RepairsAdmitted == Cardinality(RepairRounds)

\* Broken: one repair round too many (RepairsWithinLimit).
RepairLimitExceeded(r, q) == Capped /\ r = Implementer /\ q > 1 /\ RepairsAdmitted > limit

RepairLimitReached(r, q) ==
  /\ Capped /\ r = Implementer /\ q > 1
  /\ RepairsAdmitted >= limit

\* maybe_assign_reviewer: the implementation, a decision on every specialist and the
\* report of every one that runs are in, and this round has no review yet.

\* Broken: a specialist that was started counts as having reported (ReviewHasEvidence).
EvidenceStarted(q) == \A s \in Specialists : decision[s][q] # "none"

\* Broken: a specialist not yet decided on counts as skipped (KeepsPromise).
EvidenceOfRunning(q) == \A s \in Specialists : decision[s][q] = "run" => Reports(s, q) # {}

\* Broken: a skipped specialist is waited for (RunSettles).
EvidenceOfAll(q) == \A s \in Specialists : Reports(s, q) # {}

EvidenceComplete(q) ==
  \A s \in Specialists : \/ decision[s][q] = "skipped"
                         \/ decision[s][q] = "run" /\ Reports(s, q) # {}

\* Broken: the round's review is not looked for (OneReviewPerRound).
GateUnlatched(q) == Implemented(q) /\ EvidenceComplete(q)

GateOpen(q) ==
  /\ Implemented(q)
  /\ EvidenceComplete(q)
  /\ \A i \in Ids(Reviewer) : asg[Reviewer][i].round # q

\* What a decision may be; the changed paths are abstracted to the outcome.
Choices(s) == IF s \in Forced THEN {"run"} ELSE {"run", "skipped"}

\* Broken: a specialist that still works is decided on again (NoOrphanAssignment).
Unreported(q) == {s \in Specialists : Reports(s, q) = {}}

Undecided(q) == {s \in Specialists : decision[s][q] = "none"}

\* Broken: an approval without a repair that is held back (TypeOK).
AttentionNeeded == Capped /\ workflow = "needs_attention"

\* continuation_status: a repair waits for the operator's approval.
RepairHeld == Capped /\ workflow = "needs_attention" /\ pending # 0

\* Broken: an admitted repair leaves the held one in place (PendingIsParked).
NeverSettles(r, q) == FALSE

\* assign: the admitted repair is the one that was held back.
SettlesRepair(r, q) == r = Implementer /\ q > 1 /\ pending # 0

-----------------------------------------------------------------------------
(* Tasks.  A drained socket lets the task go on; a dead one makes it fail. *)

Idle(t)  == todo[t] = {} /\ waits[t] = Nothing
Alive(r) == conn[r] = "up"
\* The worker is up, its previous frame is dealt with, and no frame for it is
\* held up in the broker: it is reading, and what it sends is read.
Reading(r) == Alive(r) /\ Idle(r) /\ \A t \in Tasks : waits[t] # r
\* The drain of a socket whose worker reads does not suspend: its task is running.
Suspended(t) == waits[t] \in {Nothing} \cup SlowRoles

\* The steps t can take now: those of the lowest rank, once its socket is drained.
Ready(t) == {x \in todo[t] : /\ \A y \in todo[t] : Rank(x.do) <= Rank(y.do)
                             /\ waits[t] \in Roles => Alive(waits[t])}
Rest(t, x) == todo[t] \ {x}

Pause(t, S)    == todo' = [todo EXCEPT ![t] = S] /\ waits' = [waits EXCEPT ![t] = Nothing]
Run(t, S)      == /\ todo' = [todo EXCEPT ![t] = S]
                  /\ waits' = [waits EXCEPT ![t] = IF S = {} THEN Nothing ELSE Running]
Drain(t, r, S) == todo' = [todo EXCEPT ![t] = S] /\ waits' = [waits EXCEPT ![t] = r]

\* The exception ends the coroutine; a worker's connection is closed with it.
\* Report routing and a repair continuation declare the workflow uncertain, startup
\* and a reopening leave it as they had it.
Starting(t) == \E x \in todo[t] : x.do = "started"
Confirming(t) == \E x \in todo[t] : x.do \in {"confirm", "answer"}
Outcome(t, state) ==
  IF (t \in Roles /\ ~Starting(t)) \/ Confirming(t) THEN "uncertain" ELSE state
Abandon(t) ==
  /\ Run(t, {})
  /\ conn' = IF t \in Roles THEN [conn EXCEPT ![t] = "lost"] ELSE conn

-----------------------------------------------------------------------------
(* assign(): the row is inserted and the role pointed at it in one         *)
(* transaction, then the frame is sent.                                    *)

New(q, kind)  == [round |-> q, kind |-> kind, state |-> "delivering",
                  verdict |-> "none", owes |-> "report"]
KindFor(t, r) == CASE r = Implementer -> IF Phased /\ Starting(t) THEN "plan" ELSE "implementation"
                   [] r = Reviewer    -> "review"
                   [] OTHER           -> "evidence"

Create(r, q, kind) ==
  /\ asg' = [asg EXCEPT ![r] = Append(@, New(q, kind))]
  /\ active' = [active EXCEPT ![r] = Len(asg[r]) + 1]
  /\ rstate' = [rstate EXCEPT ![r] = "active"]

\* The repair-round limit holds the assignment back; otherwise it is created, which
\* settles a held-back repair, and sent to a client that may have gone meanwhile.
Insert(t, r, q, S) ==
  \/ /\ RepairLimitReached(r, q)
     /\ workflow' = "needs_attention"
     /\ pending' = q
     /\ Pause(t, S)
     /\ UNCHANGED <<asg, active, rstate, conn>>
  \/ /\ ~RepairLimitReached(r, q)
     /\ Create(r, q, KindFor(t, r))
     /\ LET state == IF SettlesRepair(r, q) THEN Published("active") ELSE workflow
        IN /\ pending' = IF SettlesRepair(r, q) THEN 0 ELSE pending
           /\ \/ Alive(r) /\ Drain(t, r, S) /\ workflow' = state /\ UNCHANGED conn
              \/ ~Alive(r) /\ Abandon(t) /\ workflow' = Outcome(t, state)

Assign(t, r, q, S) ==
  \/ \* A role that is not connected is passed over in silence.
     /\ ~Known(r)
     /\ Run(t, S)
     /\ UNCHANGED <<workflow, pending, asg, active, rstate, conn, owed>>
  \/ \* The capsule that waits for this assignment is sent first.
     /\ Known(r) /\ r \in owed \cup Retained
     /\ owed' = owed \ {r}
     /\ \/ Alive(r) /\ Drain(t, r, S \cup {Step("insert", r, q)}) /\ UNCHANGED <<workflow, conn>>
        \/ ~Alive(r) /\ Abandon(t) /\ workflow' = Outcome(t, workflow)
     /\ UNCHANGED <<pending, asg, active, rstate>>
  \/ /\ Known(r) /\ r \notin owed \cup Retained
     /\ Insert(t, r, q, S)
     /\ UNCHANGED owed

-----------------------------------------------------------------------------
(* Workers.  hello replaces whatever state the role was left in; the       *)
(* complete roster starts a connecting workflow, any other is recovered.   *)

\* _attention_waiting: assignment n waits for the operator, and so does the workflow.
Await(r, n, owes) ==
  /\ asg' = [asg EXCEPT ![r][n].owes = owes]
  /\ rstate' = [rstate EXCEPT ![r] = "waiting"]
  /\ workflow' = IF workflow \in {"ready", "uncertain"} THEN workflow ELSE "needs_attention"

\* The newest unfinished assignment of r, 0 if there is none.
Newest(r) == LET open == {i \in Ids(r) : asg[r][i].state # "completed"}
             IN IF open = {} THEN 0 ELSE CHOOSE i \in open : \A j \in open : j <= i

Greet(r) ==
  /\ ~Known(r) /\ Idle(r) /\ \A t \in Tasks : waits[t] # r
  /\ conn' = [conn EXCEPT ![r] = "up"]

\* Broken: the roster is counted before r is registered (RunStarts).
RosterBefore(r) == \A x \in Roles : Known(x)

RosterComplete(r) == \A x \in Roles \ {r} : Known(x)

Connect(r) ==
  /\ Greet(r)
  /\ workflow = "connecting" /\ ~RosterComplete(r)
  /\ rstate' = [rstate EXCEPT ![r] = "idle"]
  /\ UNCHANGED <<workflow, round, pending, limit, paused, asg, active, decision,
                 baselined, owed, todo, waits>>

StartWorkflow(r) ==
  /\ Greet(r)
  /\ workflow = "connecting" /\ RosterComplete(r)
  /\ rstate' = [rstate EXCEPT ![r] = "idle"]
  /\ workflow' = "initializing"
  /\ Run(r, {Step("baseline", x, 1) : x \in Roles} \cup
             {Step("begin", r, 1), Step("decide", r, 1), Step("initial", Implementer, 1), Step("started", r, 1)})
  /\ UNCHANGED <<round, pending, limit, paused, asg, active, decision, baselined, owed>>

\* recover_role: a delivery without acknowledgement is uncertain, one that waited
\* still waits, and an accepted assignment is sent again under its old delivery id.
Recover(r) ==
  /\ Greet(r)
  /\ workflow # "connecting"
  /\ LET n == Newest(r)
     IN \/ /\ n = 0
           /\ rstate' = [rstate EXCEPT ![r] = "idle"]
           /\ UNCHANGED <<asg, workflow>>
        \/ /\ n # 0 /\ asg[r][n].state \in {"delivering", "uncertain"}
           /\ asg' = [asg EXCEPT ![r][n].state = "uncertain"]
           /\ rstate' = [rstate EXCEPT ![r] = "uncertain"]
           /\ workflow' = "uncertain"
        \/ /\ n # 0 /\ asg[r][n].state = "accepted"
           /\ IF asg[r][n].owes \in {"reminder", "retry", "attention"}
              THEN Await(r, n, IF asg[r][n].owes = "reminder" THEN "retry" ELSE asg[r][n].owes)
              ELSE rstate' = [rstate EXCEPT ![r] = "idle"] /\ UNCHANGED <<asg, workflow>>
  /\ UNCHANGED <<round, pending, limit, paused, active, decision, baselined, owed, todo, waits>>

\* A connection dies; its task notices once the message in hand is dealt with.
Lose(r) ==
  /\ r \in FlakyRoles /\ Alive(r)
  /\ conn' = [conn EXCEPT ![r] = "lost"]
  /\ UNCHANGED <<durable, baselined, owed, todo, waits>>

Unregister(r) ==
  /\ conn[r] = "lost" /\ Idle(r)
  /\ conn' = [conn EXCEPT ![r] = "down"]
  /\ rstate' = [rstate EXCEPT ![r] = IF @ = "uncertain" THEN @ ELSE "disconnected"]
  /\ UNCHANGED <<workflow, round, pending, limit, paused, asg, active, decision,
                 baselined, owed, todo, waits>>

\* handle_delivery_ack, for the assignment the role points at.
Ack(r) ==
  /\ Reading(r) /\ Working(r)
  /\ asg' = [asg EXCEPT ![r][active[r]].state = "accepted"]
  /\ rstate' = [rstate EXCEPT ![r] = IF @ \in {"disconnected", "idle"} THEN "active" ELSE @]
  /\ <<asg, rstate>>' # <<asg, rstate>>
  /\ UNCHANGED <<workflow, round, pending, limit, paused, active, decision, memory>>

AckUncertain(r) ==
  /\ r \in FlakyRoles /\ Reading(r) /\ Working(r)
  /\ asg' = [asg EXCEPT ![r][active[r]].state = "uncertain"]
  /\ rstate' = [rstate EXCEPT ![r] = "uncertain"]
  /\ workflow' = "uncertain"
  /\ UNCHANGED <<round, pending, limit, paused, active, decision, memory>>

\* handle_report: the report completes the assignment; it is routed after the broadcast.
Report(r, verdict) ==
  /\ Reading(r) /\ Working(r) /\ Current(r).state \in {"delivering", "accepted"}
  /\ LET q == Current(r).round
         route == CASE Current(r).kind = "evidence"       -> "evidence"
                    [] Current(r).kind = "plan"           -> "planned"
                    [] Current(r).kind = "implementation" -> "implemented"
                    [] verdict = "approved"               -> "approved"
                    [] OTHER                              -> "rejected"
     IN /\ Current(r).kind = "review" <=> verdict # "none"
        /\ verdict = "changes_requested" => q < MaxRounds
        /\ asg' = [asg EXCEPT ![r][active[r]].state = "completed",
                              ![r][active[r]].verdict = verdict,
                              ![r][active[r]].owes = "nothing"]
        /\ Pause(r, {Step(route, r, q)})
  /\ active' = [active EXCEPT ![r] = 0]
  /\ rstate' = [rstate EXCEPT ![r] = "idle"]
  /\ UNCHANGED <<workflow, round, pending, limit, paused, decision, conn, baselined, owed>>

\* handle_settlement, the first time: one reminder is reserved and the role waits.
Remind(r) ==
  /\ Reading(r) /\ Working(r) /\ Current(r).state \in {"delivering", "accepted"}
  /\ Current(r).owes = "report"
  /\ asg' = [asg EXCEPT ![r][active[r]].owes = "reminder"]
  /\ rstate' = [rstate EXCEPT ![r] = "waiting"]
  /\ UNCHANGED <<workflow, round, pending, limit, paused, active, decision, memory>>

RecoveryTurn(r) ==
  /\ Reading(r) /\ Working(r) /\ Current(r).state \in {"delivering", "accepted"}
  /\ Current(r).owes = "reminder"
  /\ asg' = [asg EXCEPT ![r][active[r]].owes = "retry"]
  /\ rstate' = [rstate EXCEPT ![r] = "active"]
  /\ UNCHANGED <<workflow, round, pending, limit, paused, active, decision, memory>>

\* handle_attention, a settlement after the reminder, a refused recovery turn.
RaiseAttention(r) ==
  /\ Reading(r) /\ Working(r) /\ Current(r).state \in {"delivering", "accepted"}
  /\ Current(r).owes # "attention"
  /\ Await(r, active[r], "attention")
  /\ UNCHANGED <<round, pending, limit, paused, active, decision, memory>>

\* handle_provider_turn over a ceiling: the whole run's admission pauses.
DenyTurn(r) ==
  /\ Metered /\ Reading(r) /\ Working(r) /\ Current(r).state \in {"delivering", "accepted"}
  /\ Current(r).owes # "attention"
  /\ Await(r, active[r], "attention")
  /\ paused' = TRUE
  /\ UNCHANGED <<round, pending, limit, active, decision, memory>>

\* handle_lifecycle as the worker extension sends it: idle or active, bound to the
\* assignment the worker holds (accepted here) or, when the role has none, to none.
Lifecycle(r, state) ==
  /\ Reading(r)
  /\ Working(r) => Current(r).state = "accepted" /\ rstate[r] # "waiting"
  /\ rstate' = [rstate EXCEPT ![r] = IF @ = "uncertain" THEN @ ELSE state]
  /\ workflow' = CASE Working(r) /\ rstate[r] = "uncertain" /\ workflow # "ready" -> "uncertain"
                   [] /\ Working(r) /\ rstate'[r] = "active"
                      /\ workflow = "needs_attention" /\ ~paused -> "active"
                   [] OTHER -> workflow
  /\ UNCHANGED <<round, pending, limit, paused, asg, active, decision, memory>>
-----------------------------------------------------------------------------
(* Continuations: startup, report routing, and what both do to a worker.   *)

Takes(t, do, x) == x \in Ready(t) /\ x.do = do

\* The step x only sends a frame to its worker.
SendOnly(t, x) ==
  /\ \/ ~Known(x.to) /\ Run(t, Rest(t, x)) /\ UNCHANGED <<workflow, conn>>
     \/ Alive(x.to) /\ Drain(t, x.to, Rest(t, x)) /\ UNCHANGED <<workflow, conn>>
     \/ conn[x.to] = "lost" /\ Abandon(t) /\ workflow' = Outcome(t, workflow)
  /\ UNCHANGED <<round, pending, limit, paused, asg, active, rstate, decision, baselined>>

Baseline(t, x) == Takes(t, "baseline", x) /\ SendOnly(t, x) /\ UNCHANGED owed

Begin(t, x) ==
  /\ Takes(t, "begin", x)
  /\ baselined' = TRUE
  /\ workflow' = Published("active")
  /\ Run(t, Rest(t, x))
  /\ UNCHANGED <<round, pending, limit, paused, asg, active, rstate, decision, conn, owed>>

\* The decision on the probe, in a transaction of its own; a decision is immutable.
DecideProbe(t, x) ==
  /\ Takes(t, "decide", x)
  /\ \/ Probe \notin Specialists /\ UNCHANGED decision /\ Pause(t, Rest(t, x))
     \/ Probe \in Specialists /\ \E d \in Choices(Probe) :
          /\ decision[Probe][1] \in {"none", d}
          /\ decision' = [decision EXCEPT ![Probe][1] = d]
          /\ Pause(t, Rest(t, x) \cup IF d = "run" THEN {Step("probe", Probe, 1)} ELSE {})
  /\ UNCHANGED <<workflow, round, pending, limit, paused, asg, active, rstate, conn, baselined, owed>>

Started(t, x) ==
  /\ Takes(t, "started", x)
  /\ Run(t, Rest(t, x))
  /\ UNCHANGED <<durable, conn, baselined, owed>>

\* _deliver_run_state to one recipient: a busy or retained one gets it later.
Inform(t, x) ==
  /\ Takes(t, "inform", x)
  /\ \/ /\ Known(x.to) /\ (x.to \in owed \cup Retained \/ Working(x.to))
        /\ owed' = owed \cup {x.to}
        /\ Run(t, Rest(t, x))
        /\ UNCHANGED <<durable, conn, baselined>>
     \/ /\ ~Known(x.to) \/ ~(x.to \in owed \cup Retained \/ Working(x.to))
        /\ SendOnly(t, x)
        /\ UNCHANGED owed

\* Broken: evidence does not look at the gate (NeverForgotten).
EvidenceOnlyInforms(t, x) ==
  /\ Takes(t, "evidence", x)
  /\ Run(t, {Step("inform", Implementer, x.round), Step("inform", Reviewer, x.round)})
  /\ UNCHANGED <<durable, conn, baselined, owed>>

RouteEvidence(t, x) ==
  /\ Takes(t, "evidence", x)
  /\ Run(t, {Step("inform", Implementer, x.round), Step("inform", Reviewer, x.round),
              Step("gate", Reviewer, x.round)})
  /\ UNCHANGED <<durable, conn, baselined, owed>>

RoutePlan(t, x) ==
  /\ Takes(t, "planned", x)
  /\ Run(t, {Step("inform", Implementer, x.round)} \cup
             IF Phased THEN {Step("assign", Implementer, x.round)} ELSE {})
  /\ UNCHANGED <<durable, conn, baselined, owed>>

\* Every specialist without a decision for this round gets one; those that run start.
RouteImplementation(t, x) ==
  /\ Takes(t, "implemented", x)
  /\ LET q    == x.round
         open == Undecided(q)
     IN \E run \in SUBSET open :
          /\ open \cap Forced \subseteq run
          /\ decision' = [s \in Specialists |->
                           IF s \in open
                           THEN [decision[s] EXCEPT ![q] = IF s \in run THEN "run" ELSE "skipped"]
                           ELSE decision[s]]
          /\ Run(t, {Step("inform", s, q) : s \in run \cup {Reviewer}} \cup
                     {Step("assign", s, q) : s \in run} \cup {Step("gate", Reviewer, q)})
  /\ UNCHANGED <<workflow, round, pending, limit, paused, asg, active, rstate, conn, baselined, owed>>

RouteApproval(t, x) ==
  /\ Takes(t, "approved", x)
  /\ workflow' = Published("ready")
  /\ Run(t, {})
  /\ UNCHANGED <<round, pending, limit, paused, asg, active, rstate, decision, conn, baselined, owed>>

RouteRejection(t, x) ==
  /\ Takes(t, "rejected", x)
  /\ Run(t, {Step("inform", Implementer, x.round), Step("advance", Implementer, x.round)})
  /\ UNCHANGED <<durable, conn, baselined, owed>>

\* Broken: the announcement of the last round stays (ReadyIsReviewed).
OpenRoundQuietly(t, q) ==
  /\ round' = q
  /\ Pause(t, {Step("assign", Implementer, q)})
  /\ UNCHANGED <<workflow, pending, limit, paused, asg, active, rstate, decision, conn, baselined, owed>>

\* The next round opens: after a rejection, or when an operator reopens a ready run.
OpenRound(t, q) ==
  /\ round' = q
  /\ workflow' = Published("active")
  /\ Pause(t, {Step("assign", Implementer, q)})
  /\ UNCHANGED <<pending, limit, paused, asg, active, rstate, decision, conn, baselined, owed>>

\* Broken: the repair is assigned in the rejected round (RejectionIsRepaired).
AdvanceInPlace(t, x) == Takes(t, "advance", x) /\ OpenRound(t, x.round)

Advance(t, x) == Takes(t, "advance", x) /\ OpenRound(t, x.round + 1)

Assignments(t, x) ==
  /\ \/ \E do \in {"initial", "probe", "assign"} :
          Takes(t, do, x) /\ Assign(t, x.to, x.round, Rest(t, x))
     \/ Takes(t, "insert", x) /\ Insert(t, x.to, x.round, Rest(t, x)) /\ UNCHANGED owed
  /\ UNCHANGED <<round, limit, paused, decision, baselined>>

\* maybe_assign_reviewer
Gate(t, x) ==
  /\ Takes(t, "gate", x)
  /\ \/ ~GateOpen(x.round) /\ Run(t, Rest(t, x))
        /\ UNCHANGED <<workflow, pending, asg, active, rstate, conn, owed>>
     \/ GateOpen(x.round) /\ Assign(t, Reviewer, x.round, Rest(t, x))
  /\ UNCHANGED <<round, limit, paused, decision, baselined>>

\* The last frame of a task is drained; or the connection it drains to is gone.
Drained(t) ==
  /\ todo[t] = {} /\ waits[t] \in Roles /\ Alive(waits[t])
  /\ Run(t, {})
  /\ UNCHANGED <<durable, conn, baselined, owed>>

DrainFails(t) ==
  /\ waits[t] \in Roles /\ ~Alive(waits[t])
  /\ workflow' = Outcome(t, workflow)
  /\ Abandon(t)
  /\ UNCHANGED <<round, pending, limit, paused, asg, active, rstate, decision, baselined, owed>>
-----------------------------------------------------------------------------
(* Operators.                                                              *)

\* send to a worker that waits: the message goes out before the state is written.
Send(o, r) ==
  /\ Idle(o) /\ Alive(r)
  /\ workflow = "needs_attention"
  /\ rstate[r] = "waiting" /\ Working(r) /\ Current(r).state = "accepted"
  /\ Drain(o, r, {Step("resume", r, round)})
  /\ UNCHANGED <<durable, conn, baselined, owed>>

Resume(o, x) ==
  /\ Takes(o, "resume", x)
  /\ LET r == x.to
     IN /\ asg' = IF Working(r) THEN [asg EXCEPT ![r][active[r]].owes = "resumed"] ELSE asg
        /\ rstate' = [rstate EXCEPT ![r] = "active"]
        /\ workflow' = IF \E w \in Roles \ {r} : rstate[w] = "waiting" /\ Working(w)
                       THEN workflow ELSE Published("active")
  /\ Run(o, {})
  /\ UNCHANGED <<round, pending, limit, paused, active, decision, conn, baselined, owed>>

\* send to the implementer of a ready run: capsule and message first, then the next
\* round is opened, the operator answered, observers told, and the repair assigned.
Reopen(o) ==
  /\ Idle(o) /\ Alive(Implementer)
  /\ workflow = "ready" /\ round < MaxRounds
  /\ owed' = owed \ {Implementer}
  /\ Drain(o, Implementer, {Step("reopen", Implementer, round + 1)})
  /\ UNCHANGED <<durable, conn, baselined>>

\* Broken: the next round is taken from the round as it is now (RoundNeedsVerdict).
ReopenedAfresh(o, x) == Takes(o, "reopen", x) /\ OpenRound(o, round + 1)

Reopened(o, x) == Takes(o, "reopen", x) /\ OpenRound(o, x.round)

\* continue: one more repair round than were admitted, for the one held back.
ApproveRepair(o) ==
  /\ Idle(o) /\ Known(Implementer) /\ baselined
  /\ RepairHeld
  /\ \A r \in Roles : ~Working(r) /\ rstate[r] \in {"idle", "disconnected"}
  /\ limit' = (IF limit > RepairsAdmitted THEN limit ELSE RepairsAdmitted) + 1
  /\ limit' <= MaxLimit
  /\ workflow' = "routing"
  /\ Run(o, {Step("assign", Implementer, pending), Step("confirm", Implementer, pending)})
  /\ UNCHANGED <<round, pending, paused, asg, active, rstate, decision, conn, baselined, owed>>

Confirm(o, x) ==
  /\ Takes(o, "confirm", x)
  /\ IF pending = x.round \/ x.round \notin RepairRounds
     THEN workflow' = "uncertain" /\ Run(o, {})
     ELSE Pause(o, {Step("answer", Implementer, x.round)}) /\ UNCHANGED workflow
  /\ UNCHANGED <<round, pending, limit, paused, asg, active, rstate, decision, conn, baselined, owed>>

Answer(o, x) ==
  /\ Takes(o, "answer", x)
  /\ Run(o, {})
  /\ UNCHANGED <<durable, conn, baselined, owed>>

\* The operator's connection breaks: the response cannot be written, and what the
\* handler had left to do is not done.
HangUp(o) ==
  /\ o \in FlakyOperators /\ waits[o] = Nothing
  /\ \E x \in todo[o] : x.do = "answer" \/ (x.do = "assign" /\ ~Confirming(o))
  /\ workflow' = Outcome(o, workflow)
  /\ Abandon(o)
  /\ UNCHANGED <<round, pending, limit, paused, asg, active, rstate, decision, baselined, owed>>

ExtendCalls ==
  /\ Metered /\ paused
  /\ paused' = FALSE
  /\ UNCHANGED <<workflow, round, pending, limit, asg, active, rstate, decision, memory>>

-----------------------------------------------------------------------------
(* The broker process is killed; the next one reads the database.          *)

Restart ==
  /\ MayCrash
  /\ workflow' = IF workflow \in {"routing", "initializing"} THEN "uncertain" ELSE workflow
  /\ conn' = [r \in Roles |-> "down"]
  /\ baselined' = FALSE
  /\ owed' = {}
  /\ todo' = [t \in Tasks |-> {}]
  /\ waits' = [t \in Tasks |-> Nothing]
  /\ UNCHANGED <<round, pending, limit, paused, asg, active, rstate, decision>>

-----------------------------------------------------------------------------
Connections == \E r \in Roles : \/ Connect(r) \/ StartWorkflow(r) \/ Recover(r)
                                \/ Lose(r) \/ Unregister(r)

Messages == \E r \in Roles :
  \/ Ack(r) \/ AckUncertain(r)
  \/ \E v \in {"none", "approved", "changes_requested"} : Report(r, v)
  \/ Remind(r) \/ RecoveryTurn(r) \/ RaiseAttention(r) \/ DenyTurn(r)
  \/ \E s \in {"idle", "active"} : Lifecycle(r, s)

Continuation(t) ==
  \/ \E x \in todo[t] :
       \/ Baseline(t, x) \/ Begin(t, x) \/ DecideProbe(t, x) \/ Started(t, x) \/ Inform(t, x)
       \/ RouteEvidence(t, x) \/ RoutePlan(t, x) \/ RouteImplementation(t, x)
       \/ RouteApproval(t, x) \/ RouteRejection(t, x) \/ Advance(t, x)
       \/ Assignments(t, x) \/ Gate(t, x)
       \/ Resume(t, x) \/ Reopened(t, x) \/ Confirm(t, x) \/ Answer(t, x)
  \/ Drained(t) \/ DrainFails(t)

Controls == \E o \in Operators : \/ \E r \in Roles : Send(o, r)
                                 \/ Reopen(o) \/ ApproveRepair(o) \/ HangUp(o)

\* A running coroutine moves first; nothing but the kernel gets in between.
Turn(t) == (\A u \in Tasks \ {t} : Suspended(u)) /\ Continuation(t)
Calm    == \A u \in Tasks : Suspended(u)

Next ==
  \/ \E t \in Tasks : Turn(t)
  \/ Calm /\ (Connections \/ Messages \/ Controls \/ ExtendCalls)
  \/ Restart

Spec == Init /\ [][Next]_vars

\* The event loop runs every coroutine that can go on; a bridge keeps connecting; and
\* a worker whose agent runs, or is reminded, ends its assignment: the report tool, the
\* attention tool or the settlement after its last turn.  Operators owe nothing, nor do
\* workers that wait for them.
Respond(r) == /\ Calm /\ rstate[r] = "waiting" => Working(r) /\ Current(r).owes = "reminder"
              /\ (\E v \in {"none", "approved", "changes_requested"} : Report(r, v))
                 \/ RaiseAttention(r)
Fairness == /\ \A t \in Tasks : WF_vars(Turn(t))
            /\ \A r \in Roles : WF_vars(Calm /\ (Connect(r) \/ StartWorkflow(r)))
            /\ \A r \in Roles : WF_vars(Respond(r))
FairSpec == Spec /\ Fairness

-----------------------------------------------------------------------------
(* Properties.                                                             *)

Reviews(q) == {i \in Ids(Reviewer) : asg[Reviewer][i].round = q}
Verdict(q, v) == \E i \in Reviews(q) : asg[Reviewer][i].verdict = v
Delivered(r, q) == \E i \in Ids(r) : asg[r][i].round = q /\ asg[r][i].state = "completed"
Evidenced(q) ==
  /\ \E i \in Ids(Implementer) : /\ asg[Implementer][i].round = q
                                 /\ asg[Implementer][i].kind = "implementation"
                                 /\ asg[Implementer][i].state = "completed"
  /\ \A s \in Specialists : \/ (decision[s][q] = "skipped" /\ s \notin Forced)
                             \/ Delivered(s, q)

\* Whatever is interleaved, lost or restarted: a reviewer is only ever given a round
\* whose implementation, and the report of every specialist that runs, are in; for a
\* specialist whose activation was forced, its report and not a skip.
ReviewHasEvidence == \A i \in Ids(Reviewer) : Evidenced(asg[Reviewer][i].round)

\* A run is ready only if the reviewer approved the round it is in.
ReadyIsReviewed == workflow = "ready" => Verdict(round, "approved")

\* A run that is ready is not waiting for anybody: nobody works, no ceiling holds it.
ReadyIsQuiet == workflow = "ready" => ~paused /\ \A r \in Roles : ~Working(r)

\* The reviewer is triggered once per round.
OneReviewPerRound == \A q \in Rounds : Cardinality(Reviews(q)) <= 1

\* An unfinished assignment is the one its role points at: an acknowledgement, a report
\* or an operator's message can still reach it.
NoOrphanAssignment ==
  \A r \in Roles : \A i \in Ids(r) : asg[r][i].state # "completed" => i = active[r]

\* An active workflow always has somebody to wait for: a worker with an assignment, or
\* a coroutine that is about to give one.
Moving == (\E t \in Tasks : ~Idle(t)) \/ (\E r \in Roles : Working(r))
NeverForgotten == workflow = "active" => Moving

\* The reviewer of a complete round is not forgotten.
ReviewerIsTriggered ==
  workflow = "active" /\ (\A t \in Tasks : Idle(t)) => ~GateOpen(round)

\* While a worker waits for the operator the run does not claim to be under way.
AttentionIsShown ==
  (\E r \in Roles : Working(r) /\ rstate[r] = "waiting" /\ Current(r).owes = "attention")
    => workflow \notin {"active", "ready"}

\* A repair the limit holds back is the current round's, and the run does not go on.
PendingIsParked ==
  pending # 0 => pending = round /\ workflow \in {"needs_attention", "routing", "uncertain"}

\* No sequence of rejections, reopenings and approvals exceeds the repair rounds granted.
RepairsWithinLimit == Capped => RepairsAdmitted <= limit

\* The round moves one at a time, and only past a verdict on the round it leaves.
RoundNeedsVerdict ==
  [][round' # round => /\ round' = round + 1
                       /\ \E v \in {"approved", "changes_requested"} : Verdict(round, v)]_vars

\* The promise to the run's owner, on the broker's state.
Settled(q) == {s \in Specialists : decision[s][q] = "skipped"
                                   \/ (decision[s][q] = "run" /\ Reports(s, q) # {})}
Stage(q) == CASE Reviews(q) = {}                   -> "open"
              [] Verdict(q, "approved")            -> "approved"
              [] Verdict(q, "changes_requested")   -> "changes_requested"
              [] OTHER                             -> "review"
Promise == INSTANCE ReviewGate WITH
  implemented <- {q \in Rounds : Implemented(q)},
  settled     <- [q \in Rounds |-> Settled(q)],
  stage       <- [q \in Rounds |-> Stage(q)],
  published   <- workflow = "ready"
KeepsPromise == Promise!Spec

\* The roster gathers, and an active run always comes to a verdict it can stand on, or
\* to the operator.
RunStarts  == workflow = "connecting" ~> workflow = "active"
RunSettles == workflow = "active" ~> workflow \in {"ready", "needs_attention"}

\* A rejection is answered: the next round's repair is assigned, or held back for approval.
RejectionIsRepaired ==
  \A q \in Rounds : Verdict(q, "changes_requested") ~> (q + 1 \in RepairRounds \/ pending = q + 1)

=============================================================================
