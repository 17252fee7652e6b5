---------------------------- MODULE CallAdmission ----------------------------
(***************************************************************************)
(* Enforced ceilings on provider turns.  Before every turn a worker's      *)
(* bridge asks the broker, which reserves the turn in its ledger and only  *)
(* then answers; nothing is ever refunded.  A refusal pauses the run, and  *)
(* only an operator raises the ceilings and lets a waiting worker go on.   *)
(*                                                                         *)
(* A worker whose run settled without a report is reminded once.  Its next *)
(* turn then also claims the reminder, and waits for a second answer.      *)
(*                                                                         *)
(* Requests and frames travel on one socket per worker, in order; both     *)
(* directions are lost with it.  A worker gives up waiting on its own, and *)
(* what it asked for may still be decided, and answered, later.            *)
(***************************************************************************)
EXTENDS Naturals, Sequences, FiniteSets

CONSTANTS
  Workers,        \* the roles that ask for turns
  Ceilings,       \* call_policy limits: a ceiling for each configured scope
  MaxAllowance,   \* MAX_CALL_ALLOWANCE: of a ceiling, and of the ledger's rows
  Extras,         \* what an operator may add
  Repeats,        \* a client may ask again with an id it used before
  Settles,        \* a worker's run may settle without a report
  MaxAsks,        \* bound: requests made
  MaxAssignments, \* bound: assignments of one worker
  MaxResumes,     \* bound: operator messages to one worker
  MaxCuts         \* bound: connections lost

Scopes == {"run", "role", "assignment"}

ASSUME ConstantAssumption ==
  /\ DOMAIN Ceilings \subseteq Scopes /\ DOMAIN Ceilings # {}
  /\ MaxAllowance \in Nat \ {0}
  /\ Ceilings \in [DOMAIN Ceilings -> 1..MaxAllowance]
  /\ Extras \subseteq Nat \ {0}
  /\ Repeats \in BOOLEAN /\ Settles \in BOOLEAN
  /\ MaxAsks \in Nat /\ MaxAssignments \in Nat \ {0} /\ MaxResumes \in Nat /\ MaxCuts \in Nat

VARIABLES
  limits,    \* meta.call_admission_policy
  paused,    \* meta.call_admission_paused
  workflow,  \* meta.workflow_state, as far as it matters here
  ledger,    \* provider_admissions
  task,      \* per worker, its active assignment: number, resume_id, report_attempt, authorization, reminder
  waiting,   \* workers whose role state is "waiting"
  link,      \* workers whose connection is registered
  bridge,    \* per worker, what its bridge believes: assignment, resume id, recovery; its request and how far it is
  inbox,     \* per worker, requests under way to the broker
  outbox,    \* per worker, frames under way to it
  asks,      \* requests made so far; a fresh id is the next number
  spent,     \* per request id, provider turns dispatched on it
  cuts       \* connections lost so far

broker == <<limits, paused, workflow, ledger, task, waiting>>
vars   == <<broker, link, bridge, inbox, outbox, asks, spent, cuts>>

Ids      == 1..MaxAsks
Numbers  == 1..MaxAssignments
Epochs   == 0..MaxResumes
Steps    == {"idle", "asking", "granted", "claiming", "claimed"}
Request  == [id : Ids, number : Numbers, resume : Epochs, claim : BOOLEAN]
NoAsk    == [id |-> 0, number |-> 1, resume |-> 0, claim |-> FALSE]
Task     == [number : Numbers, resume : Epochs, refused : BOOLEAN, authorized : BOOLEAN,
             reminder : {"none", "reserved", "used"}]
Assigned(n) == [number |-> n, resume |-> 0, refused |-> FALSE, authorized |-> FALSE,
                reminder |-> "none"]
Row      == [id : Ids, role : Workers, number : Numbers, resume : Epochs, granted : BOOLEAN]
Frame    == [kind : {"granted", "refused", "claimed", "exhausted"}, id : Ids, number : {1},
             resume : {0}, waits : {FALSE}] \cup
            [kind : {"assignment", "guidance", "reminder"}, id : {0}, number : Numbers,
             resume : Epochs, waits : BOOLEAN]
Reply(kind, i)         == [kind |-> kind, id |-> i, number |-> 1, resume |-> 0, waits |-> FALSE]
Tell(kind, n, e, wait) == [kind |-> kind, id |-> 0, number |-> n, resume |-> e, waits |-> wait]

TypeOK ==
  /\ limits \in [DOMAIN Ceilings -> 1..MaxAllowance]
  /\ paused \in BOOLEAN
  /\ workflow \in {"active", "needs_attention"}
  /\ ledger \subseteq Row
  /\ task \in [Workers -> Task]
  /\ waiting \subseteq Workers
  /\ link \subseteq Workers
  /\ bridge \in [Workers -> [number : Numbers, resume : Epochs, recovery : BOOLEAN,
                         ask : Request \cup {NoAsk}, step : Steps]]
  /\ inbox \in [Workers -> Seq(Request)]
  /\ outbox \in [Workers -> Seq(Frame)]
  /\ asks \in 0..MaxAsks
  /\ spent \in [Ids -> Nat]
  /\ cuts \in 0..MaxCuts

Init ==
  /\ limits = Ceilings
  /\ paused = FALSE
  /\ workflow = "active"
  /\ ledger = {}
  /\ task = [w \in Workers |-> Assigned(1)]
  /\ waiting = {}
  /\ link = Workers
  /\ bridge = [w \in Workers |-> [number |-> 1, resume |-> 0, recovery |-> FALSE,
                                 ask |-> NoAsk, step |-> "idle"]]
  /\ inbox = [w \in Workers |-> <<>>]
  /\ outbox = [w \in Workers |-> <<>>]
  /\ asks = 0
  /\ spent = [i \in Ids |-> 0]
  /\ cuts = 0

-----------------------------------------------------------------------------
(* The ledger.                                                             *)

Granted == {row \in ledger : row.granted}

\* The reservations a ceiling counts, for a turn of w on its assignment n.
Counted(scope, w, n) ==
  {row \in Granted : /\ scope \in {"role", "assignment"} => row.role = w
                     /\ scope = "assignment" => row.number = n}

\* Broken: a ceiling is compared after the turn that reaches it (WithinCeilings).
RoomUpTo(w, n) == \A s \in DOMAIN limits : Cardinality(Counted(s, w, n)) <= limits[s]

Room(w, n) == \A s \in DOMAIN limits : Cardinality(Counted(s, w, n)) < limits[s]

Retained(i) == {row \in ledger : row.id = i}
Conflicts(w, m) == \E row \in Retained(m.id) :
                     row.role # w \/ row.number # m.number \/ row.resume # m.resume
Full == Cardinality(ledger) >= MaxAllowance

\* _active_attention_assignment: the request is of the active assignment and its epoch.
Bound(w, m) == m.number = task[w].number /\ m.resume = task[w].resume

\* Broken: a raised ceiling lets a held worker go on (RefusalEndsEpoch).
HeldByPause(w) == task[w].refused /\ paused

\* Report attempt "attention", and no operator has authorized a resumption.
Held(w) == task[w].refused /\ ~task[w].authorized

\* Broken: a repeated request is answered as it was the first time (TurnsAreReserved).
AnswersAgain(w, m) == IF Retained(m.id) # {} THEN \E row \in Retained(m.id) : row.granted
                      ELSE ~Held(w) /\ ~Full /\ ~paused /\ Room(w, m.number)

\* reserve_provider_turn: a repeated request is never granted.
Admissible(w, m) ==
  /\ ~Held(w)
  /\ Retained(m.id) = {} /\ ~Full /\ ~paused
  /\ Room(w, m.number)

\* The row that is left: none for a held worker, a repeated request or a full ledger.
Recorded(w, m) == ~Held(w) /\ Retained(m.id) = {} /\ ~Full

\* recovery_waiting of recover_role: the worker was reminded or refused, and nobody authorized more.
RecoveryWaits(w) == ~task[w].authorized /\ (task[w].reminder # "none" \/ task[w].refused)

\* Broken: the pause only holds new work (RefusalIsShown).
SetActive == "active"

\* set_meta: while the pause holds, active reads needs_attention.
Published == IF paused THEN "needs_attention" ELSE "active"

-----------------------------------------------------------------------------
(* A worker's bridge, before a provider request.                           *)

\* before_provider_request is over, with the turn or without it.
AtRest(w) == [bridge[w] EXCEPT !.ask = NoAsk, !.step = "idle"]

\* provider_turn
Ask(w) ==
  /\ w \in link /\ bridge[w].step = "idle" /\ asks < MaxAsks
  /\ \E i \in {asks + 1} \cup {row.id : row \in {x \in ledger : Repeats /\ x.role = w}} :
       LET m == [id |-> i, number |-> bridge[w].number, resume |-> bridge[w].resume, claim |-> FALSE]
       IN /\ bridge' = [bridge EXCEPT ![w].ask = m, ![w].step = "asking"]
          /\ inbox' = [inbox EXCEPT ![w] = Append(@, m)]
  /\ asks' = asks + 1
  /\ UNCHANGED <<broker, link, outbox, spent, cuts>>

Awaits(w) == bridge[w].step \in {"asking", "claiming"}

\* No answer within ten seconds: the turn is aborted, whatever comes later.
GiveUp(w) ==
  /\ Awaits(w)
  /\ bridge' = [bridge EXCEPT ![w] = AtRest(w)]
  /\ UNCHANGED <<broker, link, inbox, outbox, asks, spent, cuts>>

\* What a frame does to the bridge.  An answer is for the request that awaits it; the
\* frames of a chunk are handled at once, and who awaits an answer goes on afterwards.
Heard(w, f) ==
  LET b == bridge[w]
      answers(step) == f.id = b.ask.id /\ b.step = step
  IN CASE f.kind = "granted" /\ answers("asking")     -> [b EXCEPT !.step = "granted"]
       [] f.kind = "claimed" /\ answers("claiming")   -> [b EXCEPT !.step = "claimed"]
       [] f.kind = "refused" /\ answers("asking")     -> AtRest(w)
       [] f.kind = "exhausted" /\ answers("claiming") -> AtRest(w)
       [] f.kind = "assignment" ->
            [b EXCEPT !.number = f.number, !.resume = f.resume, !.recovery = f.waits]
       [] f.kind = "guidance" /\ f.number = b.number ->
            [b EXCEPT !.resume = f.resume, !.recovery = FALSE]
       [] f.kind = "reminder" /\ f.number = b.number /\ f.resume = b.resume ->
            [b EXCEPT !.recovery = TRUE]
       [] OTHER -> b

Receive(w) ==
  /\ w \in link /\ outbox[w] # <<>>
  /\ bridge' = [bridge EXCEPT ![w] = Heard(w, Head(outbox[w]))]
  /\ outbox' = [outbox EXCEPT ![w] = Tail(@)]
  /\ UNCHANGED <<broker, link, inbox, asks, spent, cuts>>

\* Broken: a grant for what the bridge no longer works on is used (TurnsAreHonest).
Usable(w) == TRUE

\* The grant is used only if the bridge still works on what it asked for.
StillBound(w) == bridge[w].ask.number = bridge[w].number /\ bridge[w].ask.resume = bridge[w].resume

\* The turn is aborted: the grant is for something else, or the claim cannot be sent.
Abort(w) ==
  /\ bridge[w].step = "granted"
  /\ ~StillBound(w) \/ (bridge[w].recovery /\ w \notin link)
  /\ bridge' = [bridge EXCEPT ![w] = AtRest(w)]
  /\ UNCHANGED <<broker, link, inbox, outbox, asks, spent, cuts>>

\* recovery_turn: in recovery the granted turn claims the reminder as well.
ClaimReminder(w) ==
  /\ bridge[w].step = "granted" /\ StillBound(w) /\ bridge[w].recovery /\ w \in link
  /\ bridge' = [bridge EXCEPT ![w].step = "claiming"]
  /\ inbox' = [inbox EXCEPT ![w] = Append(@, [bridge[w].ask EXCEPT !.claim = TRUE])]
  /\ UNCHANGED <<broker, link, outbox, asks, spent, cuts>>

\* The turn goes to the provider.  Nothing is compared again after the second answer.
Dispatch(w) ==
  /\ \/ bridge[w].step = "granted" /\ StillBound(w) /\ ~bridge[w].recovery
     \/ bridge[w].step = "claimed"
  /\ spent' = [spent EXCEPT ![bridge[w].ask.id] = @ + 1]
  /\ bridge' = [bridge EXCEPT ![w] = AtRest(w)]
  /\ UNCHANGED <<broker, link, inbox, outbox, asks, cuts>>

-----------------------------------------------------------------------------
(* The broker.                                                             *)

\* The socket is gone with everything under way on it; the bridge stops waiting for answers.
Drop(W) ==
  /\ link' = link \ W
  /\ inbox' = [w \in Workers |-> IF w \in W THEN <<>> ELSE inbox[w]]
  /\ outbox' = [w \in Workers |-> IF w \in W THEN <<>> ELSE outbox[w]]
  /\ bridge' = [w \in Workers |-> IF w \in W /\ Awaits(w) THEN AtRest(w) ELSE bridge[w]]

\* The broker notices: whatever state the role was in, it is disconnected now.
Disconnect(w) ==
  /\ Drop({w})
  /\ waiting' = waiting \ {w}
  /\ UNCHANGED <<limits, paused, workflow, ledger, task>>

\* _attention_waiting, for a task that was changed by the handler.
AwaitOperator(w, changed) ==
  /\ task' = [task EXCEPT ![w] = [changed EXCEPT !.authorized = FALSE]]
  /\ waiting' = waiting \cup {w}
  /\ workflow' = "needs_attention"

Refused(w) == AwaitOperator(w, [task[w] EXCEPT !.refused = TRUE])

\* handle_provider_turn and handle_recovery_turn, a request that is not of the active
\* assignment and epoch, or whose id has another binding: the error closes the connection.
Reject(w) ==
  /\ w \in link /\ inbox[w] # <<>>
  /\ LET m == Head(inbox[w])
     IN ~Bound(w, m) \/ (~m.claim /\ ~Held(w) /\ Conflicts(w, m))
  /\ Disconnect(w)
  /\ UNCHANGED <<asks, spent, cuts>>

\* handle_provider_turn: reservation, and for a refusal the pause and the waiting state,
\* in one transaction that is committed before the answer.
Decide(w) ==
  /\ w \in link /\ inbox[w] # <<>>
  /\ LET m == Head(inbox[w])
         granted == Admissible(w, m)
     IN /\ ~m.claim /\ Bound(w, m) /\ (Held(w) \/ ~Conflicts(w, m))
        /\ ledger' = IF Recorded(w, m)
                     THEN ledger \cup {[id |-> m.id, role |-> w, number |-> m.number,
                                        resume |-> m.resume, granted |-> granted]}
                     ELSE ledger
        /\ paused' = (paused \/ (~Held(w) /\ Retained(m.id) = {} /\ ~granted))
        /\ IF granted THEN UNCHANGED <<workflow, task, waiting>> ELSE Refused(w)
        /\ outbox' = [outbox EXCEPT
             ![w] = Append(@, Reply(IF granted THEN "granted" ELSE "refused", m.id))]
  /\ inbox' = [inbox EXCEPT ![w] = Tail(@)]
  /\ UNCHANGED <<limits, link, bridge, asks, spent, cuts>>

\* handle_recovery_turn: the one reminder is used up, or the worker waits.
DecideClaim(w) ==
  /\ w \in link /\ inbox[w] # <<>>
  /\ LET m == Head(inbox[w])
         allowed == task[w].reminder = "reserved" /\ ~task[w].refused
     IN /\ m.claim /\ Bound(w, m)
        /\ IF allowed
           THEN /\ task' = [task EXCEPT ![w].reminder = "used"]
                /\ waiting' = waiting \ {w}
                /\ UNCHANGED workflow
           ELSE AwaitOperator(w, task[w])
        /\ outbox' = [outbox EXCEPT
             ![w] = Append(@, Reply(IF allowed THEN "claimed" ELSE "exhausted", m.id))]
  /\ inbox' = [inbox EXCEPT ![w] = Tail(@)]
  /\ UNCHANGED <<limits, paused, ledger, link, bridge, asks, spent, cuts>>

\* The agent settled and handle_settlement is done with it: the first time the worker is
\* reminded, which reserves the reminder; after that, or when refused, it waits.  A
\* reminder that no longer comes is "used" here, where the code counts settlements.
Settle(w) ==
  /\ Settles /\ w \in link
  /\ bridge[w].step = "idle" /\ inbox[w] = <<>> /\ Bound(w, bridge[w])
  /\ IF task[w].reminder = "none" /\ ~task[w].refused
     THEN /\ task' = [task EXCEPT ![w].reminder = "reserved", ![w].authorized = FALSE]
          /\ waiting' = waiting \cup {w}
          /\ outbox' = [outbox EXCEPT
               ![w] = Append(@, Tell("reminder", task[w].number, task[w].resume, FALSE))]
          /\ UNCHANGED workflow
     ELSE /\ AwaitOperator(w, [task[w] EXCEPT !.reminder = IF @ = "none" THEN "used" ELSE @])
          /\ UNCHANGED outbox
  /\ UNCHANGED <<limits, paused, ledger, link, bridge, inbox, asks, spent, cuts>>

Cut(w) ==
  /\ w \in link
  /\ cuts < MaxCuts /\ cuts' = cuts + 1
  /\ Disconnect(w)
  /\ UNCHANGED <<asks, spent>>

\* The broker is killed and started again: the database stays as it is.
Restart ==
  /\ cuts < MaxCuts /\ cuts' = cuts + 1
  /\ Drop(Workers)
  /\ UNCHANGED <<broker, asks, spent>>

\* hello and recover_role: the active assignment is delivered again with its epoch; one
\* that waits for the operator goes on waiting, and its reminder is used up.
Reconnect(w) ==
  /\ w \notin link
  /\ link' = link \cup {w}
  /\ outbox' = [outbox EXCEPT
       ![w] = <<Tell("assignment", task[w].number, task[w].resume, RecoveryWaits(w))>>]
  /\ IF RecoveryWaits(w)
     THEN AwaitOperator(w, [task[w] EXCEPT !.reminder = IF @ = "reserved" THEN "used" ELSE @])
     ELSE /\ waiting' = waiting \ {w}
          /\ UNCHANGED <<workflow, task>>
  /\ UNCHANGED <<limits, paused, ledger, bridge, inbox, asks, spent, cuts>>

\* The report on the assignment was accepted and the role is given the next one.
NextAssignment(w) ==
  /\ w \in link
  /\ bridge[w].step = "idle" /\ inbox[w] = <<>> /\ bridge[w].number = task[w].number
  /\ task[w].number < MaxAssignments
  /\ task' = [task EXCEPT ![w] = Assigned(@.number + 1)]
  /\ outbox' = [outbox EXCEPT ![w] = Append(@, Tell("assignment", task[w].number + 1, 0, FALSE))]
  /\ waiting' = waiting \ {w}
  /\ UNCHANGED <<limits, paused, workflow, ledger, link, bridge, inbox, asks, spent, cuts>>

\* send: guidance goes out and the assignment gets a new epoch; a run that needs
\* attention takes it only for a worker that waits, and goes on when it was the last.
Resume(w) ==
  /\ w \in link /\ task[w].resume < MaxResumes
  /\ workflow = "needs_attention" => w \in waiting
  /\ LET e == task[w].resume + 1
     IN /\ outbox' = [outbox EXCEPT ![w] = Append(@, Tell("guidance", task[w].number, e, FALSE))]
        /\ task' = [task EXCEPT ![w].resume = e, ![w].authorized = TRUE]
  /\ IF workflow = "needs_attention"
     THEN /\ waiting' = waiting \ {w}
          /\ workflow' = IF waiting \subseteq {w} THEN Published ELSE workflow
     ELSE UNCHANGED <<waiting, workflow>>
  /\ UNCHANGED <<limits, paused, ledger, link, bridge, inbox, asks, spent, cuts>>

\* Broken: a ceiling that would pass the maximum stays, the others are raised (CeilingsMoveTogether).
Raised(extra) == [s \in DOMAIN limits |-> IF limits[s] + extra <= MaxAllowance
                                          THEN limits[s] + extra ELSE limits[s]]

\* Every ceiling is raised by the same amount.
Extended(extra) == [s \in DOMAIN limits |-> limits[s] + extra]

\* Broken: nobody looks whether a raised ceiling is still permitted (TypeOK).
ExtendUnlimited(extra) ==
  /\ paused
  /\ limits' = Extended(extra)
  /\ paused' = FALSE
  /\ UNCHANGED <<workflow, ledger, task, waiting, link, bridge, inbox, outbox, asks, spent, cuts>>

\* extend_call_allowance; a ceiling that would pass the maximum makes the whole fail.
Extend(extra) ==
  /\ paused
  /\ extra <= MaxAllowance
  /\ \A s \in DOMAIN limits : Extended(extra)[s] <= MaxAllowance
  /\ limits' = Extended(extra)
  /\ paused' = FALSE
  /\ UNCHANGED <<workflow, ledger, task, waiting, link, bridge, inbox, outbox, asks, spent, cuts>>

-----------------------------------------------------------------------------
Next ==
  \/ \E w \in Workers : \/ Ask(w) \/ GiveUp(w) \/ Receive(w)
                        \/ Abort(w) \/ ClaimReminder(w) \/ Dispatch(w)
                        \/ Reject(w) \/ Decide(w) \/ DecideClaim(w) \/ Settle(w) \/ Reconnect(w)
                        \/ NextAssignment(w) \/ Resume(w) \/ Cut(w)
  \/ Restart
  \/ \E extra \in Extras : Extend(extra)

Spec == Init /\ [][Next]_vars

-----------------------------------------------------------------------------
(* Properties.                                                             *)

\* However requests of several workers, repetitions, lost answers, restarts and extensions
\* interleave: no turn is ever granted with which its run, role or assignment has more
\* turns than the ceiling of that scope.
WithinCeilings ==
  \A row \in Granted, s \in DOMAIN limits :
    Cardinality(Counted(s, row.role, row.number)) <= limits[s]

\* Every provider turn a worker dispatches has a reservation of its own, so the ceilings
\* bound what is dispatched and not only what is granted.
TurnsAreReserved == \A i \in Ids : spent[i] <= Cardinality({row \in Granted : row.id = i})

\* A turn is dispatched for the assignment that its reservation is charged to, and for
\* its epoch, also when guidance or the next assignment crosses the request.  Only a turn
\* that waited for a second answer may be charged to an epoch that has just ended.
ChargedRight ==
  \A i \in Ids : spent'[i] # spent[i] =>
    \E row \in Granted :
      LET b == bridge[row.role]
      IN /\ row.id = i /\ row.number = b.number
         /\ row.resume = b.resume \/ (b.step = "claimed" /\ row.resume < b.resume)
TurnsAreChargedRight == [][ChargedRight]_vars

\* Stale authorization aborts: no turn is dispatched in an epoch that its reservation is
\* not charged to.  What the bridge's comparison is for; it fails when guidance crosses
\* the answer to a recovery claim (orchestrator-worker.js:673-676).
ChargedToEpoch ==
  \A i \in Ids : spent'[i] # spent[i] =>
    \E row \in Granted : row.id = i /\ row.resume = bridge[row.role].resume

\* A refusal ends the epoch: the worker gets no further turn on the assignment, whatever
\* ceilings are raised, until an operator resumes it.
RefusalEndsEpoch ==
  \A x, y \in ledger :
    (x.role = y.role /\ x.number = y.number /\ x.resume = y.resume /\ ~x.granted /\ y.granted)
      => y.id < x.id

\* While the pause holds, or a connected worker is held back, the run says so.
RefusalIsShown ==
  (paused \/ \E w \in link : Held(w)) => workflow = "needs_attention"

\* An extension raises every ceiling by the same amount or none at all.
CeilingsMoveTogether ==
  \E e \in 0..MaxAllowance : \A s \in DOMAIN limits : limits[s] = Ceilings[s] + e

=============================================================================
