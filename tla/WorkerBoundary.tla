--------------------------- MODULE WorkerBoundary ---------------------------
(***************************************************************************)
(* One role: the broker, the worker process with its bridge, the socket    *)
(* between them, an operator who guides the worker and who restarts it.    *)
(*                                                                         *)
(* The broker hands out assignments, is told of reports, settlements and   *)
(* calls for attention, gives one reminder, and hands the assignment of a  *)
(* role over to a replacement process.  What it knows is in a database;    *)
(* what the bridge knows is in the journal of its Pi session, which a      *)
(* replacement reopens.  Connections break, answers come too late, the     *)
(* broker is killed and started again.                                     *)
(*                                                                         *)
(* A lifecycle frame of one role only moves it between idle and active,    *)
(* which are one state here: "up".                                         *)
(***************************************************************************)
EXTENDS Naturals, Sequences, FiniteSets

CONSTANTS
  MaxAssignments, \* bound: assignments of the role
  MaxRuns,        \* bound: agent runs
  MaxSends,       \* bound: operator messages
  MaxRestarts,    \* bound: restarts asked for
  MaxFaults,      \* bound: connections lost, answers late, broker deaths
  Suspends        \* a drain or a broadcast may suspend the coroutine

\* Assumed of the constants by every module that instantiates this one.
ConstantAssumption ==
  /\ MaxAssignments \in Nat \ {0} /\ MaxRuns \in Nat /\ MaxSends \in Nat
  /\ MaxRestarts \in Nat /\ MaxFaults \in Nat /\ Suspends \in BOOLEAN

VARIABLES
  asg,        \* the active assignment and its attention columns; number 0: none
  closed,     \* numbers of the assignments with an accepted report
  role,       \* roles.state
  workflow,   \* meta.workflow_state
  generation, \* roles.generation
  client,     \* generation of the registered connection, 0: none
  closing,    \* the broker has closed its side of it
  todo,       \* what the connection's coroutine does when it is resumed
  baseline,   \* worker_baselines: lost with the broker's process
  link,       \* generation of the process at the other end of the socket, 0: none
  inbox,      \* frames under way to the broker
  outbox,     \* frames under way to the bridge
  wk,         \* the bridge, as its session journal has it
  got,        \* deliveries it accepted: number and generation of the delivery id
  run,        \* the agent's run: the assignment and epoch it was started in
  due,        \* messages wait for a run
  ask,        \* the request its agent waits for
  settling,   \* the settlement whose answer is awaited, 0: none
  late,       \* requests that were given up and whose answer is still to come
  greeted,    \* hello was answered, what follows it was not done yet
  process,    \* generation of the worker process
  cli,        \* the restart command: "none", "respawn" is next, it "failed"
  runs, sends, faults, \* counters
  turns,      \* per assignment, recovery turns granted
  heard       \* operator messages the worker was given

database == <<asg, closed, role, workflow, generation>>
broker   == <<client, closing, todo, baseline>>
wire     == <<link, inbox, outbox>>
bridge   == <<wk, got, run, due, ask, settling, late, greeted>>
operator == <<process, cli>>
history  == <<runs, sends, faults, turns, heard>>
vars     == <<database, broker, wire, bridge, operator, history>>

Numbers     == 1..MaxAssignments
Epochs      == 0..MaxSends             \* resume_id; 0: none
Generations == 1..(MaxRestarts + 1)
Settlements == 0..MaxRuns
Requests    == {"report", "attention", "turn", "settlement"}

Assignment == [n : 0..MaxAssignments, state : {"delivering", "accepted", "uncertain"},
               delivery : Generations, resume : Epochs, authorized : BOOLEAN,
               reminder : {"none", "reserved", "used"}, attention : BOOLEAN,
               count : 0..2, last : Settlements]
NoAsg == [n |-> 0, state |-> "accepted", delivery |-> 1, resume |-> 0, authorized |-> FALSE,
          reminder |-> "none", attention |-> FALSE, count |-> 0, last |-> 0]
Idle  == [n |-> 0, resume |-> 0, recovery |-> FALSE, seen |-> FALSE, settlement |-> 0]
NoRun == [on |-> FALSE, n |-> 0, resume |-> 0, admitted |-> FALSE, over |-> FALSE]
NoAsk == [kind |-> "none", n |-> 0, stale |-> FALSE]
Done  == [kind |-> "none", a |-> NoAsg, handover |-> FALSE]

\* Frames: number, the generation of a delivery id or a settlement id, epoch.
ToBroker(kind, n, id, e)  == [kind |-> kind, n |-> n, id |-> id, resume |-> e]
Told(kind, n, e)          == [kind |-> kind, n |-> n, id |-> 0, resume |-> e, sync |-> FALSE,
                              waiting |-> FALSE, ok |-> TRUE]
Answer(kind, ok)          == [Told(kind, 0, 0) EXCEPT !.ok = ok]
Delivery(a, sync, waits)  == [Told("assignment", a.n, a.resume) EXCEPT !.id = a.delivery,
                                                          !.sync = sync, !.waiting = waits]

TypeOK ==
  /\ asg \in Assignment
  /\ closed \subseteq Numbers
  /\ role \in {"up", "waiting", "restarting", "recovering", "uncertain", "disconnected"}
  /\ workflow \in {"active", "needs_attention", "uncertain"}
  /\ generation \in Generations
  /\ client \in {0} \cup Generations /\ closing \in BOOLEAN /\ baseline \in BOOLEAN
  /\ todo \in [kind : {"none", "remind", "baseline", "resend"}, a : Assignment, handover : BOOLEAN]
  /\ link \in {0} \cup Generations
  /\ wk \in [n : 0..MaxAssignments, resume : Epochs, recovery : BOOLEAN, seen : BOOLEAN,
             settlement : Settlements]
  /\ got \subseteq Numbers \X Generations
  /\ run \in [on : BOOLEAN, n : 0..MaxAssignments, resume : Epochs, admitted : BOOLEAN, over : BOOLEAN]
  /\ due \in BOOLEAN /\ greeted \in BOOLEAN
  /\ ask \in [kind : {"none"} \cup Requests, n : 0..MaxAssignments, stale : BOOLEAN]
  /\ settling \in Settlements /\ late \subseteq Requests
  /\ process \in Generations
  /\ cli \in {"none", "respawn", "failed"}
  /\ runs \in 0..MaxRuns /\ sends \in 0..MaxSends /\ faults \in 0..MaxFaults
  /\ turns \in [Numbers -> Nat] /\ heard \subseteq 1..MaxSends

\* A role without an assignment whose first worker is connected and has its baseline.
Init ==
  /\ asg = NoAsg /\ closed = {}
  /\ role = "up" /\ workflow = "active" /\ generation = 1
  /\ client = 1 /\ closing = FALSE /\ todo = Done /\ baseline = TRUE
  /\ link = 1 /\ inbox = <<>> /\ outbox = <<>>
  /\ wk = Idle /\ got = {} /\ run = NoRun /\ due = FALSE /\ ask = NoAsk
  /\ settling = 0 /\ late = {} /\ greeted = FALSE
  /\ process = 1 /\ cli = "none"
  /\ runs = 0 /\ sends = 0 /\ faults = 0
  /\ turns = [n \in Numbers |-> 0] /\ heard = {}

-----------------------------------------------------------------------------
(* What a handler does to the database, what it writes and how it goes on. *)

Now == [asg |-> asg, role |-> role, workflow |-> workflow, out |-> <<>>, todo |-> Done]

\* A frame is lost on a connection that is gone.
Become(x) ==
  /\ asg' = x.asg /\ role' = x.role /\ workflow' = x.workflow /\ todo' = x.todo
  /\ outbox' = IF link = client /\ ~closing THEN outbox \o x.out ELSE outbox

\* _attention_waiting
Waits(x) == [x EXCEPT !.asg.authorized = FALSE, !.role = "waiting",
                      !.workflow = IF @ = "uncertain" THEN @ ELSE "needs_attention"]

\* _mark_handover_uncertain
Doubted(x) == [x EXCEPT !.role = "uncertain", !.workflow = "uncertain"]

\* recover_role: after a reconnection the assignment waits for the operator
RecoveryWaits(a) == ~a.authorized /\ (a.reminder # "none" \/ a.attention)

\* Broken: the replacement is sent the delivery that was acknowledged (HandoverIsProven).
NotRotated(x, handover) == x

\* Broken: the rotated delivery counts as accepted (AcceptedIsReceived).
RotatedUnproven(x, handover) == IF handover THEN [x EXCEPT !.asg.delivery = generation] ELSE x

\* A handover rotates the delivery id, which must be acknowledged once more.
Rotated(x, handover) == IF handover
                        THEN [x EXCEPT !.asg.delivery = generation, !.asg.state = "delivering"] ELSE x

\* Broken: the assignment is delivered again without its epoch (EpochIsLearned).
ResentUnsynced(x, a, handover) ==
  LET y == Rotated(x, handover)
  IN [y EXCEPT !.out = Append(@, Delivery([a EXCEPT !.delivery = y.asg.delivery], FALSE, RecoveryWaits(a)))]

\* Broken: the assignment is delivered again as before any guidance (EpochsGoForward).
ResentAnew(x, a, handover) ==
  LET y == Rotated(x, handover)
  IN [y EXCEPT !.out = Append(@, Delivery([a EXCEPT !.delivery = y.asg.delivery, !.resume = 0], TRUE, RecoveryWaits(a)))]

\* recover_role, end: a is the assignment as it was read at the beginning.
Resent(x, a, handover) ==
  LET y == Rotated(x, handover)
  IN [y EXCEPT !.out = Append(@, Delivery([a EXCEPT !.delivery = y.asg.delivery], TRUE, RecoveryWaits(a)))]

\* A reminder that was reserved may have been sent.
ConsumesReminder(x) == IF x.asg.reminder = "reserved" THEN [x EXCEPT !.asg.reminder = "used"] ELSE x

\* recover_role, from the replay of the baseline on
Replayed(x, a, handover) ==
  IF a.n = 0
  THEN [x EXCEPT !.out = IF closed = {} THEN @ ELSE Append(@, Told("closed", Cardinality(closed), 0)),
                 !.role = IF handover THEN "up" ELSE @]
  ELSE IF ~RecoveryWaits(a) THEN Resent(x, a, handover)
  ELSE LET y == Waits(ConsumesReminder(x))
       IN IF Suspends THEN [y EXCEPT !.todo = [kind |-> "resend", a |-> a, handover |-> handover]]
          ELSE Resent(y, a, handover)

\* recover_role: what was delivered without an acknowledgement is not replayed.
Recovered(x, handover) ==
  IF asg.n # 0 /\ asg.state # "accepted" THEN Doubted([x EXCEPT !.asg.state = "uncertain"])
  ELSE IF ~handover THEN Replayed(x, asg, FALSE)
  ELSE IF ~baseline THEN Doubted(x)
  ELSE IF Suspends THEN [x EXCEPT !.todo = [kind |-> "baseline", a |-> asg, handover |-> TRUE]]
  ELSE Replayed(x, asg, TRUE)

-----------------------------------------------------------------------------
(* The socket.                                                             *)

\* The bridge sees its connection close: whoever waits for an answer is told of a failure.
CloseBridge ==
  /\ link' = 0 /\ inbox' = <<>> /\ outbox' = <<>>
  /\ ask' = NoAsk /\ settling' = 0 /\ late' = {} /\ greeted' = FALSE
  /\ run' = IF ask.kind = "none" THEN run
            ELSE [run EXCEPT !.admitted = FALSE, !.over = (ask.kind = "turn")]
  /\ UNCHANGED <<wk, got, due>>

\* Broken: the connection that a restart closed makes its role disconnected (RestartIsKept).
LosesRestart(x) ==
  IF x.role = "recovering" /\ client = generation THEN Doubted(x)
  ELSE IF x.role = "uncertain" THEN x ELSE [x EXCEPT !.role = "disconnected"]

\* handle_client, finally: what the role is after its connection is gone.
AfterLoss(x) ==
  IF x.role = "recovering" /\ client = generation THEN Doubted(x)
  ELSE IF x.role \in {"restarting", "recovering", "uncertain"} THEN x
  ELSE [x EXCEPT !.role = "disconnected"]

\* The handler fails, or the socket is found dead; x is what was committed before.
DisconnectAfter(x) ==
  /\ LET y == AfterLoss(x) IN asg' = y.asg /\ role' = y.role /\ workflow' = y.workflow
  /\ client' = 0 /\ closing' = FALSE /\ todo' = Done
  /\ IF link = client THEN CloseBridge ELSE UNCHANGED <<wire, bridge>>
  /\ UNCHANGED <<closed, generation, baseline>>

Disconnect == DisconnectAfter(Now)

Cut ==
  /\ link # 0 /\ faults < MaxFaults
  /\ CloseBridge
  /\ faults' = faults + 1
  /\ UNCHANGED <<database, broker, operator, runs, sends, turns, heard>>

Notice ==
  /\ client # 0 /\ todo = Done
  /\ link # client \/ closing
  /\ Disconnect
  /\ UNCHANGED <<operator, history>>

-----------------------------------------------------------------------------
(* Connections.                                                            *)

\* hello: only of the current generation, and one connection at a time
Hello ==
  /\ link = 0 /\ client = 0 /\ process = generation
  /\ LET handover == role = "restarting"
         x == [Now EXCEPT !.role = IF handover THEN "recovering" ELSE "up",
                          !.out = <<Told("welcome", 0, 0)>>]
         y == IF role = "recovering" THEN Doubted(x) ELSE Recovered(x, handover)
     IN asg' = y.asg /\ role' = y.role /\ workflow' = y.workflow /\ todo' = y.todo /\ outbox' = y.out
  /\ client' = process /\ link' = process /\ inbox' = <<>>
  /\ UNCHANGED <<closed, generation, closing, baseline, bridge, operator, history>>

\* recover_role goes on with what it read before it was suspended.
Continue ==
  /\ todo.kind \in {"baseline", "resend"} /\ link = client /\ ~closing
  /\ IF todo.kind = "baseline" THEN Become(Replayed(Now, todo.a, TRUE))
     ELSE Become(Resent(Now, todo.a, todo.handover))
  /\ UNCHANGED <<closed, generation, client, closing, baseline, link, inbox, bridge, operator, history>>

\* A drain of a dead socket fails; what precedes the write is committed.
ContinueFails ==
  /\ todo.kind \in {"baseline", "resend"} /\ (link # client \/ closing)
  /\ DisconnectAfter(IF todo.kind = "baseline" THEN Now ELSE Rotated(Now, todo.handover))
  /\ UNCHANGED <<operator, history>>

\* The broker is killed; the next one marks interrupted handovers before it listens.
BrokerDies ==
  /\ faults < MaxFaults /\ faults' = faults + 1
  /\ LET x == IF role \in {"restarting", "recovering"} THEN Doubted(Now) ELSE Now
     IN role' = x.role /\ workflow' = x.workflow
  /\ client' = 0 /\ closing' = FALSE /\ todo' = Done /\ baseline' = FALSE
  /\ IF link = 0 THEN UNCHANGED <<wire, bridge>> ELSE CloseBridge
  /\ UNCHANGED <<asg, closed, generation, operator, runs, sends, turns, heard>>

-----------------------------------------------------------------------------
(* Messages, as the broker handles them.                                   *)

Message(kinds) ==
  /\ client # 0 /\ todo = Done /\ inbox # <<>> /\ Head(inbox).kind \in kinds
Message1 == Head(inbox)

\* _active_attention_assignment
Bound(f) == /\ asg.n # 0 /\ f.n = asg.n /\ f.resume = asg.resume
            /\ asg.state \in {"delivering", "accepted"}

\* _handle_report: of the active assignment, or one that was accepted before
Reportable(f) == f.n \in closed \/ (f.n = asg.n /\ asg.state \in {"delivering", "accepted"})

Handled(x) ==
  /\ client = generation
  /\ Become(x)
  /\ inbox' = Tail(inbox)
  /\ UNCHANGED <<generation, client, closing, baseline, link, bridge, operator, runs, sends, faults, heard>>

\* A stale generation, or a message that is not of the active assignment and epoch:
\* the error is reported and the connection closed.
Reject ==
  /\ Message({"ack", "unsure", "report", "settlement", "attention", "turn"})
  /\ LET f == Message1
     IN \/ client # generation
        \/ f.kind = "report" /\ ~Reportable(f)
        \/ f.kind \in {"settlement", "attention", "turn"} /\ ~Bound(f)
  /\ Disconnect
  /\ UNCHANGED <<operator, history>>

\* An acknowledgement counts only for the delivery that is current.
Current(f) == asg.n # 0 /\ f.n = asg.n /\ f.id = asg.delivery

\* handle_delivery_ack
HandleAck ==
  /\ Message({"ack", "unsure"})
  /\ LET f == Message1
     IN Handled(IF ~Current(f) THEN Now
                ELSE IF f.kind = "unsure" THEN Doubted([Now EXCEPT !.asg.state = "uncertain"])
                ELSE [Now EXCEPT !.asg.state = "accepted",
                                 !.role = IF @ \in {"disconnected", "recovering"} THEN "up" ELSE @])
  /\ UNCHANGED <<closed, turns>>

\* _handle_report
HandleReport ==
  /\ Message({"report"})
  /\ LET f == Message1
     IN /\ Reportable(f)
        /\ Handled([IF f.n \in closed THEN Now ELSE [Now EXCEPT !.asg = NoAsg, !.role = "up"]
                    EXCEPT !.out = <<Answer("report", TRUE)>>])
        /\ closed' = closed \cup {f.n}
  /\ UNCHANGED turns

\* Broken: a settlement is counted each time it is received (SettlementsAreRuns).
NeverDuplicate(f) == FALSE

Duplicate(f) == asg.last = f.id

\* Broken: the count is not saturated (TypeOK).
Unsaturated(count) == count + 1

Counted(count) == IF count = 2 THEN 2 ELSE count + 1

\* The first settlement of an assignment without a report or attention is answered by a reminder.
Reminds == asg.count = 0 /\ asg.reminder = "none" /\ ~asg.attention

\* handle_settlement
HandleSettlement ==
  /\ Message({"settlement"})
  /\ LET f == Message1
         counted == [Now EXCEPT !.out = <<Answer("settlement", TRUE)>>, !.asg.last = f.id,
                                !.asg.count = Counted(@)]
         reserved == [counted EXCEPT !.asg.reminder = "reserved", !.asg.authorized = FALSE,
                                     !.role = "waiting"]
     IN /\ Bound(f)
        /\ Handled(IF Duplicate(f) THEN [Now EXCEPT !.out = <<Answer("settlement", TRUE)>>]
                   ELSE IF ~Reminds THEN Waits(counted)
                   ELSE IF Suspends
                   THEN [reserved EXCEPT !.todo = [kind |-> "remind", a |-> asg, handover |-> FALSE]]
                   ELSE [reserved EXCEPT !.out = Append(@, Told("reminder", f.n, f.resume))])
  /\ UNCHANGED <<closed, turns>>

Remind ==
  /\ todo.kind = "remind" /\ link = client /\ ~closing
  /\ Become([Now EXCEPT !.out = <<Told("reminder", todo.a.n, todo.a.resume)>>])
  /\ UNCHANGED <<closed, generation, client, closing, baseline, link, inbox, bridge, operator, history>>

\* handle_settlement, except: the reminder may or may not have been sent.
RemindFails ==
  /\ todo.kind = "remind" /\ (link # client \/ closing)
  /\ \/ DisconnectAfter(Waits([Now EXCEPT !.asg.reminder = "used"]))
     \/ Disconnect \* the answer to the settlement failed already
  /\ UNCHANGED <<operator, history>>

\* handle_attention
HandleAttention ==
  /\ Message({"attention"})
  /\ Bound(Message1)
  /\ LET x == [Now EXCEPT !.out = <<Answer("attention", TRUE)>>]
     IN Handled(IF asg.attention /\ ~asg.authorized THEN x ELSE Waits([x EXCEPT !.asg.attention = TRUE]))
  /\ UNCHANGED <<closed, turns>>

\* Broken: the turn is granted and the reminder stays reserved (ReminderOnce).
StaysReserved == "reserved"

Consumed == "used"

\* handle_recovery_turn
HandleTurn ==
  /\ Message({"turn"})
  /\ Bound(Message1)
  /\ LET granted == asg.reminder = "reserved" /\ ~asg.attention
         x == [Now EXCEPT !.out = <<Answer("turn", granted)>>]
     IN /\ Handled(IF granted THEN [x EXCEPT !.asg.reminder = Consumed, !.role = "up"] ELSE Waits(x))
        /\ turns' = IF granted THEN [turns EXCEPT ![asg.n] = @ + 1] ELSE turns
  /\ UNCHANGED closed

-----------------------------------------------------------------------------
(* The broker by itself, and the operator.                                 *)

\* assign: the role gets its next assignment.
Assign ==
  /\ client # 0 /\ asg.n = 0 /\ Cardinality(closed) < MaxAssignments
  /\ LET a == [NoAsg EXCEPT !.n = Cardinality(closed) + 1, !.state = "delivering", !.delivery = generation]
     IN Become([Now EXCEPT !.asg = a, !.role = "up", !.todo = todo, !.out = <<Delivery(a, FALSE, FALSE)>>,
                           !.workflow = IF @ = "uncertain" THEN @ ELSE "active"])
  /\ UNCHANGED <<closed, generation, client, closing, baseline, link, inbox, bridge, operator, history>>

\* send: a run that needs attention takes guidance only for a worker that waits.
Send ==
  /\ client # 0 /\ asg.n # 0 /\ sends < MaxSends
  /\ workflow = "needs_attention" => role = "waiting" /\ asg.state = "accepted"
  /\ LET x == [Now EXCEPT !.asg.resume = sends + 1, !.asg.authorized = TRUE, !.todo = todo,
                          !.out = <<Told("guidance", asg.n, sends + 1)>>]
     IN Become(IF workflow = "needs_attention" THEN [x EXCEPT !.role = "up", !.workflow = "active"] ELSE x)
  /\ sends' = sends + 1
  /\ UNCHANGED <<closed, generation, client, closing, baseline, link, inbox, bridge, operator,
                 runs, faults, turns, heard>>

\* restart: the next generation, and the connection of the present one is closed.
Restart ==
  /\ cli = "none" /\ baseline /\ generation <= MaxRestarts
  /\ generation' = generation + 1 /\ role' = "restarting"
  /\ closing' = (client # 0)
  /\ cli' = "respawn"
  /\ UNCHANGED <<asg, closed, workflow, client, todo, baseline, wire, bridge, process, history>>

\* respawn-pane: the process is replaced; the replacement reopens the session.  The
\* command may take it for failed, whether or not it was done.
Respawn ==
  /\ cli = "respawn"
  /\ process' = generation
  /\ IF link = 0 THEN UNCHANGED <<link, inbox, outbox, ask, settling, late, greeted>>
     ELSE link' = 0 /\ inbox' = <<>> /\ outbox' = <<>> /\ ask' = NoAsk /\ settling' = 0 /\ late' = {}
          /\ greeted' = FALSE
  /\ run' = NoRun /\ due' = FALSE
  /\ cli' \in {"none", "failed"}
  /\ UNCHANGED <<database, broker, wk, got, history>>

RespawnFails ==
  /\ cli = "respawn" /\ cli' = "failed"
  /\ UNCHANGED <<database, broker, wire, bridge, process, history>>

\* restart_failed
RestartFailed ==
  /\ cli = "failed" /\ cli' = "none"
  /\ IF role \in {"restarting", "recovering"} THEN role' = "uncertain" /\ workflow' = "uncertain"
     ELSE UNCHANGED <<role, workflow>>
  /\ UNCHANGED <<asg, closed, generation, broker, wire, bridge, process, history>>

-----------------------------------------------------------------------------
(* The bridge.                                                             *)

Up == link # 0
Say(frames) == inbox' = IF Up THEN inbox \o frames ELSE inbox

\* The epoch the broker tells: what is under way in another epoch is forgotten.
Synced(x, f) ==
  IF ~f.sync THEN x
  ELSE [x EXCEPT !.resume = f.resume, !.recovery = f.waiting, !.seen = @ \/ f.waiting,
                 !.settlement = IF f.resume = x.resume THEN @ ELSE 0]

Hear(kinds) == Up /\ outbox # <<>> /\ Head(outbox).kind \in kinds

Heard ==
  /\ outbox' = Tail(outbox)
  /\ UNCHANGED <<database, broker, link, operator, runs, sends, faults, turns>>

NewEpoch(f) == f.resume # wk.resume

\* What an answer is for has been left behind when it comes.
Stale(x) == [x EXCEPT !.stale = (x # NoAsk)]

\* acceptDelivery, an assignment
HearAssignment ==
  /\ Hear({"assignment"})
  /\ LET f == Head(outbox)
         mine == f.n = wk.n
         x == IF mine THEN wk ELSE [Idle EXCEPT !.n = f.n]
     IN IF <<f.n, f.id>> \in got
        THEN \* a duplicate
             /\ wk' = IF mine THEN Synced(wk, f) ELSE wk
             /\ ask' = IF mine /\ f.sync /\ NewEpoch(f) THEN Stale(ask) ELSE ask
             /\ Say(<<ToBroker("ack", f.n, f.id, 0)>>)
             /\ UNCHANGED <<got, due>>
        ELSE IF ~mine /\ \E d \in got : d[1] = f.n
        THEN \* its journal knows the assignment and it is not active
             /\ Say(<<ToBroker("unsure", f.n, f.id, 0)>>)
             /\ UNCHANGED <<wk, ask, got, due>>
        ELSE /\ wk' = Synced(x, f)
             /\ ask' = IF f.sync /\ f.resume # x.resume THEN Stale(ask) ELSE ask
             /\ got' = got \cup {<<f.n, f.id>>}
             /\ due' = (due \/ ~f.waiting)
             /\ Say(<<ToBroker("ack", f.n, f.id, 0)>>)
  /\ Heard
  /\ UNCHANGED <<run, settling, late, greeted, heard>>

\* acceptOperatorGuidance; guidance for another assignment is refused
HearGuidance ==
  /\ Hear({"guidance"})
  /\ LET f == Head(outbox)
     IN IF f.n = wk.n
        THEN /\ wk' = [wk EXCEPT !.resume = f.resume, !.recovery = FALSE, !.settlement = 0]
             /\ ask' = Stale(ask)
             /\ due' = TRUE
             /\ heard' = heard \cup {f.resume}
        ELSE UNCHANGED <<wk, ask, due, heard>>
  /\ Heard
  /\ UNCHANGED <<inbox, got, run, settling, late, greeted>>

\* acceptReminder: once, of this epoch, journaled before the turn is scheduled
HearReminder ==
  /\ Hear({"reminder"})
  /\ LET f == Head(outbox)
     IN IF f.n = wk.n /\ f.resume = wk.resume /\ ~wk.recovery /\ ~wk.seen
        THEN wk' = [wk EXCEPT !.recovery = TRUE, !.seen = TRUE] /\ due' = TRUE
        ELSE UNCHANGED <<wk, due>>
  /\ Heard
  /\ UNCHANGED <<inbox, got, run, ask, settling, late, greeted, heard>>

\* Broken: that the assignment is closed is only noted (LostReportIsLearned).
IgnoresClosed ==
  /\ Hear({"closed"})
  /\ Heard
  /\ UNCHANGED <<inbox, wk, got, run, due, ask, settling, late, greeted, heard>>

\* acceptClosedAssignment
HearClosed ==
  /\ Hear({"closed"})
  /\ wk' = IF Head(outbox).n = wk.n THEN Idle ELSE wk
  /\ Heard
  /\ UNCHANGED <<inbox, got, run, due, ask, settling, late, greeted, heard>>

\* The answer to hello: the lifecycle and the settlement follow in a task of their own.
HearWelcome ==
  /\ Hear({"welcome"})
  /\ greeted' = TRUE
  /\ Heard
  /\ UNCHANGED <<inbox, wk, got, run, due, ask, settling, late, heard>>

\* acceptResponse, and what its waiter does
HearAnswer ==
  /\ Hear(Requests)
  /\ LET f == Head(outbox)
     IN IF f.kind \in late
        THEN late' = late \ {f.kind} /\ UNCHANGED <<wk, run, ask, settling>>
        ELSE IF f.kind = "settlement"
        THEN /\ wk' = IF wk.settlement = settling THEN [wk EXCEPT !.settlement = 0] ELSE wk
             /\ settling' = 0
             /\ UNCHANGED <<run, ask, late>>
        ELSE /\ wk' = CASE f.kind = "report" /\ wk.n = ask.n -> Idle
                        [] f.kind = "attention" /\ wk.n = ask.n /\ ~ask.stale -> [wk EXCEPT !.recovery = TRUE]
                        [] OTHER -> wk
             /\ run' = IF f.kind = "turn" /\ f.ok THEN [run EXCEPT !.admitted = TRUE]
                       ELSE [run EXCEPT !.admitted = FALSE, !.over = TRUE]
             /\ ask' = NoAsk
             /\ UNCHANGED <<settling, late>>
  /\ Heard
  /\ UNCHANGED <<inbox, got, due, greeted, heard>>

\* submitSettlement
Submit(x) ==
  IF x.settlement # 0 /\ x.n # 0 /\ Up
  THEN Say(<<ToBroker("settlement", x.n, x.settlement, x.resume)>>) /\ settling' = x.settlement
  ELSE UNCHANGED <<inbox, settling>>

AfterHello ==
  /\ greeted /\ greeted' = FALSE
  /\ Submit(wk)
  /\ UNCHANGED <<database, broker, link, outbox, wk, got, run, due, ask, late, operator, history>>

\* agent_start; what arrives in a run is for the next one
StartRun ==
  /\ due /\ ~run.on /\ runs < MaxRuns
  /\ run' = [NoRun EXCEPT !.on = TRUE, !.n = wk.n, !.resume = wk.resume]
  /\ due' = FALSE /\ runs' = runs + 1
  /\ UNCHANGED <<database, broker, wire, wk, got, ask, settling, late, greeted, operator,
                 sends, faults, turns, heard>>

Request(kind) ==
  IF Up /\ kind \notin late
  THEN /\ ask' = [kind |-> kind, n |-> wk.n, stale |-> FALSE]
       /\ Say(<<ToBroker(kind, wk.n, 0, wk.resume)>>)
       /\ run' = run
  ELSE /\ run' = [run EXCEPT !.admitted = FALSE, !.over = (kind = "turn")]
       /\ UNCHANGED <<ask, inbox>>

\* before_provider_request: each request of a recovery has to be granted.
ProviderRequest ==
  /\ run.on /\ ~run.over /\ ask = NoAsk
  /\ IF wk.n # 0 /\ wk.recovery THEN Request("turn")
     ELSE run' = [run EXCEPT !.admitted = TRUE] /\ UNCHANGED <<ask, inbox>>
  /\ UNCHANGED <<database, broker, link, outbox, wk, got, due, settling, late, greeted, operator, history>>

\* The report tool and the attention tool
Tool ==
  /\ run.on /\ run.admitted /\ wk.n # 0 /\ ask = NoAsk
  /\ \E kind \in {"report", "attention"} : Request(kind)
  /\ UNCHANGED <<database, broker, link, outbox, wk, got, due, settling, late, greeted, operator, history>>

\* A run settles the assignment and the epoch it was started in.
Settles == wk.n # 0 /\ run.n = wk.n /\ run.resume = wk.resume

\* agent_settled
EndRun ==
  /\ run.on /\ ask = NoAsk
  /\ LET x == IF Settles /\ wk.settlement = 0 THEN [wk EXCEPT !.settlement = runs] ELSE wk
     IN /\ wk' = x
        /\ IF Settles THEN Submit(x) ELSE UNCHANGED <<inbox, settling>>
  /\ run' = NoRun
  /\ UNCHANGED <<database, broker, link, outbox, got, due, ask, late, greeted, operator, history>>

\* brokerRequest: no answer within ten seconds
GiveUp ==
  /\ faults < MaxFaults /\ faults' = faults + 1
  /\ \/ /\ ask # NoAsk
        /\ late' = late \cup {ask.kind} /\ ask' = NoAsk
        /\ run' = [run EXCEPT !.admitted = FALSE, !.over = (ask.kind = "turn")]
        /\ UNCHANGED settling
     \/ /\ settling # 0 /\ "settlement" \notin late
        /\ late' = late \cup {"settlement"} /\ settling' = 0
        /\ UNCHANGED <<run, ask>>
  /\ UNCHANGED <<database, broker, wire, wk, got, due, greeted, operator, runs, sends, turns, heard>>

-----------------------------------------------------------------------------
Broker ==
  \/ Hello \/ Continue \/ ContinueFails \/ Notice \/ BrokerDies \/ Cut
  \/ Reject \/ HandleAck \/ HandleReport \/ HandleSettlement \/ Remind \/ RemindFails
  \/ HandleAttention \/ HandleTurn
  \/ Assign \/ Send \/ Restart \/ Respawn \/ RespawnFails \/ RestartFailed

Worker ==
  \/ HearAssignment \/ HearGuidance \/ HearReminder \/ HearClosed \/ HearWelcome \/ HearAnswer
  \/ AfterHello \/ StartRun \/ ProviderRequest \/ Tool \/ EndRun \/ GiveUp

Next == Broker \/ Worker

Spec == Init /\ [][Next]_vars

-----------------------------------------------------------------------------
(* Properties.                                                             *)

\* Nothing is under way between the bridge of the current generation and the broker, the
\* agent does nothing, and nobody calls the role uncertain.
Quiet ==
  /\ link = generation /\ client = generation /\ ~closing /\ todo = Done /\ cli = "none"
  /\ inbox = <<>> /\ outbox = <<>> /\ ~greeted
  /\ ~run.on /\ ~due /\ ask = NoAsk /\ settling = 0
  /\ role # "uncertain"

\* An assignment has one recovery turn: a settlement that is sent again, a reminder that was
\* reserved when a process died, and a replacement worker do not give a second one
\* (handle_settlement, recover_role, handle_recovery_turn).
ReminderOnce == \A n \in Numbers : turns[n] <= 1

\* The settlements an assignment is charged are runs that ended: one that is sent again
\* after its answer was lost is not a second one (handle_settlement, last_settlement_id).
SettlementsAreRuns == asg.count <= runs

\* When nothing is under way the bridge works on the assignment the broker waits for: when
\* the answer to an accepted report is lost or comes too late, the next settlement is refused
\* with the connection, and the next connection tells the bridge (recover_role,
\* assignment_closed).  A bridge whose epoch has a message it never got is GuidanceArrives'.
LostReportIsLearned == Quiet /\ wk.resume \in heard \cup {0} => wk.n = asg.n

\* When nothing is under way the bridge is in the epoch of the operator's last message,
\* whether or not it saw the message (recover_role, resume_id).
EpochIsLearned == Quiet /\ wk.n = asg.n => wk.resume = asg.resume

\* An assignment counts as accepted when the delivery that is current was accepted by the
\* bridge; an acknowledgement of the delivery before the handover does not count
\* (handle_delivery_ack).
AcceptedIsReceived == asg.n # 0 /\ asg.state = "accepted" => <<asg.n, asg.delivery>> \in got

\* A role goes on after a handover with the assignment it had only by a delivery to the new
\* generation that this generation accepted (recover_role, restart_failed).
ProvenStep ==
  role' = "up" /\ role \in {"restarting", "recovering"} /\ asg.n # 0 /\ asg'.n = asg.n
    => asg'.delivery = generation /\ <<asg.n, generation>> \in got
HandoverIsProven == [][ProvenStep]_vars

\* usage.md:1448-1454: a role that is restarted stays so until its replacement connects or the
\* handover is doubted, whatever handler of the old connection is still to end (control
\* restart, handle_settlement).
KeptStep ==
  role = "restarting" /\ role' # role =>
    role' = "uncertain" \/ client' = generation \/ asg'.n # asg.n
RestartIsKept == [][KeptStep]_vars

\* protocol-v1.md:844-846: an authorization the operator gave after the reminder or the call
\* for attention is not taken back by what belongs to the epoch before it
\* (_attention_waiting).
AuthorizationStands ==
  [][asg.authorized /\ asg'.n = asg.n /\ ~asg'.authorized =>
       \E f \in {inbox[i] : i \in DOMAIN inbox} : f.resume = asg.resume /\ f.n = asg.n]_vars

\* protocol-v1.md:843-846: the bridge does not return to an epoch it has left.
ForwardStep == wk'.n = wk.n => wk'.resume >= wk.resume
EpochsGoForward == [][ForwardStep]_vars

\* custom-roles.md:311-315: a role that is uncertain stays so when its worker connects.
DoubtSurvivesReconnect ==
  [][role = "uncertain" /\ asg.n # 0 /\ client = 0 /\ client' # 0 => role' = "uncertain"]_vars

\* usage.md:1438-1439: the operator's last message was given to the worker, or the role or
\* the run is uncertain.
GuidanceArrives ==
  Quiet /\ asg.n # 0 /\ asg.resume # 0 => asg.resume \in heard \/ workflow = "uncertain"

=============================================================================
