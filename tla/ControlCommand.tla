--------------------------- MODULE ControlCommand ---------------------------
(* Operator commands to the broker of a run: the one-shot client              *)
(* (broker_client.py) called by send, abort, restart and extend-calls         *)
(* (commands.py), and the broker's handle_control with its durable receipts   *)
(* (broker_control.py).  A call is one CLI process with one connection; its   *)
(* handler is a task of the broker that goes on when the caller gives up.     *)
(* One role.  What a message means to the workflow is BrokerRouting's and     *)
(* WorkerBoundary's business, as is the approval of a repair.                 *)
EXTENDS Naturals, FiniteSets, FiniteSetsExt

CONSTANTS Calls,        \* CLI processes
          Ids,          \* command ids the operators use
          Kinds,        \* subset of {"send", "abort", "restart", "extend"}
          MaxReceipts,  \* MAX_RPC_COMMANDS
          MaxFaults     \* bound: broker deaths, lost workers, failed respawns

\* Assumed of the constants by every module that instantiates this one.
ControlAssumption ==
    /\ Kinds \subseteq {"send", "abort", "restart", "extend"}
    /\ MaxReceipts \in Nat /\ MaxFaults \in Nat

VARIABLES up,          \* the broker runs
          connected,   \* the role's worker is connected
          baseline,    \* the broker still has the role's baseline in memory
          worker,      \* generation the role's process was started for
          generation,  \* durable: roles.generation
          role,        \* durable: roles.state
          allowance,   \* durable: extensions of the call ceilings
          receipt,     \* durable: control_commands, by id
          failures,    \* durable: control_commands of restart_failed
          call,        \* the CLI processes
          task,        \* their handlers in the broker
          delivered,   \* how often the worker was sent the command of an id
          respawned,   \* how often a pane was respawned for an id
          faults

durable == <<generation, role, allowance, receipt, failures>>
broker == <<up, connected, baseline>>
history == <<delivered, respawned>>
vars == <<broker, worker, durable, call, task, history, faults>>

None == [kind |-> "none", status |-> "none"]
Statuses == {"accepted", "uncertain", "conflict"}
Unused == [at |-> "unused", id |-> CHOOSE i \in Ids : TRUE, kind |-> "none",
           outcome |-> "none"]
NoTask == [at |-> "none", status |-> "none", duplicate |-> FALSE]

\* Accepted receipts of one kind.
Accepted(kind) == {i \in Ids : receipt[i] = [kind |-> kind, status |-> "accepted"]}
Rows == Cardinality({i \in Ids : receipt[i] # None}) + failures

\* The state's type; the registry outgrows its limit by failed handovers and by
\* handlers that were waiting in a delivery when it filled.
TypeOK ==
    /\ {up, connected, baseline} \subseteq BOOLEAN
    /\ generation \in 1 .. Cardinality(Ids) + 1 /\ worker \in 1 .. generation
    /\ role \in {"idle", "restarting", "recovering", "uncertain", "disconnected"}
    /\ allowance \in 0 .. Cardinality(Ids) /\ failures \in 0 .. Cardinality(Calls)
    /\ receipt \in [Ids -> {None} \cup [kind : Kinds, status : Statuses]]
    /\ call \in [Calls -> [at : {"unused", "sent", "respawn", "failing", "ended"},
                           id : Ids, kind : Kinds \cup {"none"},
                           outcome : Statuses \cup {"none", "duplicate", "unknown"}]]
    /\ task \in [Calls -> [at : {"none", "queued", "delivering", "hangup", "answer", "closed"},
                           status : Statuses \cup {"none"}, duplicate : BOOLEAN]]
    /\ delivered \in [Ids -> 0 .. Cardinality(Calls)]
    /\ respawned \in [Ids -> 0 .. Cardinality(Calls)]
    /\ faults \in 0 .. MaxFaults
    /\ Rows <= MaxReceipts + failures
                 + Cardinality({k \in Calls : call[k].kind \in {"send", "abort"}})

Init ==
    /\ up = TRUE /\ connected = TRUE /\ baseline = TRUE
    /\ worker = 1 /\ generation = 1 /\ role = "idle" /\ allowance = 0
    /\ receipt = [i \in Ids |-> None] /\ failures = 0
    /\ call = [k \in Calls |-> Unused] /\ task = [k \in Calls |-> NoTask]
    /\ delivered = [i \in Ids |-> 0] /\ respawned = [i \in Ids |-> 0]
    /\ faults = 0

-----------------------------------------------------------------------------
(* The client. *)

Ended(k, outcome) == [call EXCEPT ![k].at = "ended", ![k].outcome = outcome]

\* broker_control_request reaches the broker; without one the command was not
\* sent.  An id is repeated after the earlier call of the id has ended.
Call(k, i, kind) ==
    /\ up /\ call[k] = Unused /\ kind \in Kinds
    /\ \A j \in Calls : call[j].at \notin {"unused", "ended"} => call[j].id # i
    /\ call' = [call EXCEPT ![k] = [at |-> "sent", id |-> i, kind |-> kind,
                                    outcome |-> "none"]]
    /\ task' = [task EXCEPT ![k].at = "queued"]
    /\ UNCHANGED <<broker, worker, durable, history, faults>>

\* The commands: each checks its target and makes one call.
SendCommand(k, i) == Call(k, i, "send")
AbortCommand(k, i) == Call(k, i, "abort")
RestartCommand(k, i) == Call(k, i, "restart")
ExtendCallsCommand(k, i) == Call(k, i, "extend")

\* The timeout, a lost connection or the user: the outcome is unknown.
GiveUp(k) ==
    /\ call[k].at = "sent"
    /\ call' = Ended(k, "unknown")
    /\ UNCHANGED <<broker, worker, durable, task, history, faults>>

\* Broken: a duplicate acknowledgement is taken for a first one (RespawnOnce).
RespawnsAgain(k) == task[k].status = "accepted" /\ call[k].kind = "restart"

\* restart_command respawns the pane for a first acceptance only.
MustRespawn(k) ==
    task[k].status = "accepted" /\ call[k].kind = "restart" /\ ~task[k].duplicate

Hear(k) ==
    /\ call[k].at = "sent" /\ task[k].at \in {"hangup", "answer", "closed"}
    /\ call' = IF task[k].at # "closed" /\ MustRespawn(k)
               THEN [call EXCEPT ![k].at = "respawn", ![k].outcome = "accepted"]
               ELSE Ended(k, CASE task[k].at = "closed" -> "unknown"
                               [] task[k].at # "closed" /\ task[k].duplicate -> "duplicate"
                               [] OTHER -> task[k].status)
    /\ UNCHANGED <<broker, worker, durable, task, history, faults>>

\* An interrupted recovery is in doubt, a restart stays requested.
AfterLoss == CASE role = "recovering" -> "uncertain"
               [] role = "idle" -> "disconnected"
               [] OTHER -> role

\* respawn-pane -k: the new process reads the generation from the database.
Respawn(k) ==
    /\ call[k].at = "respawn"
    /\ worker' = generation /\ connected' = FALSE
    /\ role' = IF connected THEN AfterLoss ELSE role
    /\ respawned' = [respawned EXCEPT ![call[k].id] = @ + 1]
    /\ call' = Ended(k, "accepted")
    /\ UNCHANGED <<up, baseline, generation, allowance, receipt, failures, task,
                   delivered, faults>>

RespawnFails(k) ==
    /\ call[k].at = "respawn" /\ faults < MaxFaults
    /\ call' = [call EXCEPT ![k].at = "failing"]
    /\ faults' = faults + 1
    /\ UNCHANGED <<broker, worker, durable, task, history>>

\* Broken: a full registry refuses the failure as well (RestartSettles).
NeedsRoom(x) == Rows < MaxReceipts

\* restart_failed of an open handover is exempt from the registry's limit.
HasRoom(exempt) == exempt \/ Rows < MaxReceipts

\* restart_failed, under an id of its own: the handover becomes uncertain.
ReportFailed(k) ==
    /\ call[k].at = "failing"
    /\ IF up /\ HasRoom(role \in {"restarting", "recovering"})
       THEN /\ role' = IF role \in {"restarting", "recovering"} THEN "uncertain" ELSE role
            /\ failures' = failures + 1
       ELSE UNCHANGED <<role, failures>>
    /\ call' = Ended(k, "unknown")
    /\ UNCHANGED <<broker, worker, generation, allowance, receipt, task, history, faults>>

-----------------------------------------------------------------------------
(* handle_control *)

Answered(k, status, duplicate) ==
    [task EXCEPT ![k] = [at |-> "answer", status |-> status, duplicate |-> duplicate]]

Closed(k) == [task EXCEPT ![k].at = "closed"]

Recorded(k, status) ==
    [receipt EXCEPT ![call[k].id] = [kind |-> call[k].kind, status |-> status]]

Known(k) == receipt[call[k].id] # None
Matches(k) == receipt[call[k].id].kind = call[k].kind

\* A known id replays its receipt; reused for something else it is refused,
\* and a refusal closes the connection without an answer.
Replay(k) ==
    /\ task[k].at = "queued" /\ Known(k)
    /\ task' = IF Matches(k) THEN Answered(k, receipt[call[k].id].status, TRUE) ELSE Closed(k)
    /\ UNCHANGED <<broker, worker, durable, call, history, faults>>

Full(k) ==
    /\ task[k].at = "queued" /\ ~Known(k) /\ ~HasRoom(FALSE)
    /\ task' = Closed(k)
    /\ UNCHANGED <<broker, worker, durable, call, history, faults>>

New(k, kinds) ==
    task[k].at = "queued" /\ ~Known(k) /\ HasRoom(FALSE) /\ call[k].kind \in kinds

\* Without a connected worker, or a restart without a baseline.
Refuse(k) ==
    /\ New(k, Kinds)
    /\ \/ call[k].kind \in {"send", "abort"} /\ ~connected
       \/ call[k].kind = "restart" /\ ~baseline
    /\ receipt' = Recorded(k, "uncertain")
    /\ task' = Answered(k, "uncertain", FALSE)
    /\ UNCHANGED <<broker, worker, generation, role, allowance, failures, call,
                   history, faults>>

\* A send that would mask another role's open attention, or an extension of
\* ceilings that cannot move: left to chance, the workflow is not modelled.
Conflict(k) ==
    /\ New(k, {"send", "extend"}) /\ (call[k].kind = "send" => connected)
    /\ receipt' = Recorded(k, "conflict")
    /\ task' = Answered(k, "conflict", FALSE)
    /\ UNCHANGED <<broker, worker, generation, role, allowance, failures, call,
                   history, faults>>

Extend(k) ==
    /\ New(k, {"extend"})
    /\ allowance' = allowance + 1
    /\ receipt' = Recorded(k, "accepted")
    /\ task' = Answered(k, "accepted", FALSE)
    /\ UNCHANGED <<broker, worker, generation, role, failures, call, history, faults>>

\* Broken: the generation advances with the request and with the receipt (EffectsAreRecorded).
AdvancesTwice == generation + 2

Advanced == generation + 1

\* A fresh confirmed restart advances the generation, in whatever state the role
\* is, and answers.
Restart(k) ==
    /\ New(k, {"restart"}) /\ baseline
    /\ generation' = Advanced /\ role' = "restarting"
    /\ receipt' = Recorded(k, "accepted")
    /\ task' = [Answered(k, "accepted", FALSE) EXCEPT ![k].at = "hangup"]
    /\ UNCHANGED <<broker, worker, allowance, failures, call, history, faults>>

\* After the answer it hangs up on the worker of before, who may be gone by then; it
\* does not if its caller is gone and the answer fails.
HangUp(k) ==
    /\ task[k].at = "hangup"
    /\ task' = [task EXCEPT ![k].at = "answer"]
    /\ \/ connected' = (connected /\ worker = generation)
       \/ call[k].at = "ended" /\ UNCHANGED connected
    /\ UNCHANGED <<up, baseline, worker, durable, call, history, faults>>

\* The message goes to the worker's socket, and the handler waits there.
Deliver(k) ==
    /\ New(k, {"send", "abort"}) /\ connected
    /\ delivered' = [delivered EXCEPT ![call[k].id] = @ + 1]
    /\ task' = [task EXCEPT ![k].at = "delivering"]
    /\ UNCHANGED <<broker, worker, durable, call, respawned, faults>>

\* Broken: the receipt is written before the delivery (AcceptedIsDelivered).
RecordsFirst(k) == task[k].at = "queued" /\ connected

\* The handler has been back from the socket.
Drained(k) == task[k].at = "delivering"

\* Then the receipt is inserted.  The id is the primary key: if another call
\* recorded it meanwhile the transaction fails and the connection is closed.
Record(k) ==
    /\ Drained(k) /\ call[k].kind \in {"send", "abort"}
    /\ IF Known(k) THEN task' = Closed(k) /\ UNCHANGED receipt
       ELSE task' = Answered(k, "accepted", FALSE) /\ receipt' = Recorded(k, "accepted")
    /\ UNCHANGED <<broker, worker, generation, role, allowance, failures, call,
                   history, faults>>

\* The worker's socket breaks under the delivery: nothing is recorded.
DeliveryFails(k) ==
    /\ task[k].at = "delivering" /\ ~connected
    /\ task' = Closed(k)
    /\ UNCHANGED <<broker, worker, durable, call, history, faults>>

-----------------------------------------------------------------------------
(* The worker's connection and the broker's life. *)

\* A process started for the current generation may connect.
Connect ==
    /\ up /\ ~connected /\ worker = generation
    /\ connected' = TRUE
    /\ role' = CASE role = "restarting" -> "recovering"
                 [] role = "recovering" -> "uncertain"
                 [] OTHER -> "idle"
    /\ UNCHANGED <<up, baseline, worker, generation, allowance, receipt, failures,
                   call, task, history, faults>>

\* The replacement acknowledges its baseline and its assignment.
Recover ==
    /\ up /\ connected /\ role = "recovering"
    /\ role' = "idle"
    /\ UNCHANGED <<broker, worker, generation, allowance, receipt, failures, call,
                   task, history, faults>>

WorkerLost ==
    /\ connected /\ faults < MaxFaults
    /\ connected' = FALSE /\ role' = AfterLoss /\ faults' = faults + 1
    /\ UNCHANGED <<up, baseline, worker, generation, allowance, receipt, failures,
                   call, task, history>>

BrokerDies ==
    /\ up /\ faults < MaxFaults
    /\ up' = FALSE /\ connected' = FALSE /\ baseline' = FALSE
    /\ task' = [k \in Calls |-> IF task[k].at = "none" THEN NoTask
                                ELSE [task[k] EXCEPT !.at = "closed"]]
    /\ faults' = faults + 1
    /\ UNCHANGED <<worker, durable, call, history>>

\* Broken: the receipts of the run begin anew with the broker (ReceiptsAreFinal).
Forgotten == [i \in Ids |-> None]

Remembered == receipt

\* A broker that starts finds an open handover and calls it uncertain.
BrokerStarts ==
    /\ ~up /\ up' = TRUE
    /\ role' = IF role \in {"restarting", "recovering"} THEN "uncertain" ELSE role
    /\ receipt' = Remembered
    /\ UNCHANGED <<connected, baseline, worker, generation, allowance, failures, call,
                   task, history, faults>>

Client(k) ==
    \/ \E i \in Ids : \/ SendCommand(k, i) \/ AbortCommand(k, i)
                     \/ RestartCommand(k, i) \/ ExtendCallsCommand(k, i)
    \/ GiveUp(k) \/ Hear(k) \/ Respawn(k) \/ RespawnFails(k) \/ ReportFailed(k)

Handle(k) ==
    /\ up
    /\ \/ Replay(k) \/ Full(k) \/ Refuse(k) \/ Conflict(k) \/ Extend(k) \/ Restart(k) \/ HangUp(k)
       \/ Deliver(k) \/ Record(k) \/ DeliveryFails(k)

Next ==
    \/ \E k \in Calls : Client(k) \/ Handle(k)
    \/ Connect \/ Recover \/ WorkerLost \/ BrokerDies \/ BrokerStarts

Spec == Init /\ [][Next]_vars

\* A CLI process that was accepted runs on, and a respawned worker connects.
FairSpec ==
    /\ Spec /\ WF_vars(Connect)
    /\ \A k \in Calls : WF_vars(Respawn(k)) /\ WF_vars(ReportFailed(k))

-----------------------------------------------------------------------------
(* Properties *)

\* A command is called accepted only if the worker was sent it, and a caller
\* is told accepted only what the receipt says (handle_control's order).
AcceptedIsDelivered ==
    /\ \A i \in Accepted("send") \cup Accepted("abort") : delivered[i] >= 1
    /\ \A k \in Calls : call[k].outcome = "accepted" => call[k].id \in Accepted(call[k].kind)

\* An id respawns the role's pane at most once, however often its restart is
\* repeated, whoever's answer was lost (README.md:48).
RespawnOnce == \A i \in Ids : respawned[i] <= 1

\* Generations and ceilings move with accepted receipts only, once for each.
EffectsAreRecorded ==
    /\ generation = 1 + Cardinality(Accepted("restart"))
    /\ allowance = Cardinality(Accepted("extend"))

\* A receipt, once given, stays what it is, over retries under other kinds,
\* overlapping handlers and restarts of the broker (protocol-v1.md:591).
ReceiptsAreFinal ==
    [][\A i \in Ids : receipt[i] # None => receipt'[i] = receipt[i]]_vars

\* An accepted restart whose process lives ends its handover one way or the
\* other, even with a full registry: the role does not stay restarting.
RestartSettles ==
    \A k \in Calls : \A g \in 1 .. Cardinality(Ids) + 1 :
        (call[k].at = "respawn" /\ generation = g)
            ~> (role # "restarting" \/ ~up \/ generation > g)

\* Retries deduplicate: without a fault of the broker or the worker a command
\* reaches the worker at most once (protocol-v1.md:591).
DeliveredOnce == faults = 0 => \A i \in Ids : delivered[i] <= 1
=============================================================================
