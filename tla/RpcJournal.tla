----------------------------- MODULE RpcJournal -----------------------------
(***************************************************************************)
(* One role's RPC supervisor: the process between the operators' mailbox   *)
(* and a Pi worker, and the journal and registry it keeps of every command *)
(* so that the next supervisor, or the process that stops the run, knows   *)
(* what happened.  It is the supervisor of runs without a broker, the ones *)
(* whose mailbox is read.                                                  *)
(*                                                                         *)
(* A handler is a list of items in "work", taken one at a time.  A record  *)
(* is an append to the journal and then a save of the registry; a process  *)
(* can be killed between any two steps.  The mailbox clients and Pi are    *)
(* processes of their own.                                                 *)
(***************************************************************************)
EXTENDS Naturals, Sequences, FiniteSets

CONSTANTS
  Prompts, Aborts,  \* ids of mailbox requests, by what they ask for
  Clients,          \* processes that put requests into the mailbox
  Fickle,           \* those that can be killed while they wait
  SegmentSize,      \* events a journal segment holds (MAX_RPC_EVENT_SEGMENT_BYTES)
  Capacity,         \* MAX_RPC_COMMANDS
  MayTear,          \* a crash may leave the last line of the journal cut
  Interrupts,       \* where Ctrl-C may fall: between steps, also between an append and
                    \* what follows it, or not at all
  MaxStarts,        \* bound: supervisors started one after the other
  MaxStops,         \* bound: times the run is stopped, retries after a crash included
  Outcomes          \* bound: how runs of Pi's agent may end, among run_outcome's values;
                    \* with none of them it does not run

Mail        == Prompts \cup Aborts
Generations == 1..MaxStarts
Commands    == Mail \cup Generations   \* generation g's initial prompt is command g
NoCommand   == 0                       \* of an event that concerns no command

ASSUME ConstantAssumption ==
  /\ Prompts \cap Aborts = {} /\ Mail \cap Nat = {}
  /\ Fickle \subseteq Clients
  /\ SegmentSize \in Nat \ {0} /\ Capacity \in Nat
  /\ MayTear \in BOOLEAN /\ Interrupts \in {"never", "between", "anywhere"}
  /\ Outcomes \subseteq {"completed", "failed", "aborted"}
  /\ MaxStarts \in Nat /\ MaxStops \in Nat

VARIABLES
  archive, current,  \* the two segments of the journal
  torn,              \* its last line is cut
  saved,             \* registry.json
  inbox,             \* request files
  acks,              \* per request id, the acknowledgement file
  asks,              \* per client, what it is doing with which request
  stops,             \* times the tmux session was killed: no supervisor starts again
  proc,              \* the process that works on the journal, and where it is
  mem,               \* its registry in memory
  work,              \* what is left of its handler
  writing,           \* the event appended, not yet applied and saved
  pending,           \* mailbox commands Pi has not answered
  aborting,          \* abort_requested
  piUp,              \* this supervisor's Pi reads its standard input
  sent,              \* per command, the generations that wrote it to their Pi
  verdict            \* what Pi answered

disk    == <<archive, current, torn, saved>>
mailbox == <<inbox, acks, asks>>
process == <<proc, mem, work, writing, pending, aborting>>
pi      == <<piUp, sent, verdict>>
vars    == <<disk, mailbox, stops, process, pi>>


Open        == {"received", "accepted", "started"}
Terminal    == {"completed", "failed", "aborted", "rejected", "uncertain"}
Statuses    == Open \cup Terminal
Lifecycle   == {"supervisor_started", "agent_started", "agent_settled", "supervisor_ended"}
Successful  == {"accepted", "started", "completed", "failed", "aborted"}
AckValues   == Terminal \cup Successful \cup {"none", "refused"}

\* Status changes the registry lets an event make.
Permitted(old, new) ==
  \/ old = "unknown" /\ new = "received"
  \/ old = "received" /\ new \in {"accepted", "rejected", "uncertain"}
  \/ old = "accepted" /\ new \in {"started", "completed", "failed", "aborted", "uncertain"}
  \/ old = "started" /\ new \in {"completed", "failed", "aborted", "uncertain"}

Event    == [seq : Nat, gen : Nat, kind : Statuses, cmd : Commands]
            \cup [seq : Nat, gen : Nat, kind : Lifecycle, cmd : {NoCommand}]
Registry == [last : Nat, gen : Nat, cmds : [Commands -> Statuses \cup {"unknown"}], closed : BOOLEAN]
\* No registry file is the same as this one: nothing recorded, generation 0.
Blank    == [last |-> 0, gen |-> 0, cmds |-> [c \in Commands |-> "unknown"], closed |-> FALSE]

\* "move" records a status for each of cmds, "note" a lifecycle event.
Items == [op : {"move"}, cmds : SUBSET Commands, to : Statuses]
         \cup [op : {"note"}, cmds : {{}}, to : Lifecycle]
         \cup [op : {"begin", "send"}, cmds : {{c} : c \in Commands}, to : {""}]
         \cup [op : {"read", "unlink"}, cmds : {{c} : c \in Mail}, to : {""}]
         \cup [op : {"ack"}, cmds : {{c} : c \in Mail}, to : AckValues]
         \cup [op : {"giveup"}, cmds : SUBSET Mail, to : {"failed", "clean"}]
         \cup [op : {"fail", "exit"}, cmds : {{}}, to : {""}]
Item(op, cmds, to) == [op |-> op, cmds |-> cmds, to |-> to]
Moves(cmds, to)    == IF cmds = {} THEN <<>> ELSE <<Item("move", cmds, to)>>
Note(kind)         == <<Item("note", {}, kind)>>
Do(op, c)          == <<Item(op, {c}, "")>>
Ack(c, value)      == <<Item("ack", {c}, value)>>
Only(op)           == <<Item(op, {}, "")>>

TypeOK ==
  /\ archive \in Seq(Event) /\ current \in Seq(Event)
  /\ torn \in BOOLEAN
  /\ saved \in Registry
  /\ inbox \subseteq Mail
  /\ acks \in [Mail -> AckValues]
  /\ asks \in [Clients -> {"no"} \X {NoCommand} \cup {"clearing", "waiting"} \X Mail]
  /\ stops \in Nat
  /\ proc \in {"down", "starting", "running", "closing", "stopping"}
  /\ mem \in Registry
  /\ work \in Seq(Items)
  /\ writing \in Seq(Event) /\ Len(writing) <= 1
  /\ pending \subseteq Mail
  /\ aborting \in BOOLEAN
  /\ piUp \in BOOLEAN
  /\ sent \in [Commands -> Seq(Nat)]
  /\ verdict \in [Commands -> {"none", "yes", "no"}]

-----------------------------------------------------------------------------
(* The registry, and what a reader makes of the files.                      *)

\* Broken variants of a definition stand right before it, marked "Broken:"; each breaks
\* the property named there, so that the property is known to depend on the definition.

Of(reg, S)  == {c \in Commands : reg.cmds[c] \in S}
Known(reg) == Commands \ Of(reg, {"unknown"})
\* Broken: an ended command stays among the active ones (RecordsArePermitted).
EverActive(reg) == Of(reg, {"accepted", "started", "completed", "failed", "aborted"}) \ Aborts

Active(reg) == Of(reg, {"accepted", "started"}) \ Aborts
Full(reg)   == Cardinality(Known(reg)) >= Capacity

Apply(reg, e) ==
  [last   |-> e.seq,
   gen    |-> reg.gen,
   cmds   |-> IF e.cmd \in Commands THEN [reg.cmds EXCEPT ![e.cmd] = e.kind] ELSE reg.cmds,
   closed |-> IF e.cmd \in Commands THEN reg.closed ELSE e.kind = "supervisor_ended"]

Journal   == archive \o current
LastEvent == Journal[Len(Journal)]
Newer     == LET j == Journal IN {i \in DOMAIN j : j[i].seq > saved.last}
About(c)  == {i \in Newer : Journal[i].cmd = c}
Latest(S) == CHOOSE i \in S : \A j \in S : j <= i

\* The registry with the newer events applied to it, in the journal's order.
Recorded  == IF Newer = {} THEN saved.cmds
             ELSE [c \in Commands |-> IF About(c) = {} THEN saved.cmds[c]
                                      ELSE Journal[Latest(About(c))].kind]
WasClosed == IF About(NoCommand) = {} THEN saved.closed
             ELSE Journal[Latest(About(NoCommand))].kind = "supervisor_ended"
Replayed  == [last   |-> IF Newer = {} THEN saved.last ELSE LastEvent.seq,
              gen    |-> IF Journal = <<>> THEN saved.gen ELSE LastEvent.gen,
              cmds   |-> Recorded,
              closed |-> WasClosed]

\* No number is missing or used twice, and a generation begins with its first event.
Unbroken ==
  \A i \in 1..(Len(Journal) - 1) :
    LET e == Journal[i]
        f == Journal[i + 1] IN
    /\ f.seq = e.seq + 1
    /\ f.gen = e.gen \/ (f.gen = e.gen + 1 /\ f.kind = "supervisor_started")

NoGap    == Newer = {} \/ \E i \in Newer : Journal[i].seq = saved.last + 1
Readable == ~torn /\ Unbroken /\ NoGap
\* What a starting supervisor checks on top of that.
Loadable == Readable /\ IF Journal = <<>> THEN saved.last = 0
                        ELSE saved.last <= LastEvent.seq /\ saved.gen <= LastEvent.gen

-----------------------------------------------------------------------------
Init ==
  /\ archive = <<>> /\ current = <<>> /\ torn = FALSE /\ saved = Blank
  /\ inbox = {} /\ acks = [c \in Mail |-> "none"]
  /\ asks = [k \in Clients |-> <<"no", NoCommand>>]
  /\ stops = 0
  /\ proc = "down" /\ mem = Blank /\ work = <<>> /\ writing = <<>>
  /\ pending = {} /\ aborting = FALSE
  /\ piUp = FALSE
  /\ sent = [c \in Commands |-> <<>>]
  /\ verdict = [c \in Commands |-> "none"]

-----------------------------------------------------------------------------
(* Clients of the mailbox: an operator's command or the relay's retries.    *)

\* A client removes what an earlier one with the same id left behind ...
Ask(k, c) ==
  /\ asks[k][1] = "no"
  /\ acks' = [acks EXCEPT ![c] = "none"]
  /\ asks' = [asks EXCEPT ![k] = <<"clearing", c>>]
  /\ UNCHANGED <<disk, inbox, stops, process, pi>>

\* ... and puts its request there, unless there is one.
Post(k) ==
  /\ asks[k][1] = "clearing"
  /\ LET c == asks[k][2] IN
     IF c \in inbox THEN /\ asks' = [asks EXCEPT ![k] = <<"no", NoCommand>>]
                         /\ UNCHANGED inbox
     ELSE /\ inbox' = inbox \cup {c}
          /\ asks' = [asks EXCEPT ![k] = <<"waiting", c>>]
  /\ UNCHANGED <<disk, acks, stops, process, pi>>

\* With the answer or after its timeout a client removes both files.
Leave(k) ==
  /\ asks[k][1] = "waiting"
  /\ inbox' = inbox \ {asks[k][2]}
  /\ acks' = [acks EXCEPT ![asks[k][2]] = "none"]
  /\ asks' = [asks EXCEPT ![k] = <<"no", NoCommand>>]
  /\ UNCHANGED <<disk, stops, process, pi>>

\* A client that is killed removes nothing.
Vanish(k) ==
  /\ k \in Fickle
  /\ asks[k][1] = "waiting"
  /\ asks' = [asks EXCEPT ![k] = <<"no", NoCommand>>]
  /\ UNCHANGED <<disk, inbox, acks, stops, process, pi>>

-----------------------------------------------------------------------------
(* Pi: it answers a command once, perhaps after its supervisor is gone.     *)

Decide(c, v) ==
  /\ sent[c] # <<>> /\ verdict[c] = "none"
  /\ verdict' = [verdict EXCEPT ![c] = v]
  /\ UNCHANGED <<disk, mailbox, stops, process, piUp, sent>>

PiDies ==
  /\ piUp
  /\ piUp' = FALSE
  /\ UNCHANGED <<disk, mailbox, stops, process, sent, verdict>>

-----------------------------------------------------------------------------
(* Start, stop and death of the process that works on the journal.          *)

\* What is in the memory of a process is gone, and its Pi with it.
Gone == /\ proc' = "down" /\ mem' = Blank /\ work' = <<>> /\ writing' = <<>>
        /\ pending' = {} /\ aborting' = FALSE /\ piUp' = FALSE

\* run_rpc_agent up to its main loop: the journal is read, a generation begins,
\* what an earlier one left open is uncertain.
\* Broken: the number is taken from the registry, whatever the journal says
\* (GenerationsDistinct).
GenerationAfterSaved == saved.gen + 1

\* Broken: only what Pi never answered is left over (OpenIsOurs).
UnansweredLeftovers == Moves(Of(Replayed, {"received"}), "uncertain")

NextGeneration == Replayed.gen + 1
Leftovers      == Moves(Of(Replayed, Open), "uncertain")

Start ==
  /\ proc = "down" /\ stops = 0
  /\ Loadable
  /\ NextGeneration \in Generations
  /\ proc' = "starting"
  /\ mem' = [Replayed EXCEPT !.gen = NextGeneration]
  /\ work' = Note("supervisor_started") \o Leftovers \o Do("begin", NextGeneration)
  /\ piUp' = TRUE
  /\ UNCHANGED <<disk, mailbox, stops, writing, pending, aborting, sent, verdict>>

\* stop_command kills the session; then, in the operator's process,
\* mark_rpc_registry_stopped closes the journal.
\* Broken: the stop only notes the end (ClosedIsFinal).
StopNotesEnd ==
  (IF Replayed.closed THEN <<>> ELSE Note("supervisor_ended")) \o Only("exit")

StopItems ==
  Moves(Of(Replayed, Open), "uncertain")
  \o (IF Replayed.closed THEN <<>> ELSE Note("supervisor_ended")) \o Only("exit")

Stop ==
  /\ proc # "stopping" /\ stops < MaxStops
  /\ stops' = stops + 1
  /\ IF saved.last > 0 /\ Readable /\ (Journal = <<>> \/ saved.gen <= LastEvent.gen)
     THEN /\ proc' = "stopping" /\ mem' = Replayed /\ work' = StopItems
          /\ writing' = <<>> /\ pending' = {} /\ aborting' = FALSE /\ piUp' = FALSE
     ELSE Gone
  /\ UNCHANGED <<disk, mailbox, sent, verdict>>

Crash ==
  /\ proc # "down"
  /\ Gone
  /\ UNCHANGED <<disk, mailbox, stops, sent, verdict>>

-----------------------------------------------------------------------------
(* record_rpc_event: rotate, append, then apply and save.                   *)

Recording == /\ work # <<>> /\ Head(work).op \in {"move", "note"}
             /\ writing = <<>>
SegmentFull == Len(current) >= SegmentSize

\* Broken: the full segment is emptied instead (AlwaysRecoverable).
RotateDropsCurrent ==
  /\ Recording /\ SegmentFull
  /\ IF archive # <<>> THEN current' = <<>> /\ UNCHANGED archive
                       ELSE archive' = current /\ current' = <<>>
  /\ UNCHANGED <<torn, saved, mailbox, stops, process, pi>>

\* The archive is unlinked before the full segment takes its place.
Rotate ==
  /\ Recording /\ SegmentFull
  /\ IF archive # <<>> THEN archive' = <<>> /\ UNCHANGED current
                       ELSE archive' = current /\ current' = <<>>
  /\ UNCHANGED <<torn, saved, mailbox, stops, process, pi>>

\* check_rpc_event_application, then the append.
AppendEvent ==
  /\ Recording /\ ~SegmentFull
  /\ \E c \in IF Head(work).op = "move" THEN Head(work).cmds ELSE {NoCommand} :
       LET e == [seq |-> mem.last + 1, gen |-> mem.gen, kind |-> Head(work).to, cmd |-> c] IN
       /\ c \in Commands => Permitted(mem.cmds[c], e.kind)
       /\ current' = Append(current, e)
       /\ writing' = <<e>>
  /\ UNCHANGED <<archive, torn, saved, mailbox, stops, proc, mem, work, pending, aborting, pi>>

\* The machine goes down during the append.
TearAppend ==
  /\ MayTear
  /\ Recording /\ ~SegmentFull
  /\ torn' = TRUE
  /\ Gone
  /\ UNCHANGED <<archive, current, saved, mailbox, stops, sent, verdict>>

SaveRegistry ==
  /\ writing # <<>>
  /\ mem' = Apply(mem, writing[1])
  /\ saved' = mem'
  /\ writing' = <<>>
  /\ work' = (IF Head(work).op = "move"
              THEN Moves(Head(work).cmds \ {writing[1].cmd}, Head(work).to)
              ELSE <<>>) \o Tail(work)
  /\ UNCHANGED <<archive, current, torn, mailbox, stops, proc, pending, aborting, pi>>

-----------------------------------------------------------------------------
(* The end of run_rpc_agent: what is pending is given up, what is open is   *)
(* closed, and the last event says that the supervisor ended.               *)

Finally(how) == <<Item("giveup", pending, how)>>

CloseItems(how) ==
  LET failed == IF how = "failed" THEN Of(mem, {"accepted", "started"}) ELSE {} IN
  Moves(failed, "failed") \o Moves(Of(mem, Open) \ failed, "uncertain")
  \o Note("supervisor_ended") \o Only("exit")

\* The main loop ends: Pi closed its output, or sent something unreadable.
Finish(how) ==
  /\ proc = "running" /\ work = <<>>
  /\ proc' = "closing"
  /\ work' = Finally(how)
  /\ UNCHANGED <<disk, mailbox, stops, mem, writing, pending, aborting, pi>>

\* Ctrl-C.  Of the handler only a mailbox request's own "finally" is carried out.
Interrupt(how) ==
  /\ proc = "running"
  /\ Interrupts # "never" /\ (writing = <<>> \/ Interrupts = "anywhere")
  /\ proc' = "closing"
  /\ work' = (IF work # <<>> /\ work[Len(work)].op = "unlink" THEN <<work[Len(work)]>> ELSE <<>>)
             \o Finally(how)
  /\ writing' = <<>>
  /\ UNCHANGED <<disk, mailbox, stops, mem, pending, aborting, pi>>

-----------------------------------------------------------------------------
(* Handlers of the main loop.                                               *)

Idle == proc = "running" /\ work = <<>>

\* process_mailbox finds a request; the client may withdraw it before it is read.
Scan(c) ==
  /\ Idle /\ c \in inbox
  /\ work' = Do("read", c)
  /\ UNCHANGED <<disk, mailbox, stops, proc, mem, writing, pending, aborting, pi>>

\* Pi's answer to a mailbox command.
Response(c) ==
  /\ Idle /\ c \in pending /\ verdict[c] # "none"
  /\ pending' = pending \ {c}
  /\ \/ /\ verdict[c] = "no"
        /\ work' = Moves({c}, "rejected") \o Ack(c, "rejected")
        /\ UNCHANGED aborting
     \/ /\ verdict[c] = "yes" /\ c \in Prompts
        /\ work' = Moves({c}, "accepted") \o Ack(c, "accepted")
        /\ UNCHANGED aborting
     \/ /\ verdict[c] = "yes" /\ c \in Aborts
        /\ work' = Moves({c}, "accepted") \o Moves({c}, "completed") \o Ack(c, "completed")
        /\ aborting' = (Active(mem) # {})
  /\ UNCHANGED <<disk, mailbox, stops, proc, mem, writing, pi>>

\* Broken: any answer counts as acceptance (Implements).
InitialAccepted ==
  /\ Idle /\ mem.gen \in Generations
  /\ mem.cmds[mem.gen] = "received" /\ verdict[mem.gen] # "none"
  /\ work' = Moves({mem.gen}, "accepted")
  /\ UNCHANGED <<disk, mailbox, stops, proc, mem, writing, pending, aborting, pi>>

\* Pi's answer to the initial prompt.
InitialResponse ==
  /\ Idle /\ mem.gen \in Generations
  /\ mem.cmds[mem.gen] = "received" /\ verdict[mem.gen] # "none"
  /\ work' = IF verdict[mem.gen] = "yes" THEN Moves({mem.gen}, "accepted")
             ELSE Moves({mem.gen}, "rejected") \o Only("fail")
  /\ UNCHANGED <<disk, mailbox, stops, proc, mem, writing, pending, aborting, pi>>

\* Pi's agent runs for prompts Pi accepted.  Its events at other times are recorded
\* and change nothing; they are left out.
AgentStart ==
  /\ Idle /\ Outcomes # {}
  /\ Active(mem) \cap Of(mem, {"accepted"}) # {}
  /\ work' = Moves(Active(mem) \cap Of(mem, {"accepted"}), "started") \o Note("agent_started")
  /\ UNCHANGED <<disk, mailbox, stops, proc, mem, writing, pending, aborting, pi>>

AgentSettled(outcome) ==
  /\ Idle /\ Active(mem) # {}
  /\ work' = Moves(Active(mem), IF aborting THEN "aborted" ELSE outcome) \o Note("agent_settled")
  /\ aborting' = FALSE
  /\ UNCHANGED <<disk, mailbox, stops, proc, mem, writing, pending, pi>>

-----------------------------------------------------------------------------
(* The items of a handler that record nothing.                              *)

At(op)  == writing = <<>> /\ work # <<>> /\ Head(work).op = op
Subject == CHOOSE c \in Head(work).cmds : TRUE
Rest    == Tail(work)

\* The initial prompt of this generation; a full registry does not take it.
Begin ==
  /\ At("begin")
  /\ IF Full(mem) THEN /\ proc' = "closing"
                       /\ work' = Finally("clean")
     ELSE /\ proc' = "running"
          /\ work' = Moves({Subject}, "received") \o Do("send", Subject)
  /\ UNCHANGED <<disk, mailbox, stops, mem, writing, pending, aborting, pi>>

\* A request already known is answered from the registry, unless Pi's answer to
\* it is still to come.  What cannot be read or taken is refused, but not over
\* an acknowledgement that is there.
Refused(c)  == IF acks[c] = "none" THEN Ack(c, "refused") ELSE <<>>
\* Broken: a repetition is told that the request was accepted (AckIsTrue).
RepeatedIsAccepted(c) == IF c \in pending THEN <<>> ELSE Ack(c, "accepted")

Repeated(c) == IF c \in pending THEN <<>>
               ELSE IF mem.cmds[c] = "received" THEN Refused(c)
               ELSE Ack(c, mem.cmds[c])
\* Broken: written to Pi before it is recorded (Implements).
TakenUnrecorded(c) == Do("send", c) \o Moves({c}, "received")

Taken(c) == Moves({c}, "received") \o Do("send", c)

Read ==
  /\ At("read")
  /\ work' = (CASE Subject \notin inbox -> Refused(Subject)
                [] Subject \in inbox /\ Subject \in Known(mem) -> Repeated(Subject)
                [] Subject \in inbox /\ Subject \notin Known(mem) /\ Full(mem) -> Ack(Subject, "refused")
                [] OTHER -> Taken(Subject)) \o Do("unlink", Subject)
  /\ UNCHANGED <<disk, mailbox, stops, proc, mem, writing, pending, aborting, pi>>

\* The record to Pi.  A broken pipe leaves a mailbox command uncertain and is
\* fatal at the initial prompt.
\* Broken: the initial prompt is awaited like a mailbox command (TypeOK).
AwaitedAll(c) == {c}

Awaited(c) == {c} \cap Mail

Send ==
  /\ At("send")
  /\ IF piUp
     THEN /\ sent' = [sent EXCEPT ![Subject] = Append(@, mem.gen)]
          /\ pending' = pending \cup Awaited(Subject)
          /\ work' = Rest
          /\ UNCHANGED proc
     ELSE /\ UNCHANGED <<sent, pending>>
          /\ IF Subject \in Mail
             THEN /\ work' = Moves({Subject}, "uncertain") \o Ack(Subject, "uncertain") \o Rest
                  /\ UNCHANGED proc
             ELSE /\ proc' = "closing"
                  /\ work' = Finally("failed")
  /\ UNCHANGED <<disk, mailbox, stops, mem, writing, aborting, piUp, verdict>>

Acknowledge ==
  /\ At("ack")
  /\ acks' = [acks EXCEPT ![Subject] = Head(work).to]
  /\ work' = Rest
  /\ UNCHANGED <<disk, inbox, asks, stops, proc, mem, writing, pending, aborting, pi>>

Unlink ==
  /\ At("unlink")
  /\ inbox' = inbox \ {Subject}
  /\ work' = Rest
  /\ UNCHANGED <<disk, acks, asks, stops, proc, mem, writing, pending, aborting, pi>>

Fail ==
  /\ At("fail")
  /\ proc' = "closing"
  /\ work' = Finally("failed")
  /\ UNCHANGED <<disk, mailbox, stops, mem, writing, pending, aborting, pi>>

\* A pending command without an acknowledgement is recorded and acknowledged as
\* uncertain; one that has one already is closed with what else is open.
GiveUp ==
  /\ At("giveup")
  /\ IF Head(work).cmds = {} THEN work' = CloseItems(Head(work).to)
     ELSE \E c \in Head(work).cmds :
            work' = (IF acks[c] # "none" THEN <<>>
                     ELSE Moves({c} \cap Of(mem, Open), "uncertain") \o Ack(c, "uncertain"))
                    \o <<[Head(work) EXCEPT !.cmds = @ \ {c}]>>
  /\ UNCHANGED <<disk, mailbox, stops, proc, mem, writing, pending, aborting, pi>>

Exit ==
  /\ At("exit")
  /\ Gone
  /\ UNCHANGED <<disk, mailbox, stops, sent, verdict>>

-----------------------------------------------------------------------------
Client(k) == \/ \E c \in Mail : Ask(k, c)
             \/ Post(k) \/ Leave(k) \/ Vanish(k)
Pi        == PiDies \/ \E c \in Commands, v \in {"yes", "no"} : Decide(c, v)
Record    == Rotate \/ AppendEvent \/ TearAppend \/ SaveRegistry
Handler   == \/ \E c \in Mail : Scan(c) \/ Response(c)
             \/ InitialResponse \/ AgentStart
             \/ \E outcome \in Outcomes : AgentSettled(outcome)
             \/ Begin \/ Read \/ Send \/ Acknowledge \/ Unlink
             \/ Fail \/ GiveUp \/ Exit
Ending    == Stop \/ Crash \/ \E how \in {"failed", "clean"} : Finish(how) \/ Interrupt(how)

Next == (\E k \in Clients : Client(k)) \/ Pi \/ Start \/ Record \/ Handler \/ Ending
Spec == Init /\ [][Next]_vars

-----------------------------------------------------------------------------
(* What the journal, the registry and the acknowledgements are worth.       *)

\* However a process dies, the files it leaves are accepted by the next one: no
\* order of rotations, appends, saves and crashes makes a gap or runs ahead.  Only
\* a line that the machine cut is refused.
AlwaysRecoverable == ~torn => Loadable

\* No generation begins twice, not even if its first event is in the journal and
\* not in the registry: its number names the initial prompt.
GenerationsDistinct ==
  \A i, j \in DOMAIN Journal :
    /\ Journal[i].kind = "supervisor_started" /\ Journal[j].kind = "supervisor_started"
    /\ Journal[i].gen = Journal[j].gen
    => i = j

\* What a client reads is Pi's answer: success only of a command Pi took, a
\* rejection from the registry only of one it refused, also for the repetition of
\* a request in a later generation.
AckIsTrue ==
  \A c \in Mail : /\ acks[c] \in Successful => verdict[c] = "yes"
                  /\ acks[c] = "rejected" => verdict[c] = "no"

\* Pi is given a command at most once, whoever asks how often, and whichever of the
\* supervisors that came and went does it.
DeliveredOnce == \A c \in Commands : Len(sent[c]) <= 1

\* Between two handlers every open command is one this supervisor's own Pi was
\* given, and an unanswered one is still waited for: nothing stays open that no
\* answer can close.
OpenIsOurs ==
  Idle => \A c \in Of(mem, Open) :
            /\ sent[c] = <<mem.gen>>
            /\ mem.cmds[c] = "received" => c \in pending \cup {mem.gen}

\* A registry that says that its supervisor ended, normally or because the run was
\* stopped, leaves no command open.
ClosedIsFinal == saved.closed => Of(saved, Open) = {}

\* The registry's check of a status change never refuses a record in the middle of
\* a handler, where its exception would end the supervisor.
RecordsArePermitted ==
  work # <<>> /\ writing = <<>> /\ Head(work).op = "move" =>
    \A c \in Head(work).cmds : Permitted(mem.cmds[c], Head(work).to)

\* The files, read as a reader would, are a CommandLog: recorded before delivered,
\* delivered at most once over all generations, final once final.
Log == INSTANCE CommandLog WITH
         status    <- Recorded,
         delivered <- [c \in Commands |-> Len(sent[c])],
         answer    <- verdict
Implements == Log!Spec

=============================================================================
