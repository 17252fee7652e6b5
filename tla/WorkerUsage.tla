---------------------------- MODULE WorkerUsage ----------------------------
(***************************************************************************)
(* What a role has used: the bridge counts the provider calls of its Pi    *)
(* session, the broker keeps the last count it was told, one immutable     *)
(* delta per accepted report and at most one fact per guardrail level, and *)
(* commands of other processes read them.                                  *)
(*                                                                         *)
(* One role.  All quantities of a usage record move together, so a usage   *)
(* is one number: the calls in the session's journal.  The journal         *)
(* outlives the process; the bridge's handlers run to completion, so the   *)
(* journal and the bridge's memory agree between two of them.              *)
(***************************************************************************)
EXTENDS Naturals, Integers, Sequences, SequencesExt, FiniteSetsExt

CONSTANTS
  MaxAssignments, \* bound: assignments of the role
  MaxCalls,       \* bound: provider calls of the session
  MaxConnections, \* bound: connections the bridge opens
  MaxTimeouts,    \* bound: reports whose answer the bridge gives up
  MaxRestarts,    \* bound: restarts of the worker
  MaxDeaths,      \* bound: deaths of the broker
  Threshold,      \* retained_budget_policy: the provider_calls threshold of each level
  MaxFrames,      \* bound: frames under way when the agent goes on
  Limit,          \* entries a page of assignment usage holds
  Requests        \* what other processes read: "snapshot", "usage", "status"

\* Assumed of the constants by every module that instantiates this one.
ConstantAssumption ==
  /\ {MaxAssignments, MaxConnections, MaxFrames, Limit} \subseteq Nat \ {0}
  /\ {MaxCalls, MaxTimeouts, MaxRestarts, MaxDeaths} \subseteq Nat
  /\ Requests \subseteq {"snapshot", "usage", "status"}
  /\ Threshold \in [{"warning", "hard"} -> Nat \ {0}]
  /\ Threshold["warning"] <= Threshold["hard"]

VARIABLES
  asg,        \* the active assignment: number (0: none), state, generation of its delivery id
  created,    \* assignments created so far
  calls,      \* roles.provider_calls
  activity,   \* roles.activity
  reports,    \* reports: the accepted assignments, with their deltas, in order
  facts,      \* assignment_guardrails
  generation, \* roles.generation
  handover,   \* roles.state = "restarting"
  client,     \* the registered connection, 0: none
  served,     \* connections a coroutine reads from
  baseline,   \* worker_baselines: lost with the broker's process
  link,       \* the bridge's connection, 0: none
  opened,     \* connections opened so far
  gone,       \* connections the bridge has closed
  shut,       \* connections the broker has closed
  owner,      \* generation of the process that opened the connection
  inbox,      \* frames to the broker, per connection
  outbox,     \* frames to the bridge, per connection
  total,      \* provider calls in the session's journal
  wk,         \* activeAssignment: number and usage baseline
  found,      \* guardrailState: the levels that were triggered
  running,    \* the agent runs
  ask,        \* the assignment whose report is unanswered, 0: none
  process,    \* generation of the worker process
  timeouts, deaths, \* counters
  work,       \* history: the calls made while the bridge had the assignment
  lost,       \* history: assignments with a report the bridge gave up
  reading,    \* the request a reader is in
  answer      \* what it has read

database == <<asg, created, calls, activity, reports, facts, generation, handover>>
broker   == <<client, served, baseline>>
wire     == <<link, opened, gone, shut, owner, inbox, outbox>>
bridge   == <<total, wk, found, running, ask, process>>
history  == <<timeouts, deaths, work, lost>>
reader   == <<reading, answer>>
vars     == <<database, broker, wire, bridge, history, reader>>

Numbers == 1..MaxAssignments
Links   == 1..MaxConnections
Levels  == {"warning", "hard"}
NoAsg   == [n |-> 0, state |-> "accepted", delivery |-> 1]
Nobody  == [n |-> 0, base |-> 0, delivery |-> 1]

\* Frames to the broker: the assignment, the session's calls, those of the assignment, and the
\* request or the generation of the delivery or of the process.
Frame(kind, n, use, delta, id) == [kind |-> kind, n |-> n, use |-> use, delta |-> delta, id |-> id]
Told(kind, n, id, ok)  == [kind |-> kind, n |-> n, id |-> id, ok |-> ok]
Delivery(a)            == Told("assignment", a.n, a.delivery, TRUE)

Closed    == {reports[i].n : i \in DOMAIN reports}

TypeOK ==
  /\ asg \in [n : 0..MaxAssignments, state : {"delivering", "accepted", "uncertain"},
              delivery : 1..(MaxRestarts + 1)]
  /\ created \in 0..MaxAssignments
  /\ calls \in 0..MaxCalls
  /\ activity \in {"none", "streaming", "tool"}
  /\ reports \in Seq([n : Numbers, delta : 0..MaxCalls])
  /\ facts \subseteq [n : Numbers, level : Levels, observed : 1..MaxCalls]
  /\ generation \in 1..(MaxRestarts + 1) /\ process \in 1..(MaxRestarts + 1)
  /\ handover \in BOOLEAN /\ baseline \in BOOLEAN /\ running \in BOOLEAN
  /\ client \in {0} \cup Links /\ link \in {0} \cup Links /\ opened \in 0..MaxConnections
  /\ owner \in [Links -> 1..(MaxRestarts + 1)]
  /\ served \subseteq Links /\ gone \subseteq Links /\ shut \subseteq Links
  /\ total \in 0..MaxCalls
  /\ wk \in [n : 0..MaxAssignments, base : 0..MaxCalls, delivery : 1..(MaxRestarts + 1)]
  /\ found \subseteq Levels
  /\ ask \in 0..MaxAssignments
  /\ timeouts \in 0..MaxTimeouts /\ deaths \in 0..MaxDeaths
  /\ work \in [Numbers -> 0..MaxCalls] /\ lost \subseteq Numbers
  /\ reading \in {"none", "usage", "status"}

\* The first worker is about to connect to a broker whose workflow is active.
Init ==
  /\ asg = NoAsg /\ created = 0 /\ calls = 0 /\ activity = "none" /\ reports = <<>>
  /\ facts = {} /\ generation = 1 /\ handover = FALSE
  /\ client = 0 /\ served = {} /\ baseline = TRUE
  /\ link = 0 /\ opened = 0 /\ gone = {} /\ shut = {} /\ owner = [c \in Links |-> 1]
  /\ inbox = [c \in Links |-> <<>>] /\ outbox = [c \in Links |-> <<>>]
  /\ total = 0 /\ wk = Nobody /\ found = {} /\ running = FALSE /\ ask = 0 /\ process = 1
  /\ timeouts = 0 /\ deaths = 0 /\ work = [n \in Numbers |-> 0] /\ lost = {}
  /\ reading = "none" /\ answer = <<>>

-----------------------------------------------------------------------------
(* The bridge. *)

\* brokerRequest: without a connection the frame is lost and nobody is told.
Send(frames) == inbox' = IF link = 0 \/ link \in shut THEN inbox
                         ELSE [inbox EXCEPT ![link] = @ \o frames]

\* usageDelta, guardrailObservations
Used == total - wk.base

Room == IF link = 0 THEN TRUE ELSE Len(inbox[link]) < MaxFrames

\* message_end: the call is in the journal when it is reported.
Call ==
  /\ running /\ ask = 0 /\ total < MaxCalls /\ Room
  /\ total' = total + 1
  /\ work' = IF wk.n = 0 THEN work ELSE [work EXCEPT ![wk.n] = @ + 1]
  /\ Send(IF wk.n = 0 THEN <<>> ELSE <<Frame("streaming", wk.n, total', 0, 0)>>)
  /\ UNCHANGED <<database, broker, link, opened, gone, shut, owner, outbox, wk, found, running, ask,
                 process, timeouts, deaths, lost, reader>>

\* evaluateAssignmentGuardrails: a level that was triggered is not reported again.
Crossed == {l \in Levels \ found : Used >= Threshold[l]}
GuardrailFrames ==
  LET Of(l) == IF l \in Crossed THEN <<Frame(l, wk.n, 0, Used, 0)>> ELSE <<>>
  IN Of("warning") \o Of("hard")

\* onToolCall: progress, then the guardrails; the report tool is such a call.
ToolCall(reporting) ==
  /\ running /\ ask = 0 /\ wk.n # 0 /\ Room
  /\ found' = found \cup Crossed
  /\ LET sent == <<Frame("tool", wk.n, total, 0, 0)>> \o GuardrailFrames
     IN Send(IF reporting THEN Append(sent, Frame("report", wk.n, total, Used, timeouts)) ELSE sent)
  /\ ask' = IF reporting /\ link # 0 THEN wk.n ELSE 0
  /\ UNCHANGED <<database, broker, link, opened, gone, shut, owner, outbox, total, wk, running,
                 process, history, reader>>

\* The agent goes on with other work, or has not been told that the assignment is closed.
GiveUp ==
  /\ ask # 0 /\ timeouts < MaxTimeouts
  /\ timeouts' = timeouts + 1
  /\ lost' = lost \cup {ask} /\ ask' = 0
  /\ UNCHANGED <<database, broker, wire, total, wk, found, running, process, deaths, work, reader>>

\* agent_settled with no assignment.  A run that settles with one is WorkerBoundary's subject.
Settle ==
  /\ running /\ ask = 0 /\ wk.n = 0
  /\ running' = FALSE
  /\ Send(<<Frame("idle", 0, total, 0, 0)>>)
  /\ UNCHANGED <<database, broker, link, opened, gone, shut, owner, outbox, total, wk, found, ask,
                 process, history, reader>>

Connect ==
  /\ link = 0 /\ opened < MaxConnections
  /\ opened' = opened + 1 /\ link' = opened + 1
  /\ owner' = [owner EXCEPT ![opened + 1] = process]
  /\ inbox' = [inbox EXCEPT ![opened + 1] = <<Frame("hello", 0, 0, 0, process)>>]
  /\ UNCHANGED <<database, broker, gone, shut, outbox, bridge, history, reader>>

\* The close event: what was asked has failed.
Disconnect ==
  /\ gone' = gone \cup {link} /\ link' = 0
  /\ outbox' = [outbox EXCEPT ![link] = <<>>]
  /\ lost' = IF ask = 0 THEN lost ELSE lost \cup {ask}
  /\ ask' = 0

\* The socket breaks; frames the broker has not read yet are still there for it.
Break ==
  /\ link # 0 /\ opened < MaxConnections
  /\ Disconnect
  /\ UNCHANGED <<database, broker, opened, shut, owner, inbox, total, wk, found, running, process,
                 timeouts, deaths, work, reader>>

\* The bridge has read everything the broker wrote before it closed the connection.
SeeShut ==
  /\ link \in shut /\ outbox[link] = <<>>
  /\ Disconnect
  /\ UNCHANGED <<database, broker, opened, shut, owner, inbox, total, wk, found, running, process,
                 timeouts, deaths, work, reader>>

\* Broken: every delivery starts a new baseline (DeltaIsExact).
BaselineAnew(n) == total
\* Broken: a new assignment goes on from the baseline of the last one (DeltasAddUp, FactsAreHonest).
BaselineKept(n) == wk.base
\* Broken: the baseline counts a call that was not made yet (TypeOK).
BaselineAhead(n) == IF wk.n = n THEN wk.base ELSE total + 1
\* assignmentUsageBaseline: a replayed assignment keeps the baseline it was accepted with.
Baseline(n) == IF wk.n = n THEN wk.base ELSE total

\* acceptDelivery: a delivery id it has seen is only acknowledged again.
Accept(f) ==
  /\ IF wk.n = f.n /\ wk.delivery = f.id
     THEN UNCHANGED <<wk, found, running>>
     ELSE /\ wk' = [n |-> f.n, base |-> Baseline(f.n), delivery |-> f.id]
          /\ found' = IF wk.n = f.n THEN found ELSE {}
          /\ running' = TRUE
  /\ Send(<<Frame("ack", f.n, 0, 0, f.id)>>)
  /\ ask' = ask

\* acceptResponse for the report tool: a request that was given up has no waiter, and the
\* bridge may have a newer assignment by now.
Answered(f) ==
  LET waited == ask = f.n /\ timeouts = f.id
  IN /\ ask' = IF waited THEN 0 ELSE ask
     /\ IF waited /\ wk.n = f.n /\ f.ok THEN wk' = Nobody /\ found' = {}
        ELSE UNCHANGED <<wk, found>>
     /\ lost' = IF waited /\ ~f.ok THEN lost \cup {f.n} ELSE lost
     /\ UNCHANGED <<running, inbox>>

\* What follows the answer to hello: the lifecycle frame, with the usage.
Greeted(f) ==
  /\ Send(<<Frame(IF running THEN "active" ELSE "idle", wk.n, total, 0, 0)>>)
  /\ UNCHANGED <<wk, found, running, ask>>

\* acceptClosedAssignment
LearnsClosed(f) ==
  /\ IF f.n = wk.n THEN wk' = Nobody /\ found' = {} ELSE UNCHANGED <<wk, found>>
  /\ UNCHANGED <<running, ask, inbox>>

Receive ==
  /\ link # 0 /\ outbox[link] # <<>>
  /\ LET f == Head(outbox[link])
     IN \/ f.kind = "assignment" /\ Accept(f) /\ lost' = lost
        \/ f.kind = "report" /\ Answered(f)
        \/ f.kind = "hello" /\ Greeted(f) /\ lost' = lost
        \/ f.kind = "closed" /\ LearnsClosed(f) /\ lost' = lost
  /\ outbox' = [outbox EXCEPT ![link] = Tail(@)]
  /\ UNCHANGED <<database, broker, link, opened, gone, shut, owner, total, process, timeouts, deaths,
                 work, reader>>

-----------------------------------------------------------------------------
(* The broker: one coroutine per connection, which reads one frame at a time. *)

\* A frame for the bridge; what is written to a connection the bridge has closed is lost.
Reply(c, frames) == outbox' = IF c \in gone THEN outbox ELSE [outbox EXCEPT ![c] = @ \o frames]

\* Broken: the live activity stays when the connection ends (ActivityIsLive).
ClearedNever(c) == activity' = activity
\* The coroutine's finally: only the registered connection clears the role's row.
Cleared(c) == activity' = IF client = c THEN "none" ELSE activity

End(c) ==
  /\ served' = served \ {c} /\ shut' = shut \cup {c}
  /\ client' = IF client = c THEN 0 ELSE client
  /\ inbox' = [inbox EXCEPT ![c] = <<>>]
  /\ Cleared(c)

\* An error of a handler closes the connection: what it has not read is lost.
Refuse(c, f) ==
  /\ End(c)
  /\ Reply(c, IF f.kind = "report" THEN <<Told("report", f.n, f.id, FALSE)>> ELSE <<>>)
  /\ UNCHANGED <<asg, created, calls, reports, facts>>

\* The handler is done: what the row is now, and what the bridge is told.
Next1(c) == inbox' = [inbox EXCEPT ![c] = Tail(@)] /\ UNCHANGED <<served, shut, client>>

\* handle_progress
Progress(c, f) ==
  IF asg.n # f.n THEN Refuse(c, f)
  ELSE /\ calls' = f.use /\ activity' = f.kind
       /\ Next1(c) /\ UNCHANGED <<asg, created, reports, facts, outbox>>

\* handle_lifecycle: an unassigned greeting, or the last word about a closed assignment, is recorded only.
Lifecycle(c, f) ==
  IF f.n # 0 /\ f.n # asg.n /\ ~(asg.n = 0 /\ f.n \in Closed) THEN Refuse(c, f)
  ELSE /\ IF f.n = asg.n
          THEN calls' = f.use /\ activity' = IF f.kind = "active" /\ asg.state # "uncertain" THEN activity ELSE "none"
          ELSE UNCHANGED <<calls, activity>>
       /\ Next1(c) /\ UNCHANGED <<asg, created, reports, facts, outbox>>

\* handle_guardrail: INSERT OR IGNORE, one row per assignment and level.
Guardrail(c, f) ==
  IF f.n > created THEN Refuse(c, f)
  ELSE /\ facts' = IF \E g \in facts : g.n = f.n /\ g.level = f.kind THEN facts
                   ELSE facts \cup {[n |-> f.n, level |-> f.kind, observed |-> f.delta]}
       /\ Next1(c) /\ UNCHANGED <<asg, created, calls, activity, reports, outbox>>

\* handle_delivery_ack
Ack(c, f) ==
  /\ asg' = IF asg.n = f.n /\ asg.n # 0 /\ asg.delivery = f.id
            THEN [asg EXCEPT !.state = "accepted"] ELSE asg
  /\ Next1(c) /\ UNCHANGED <<created, calls, activity, reports, facts, outbox>>

\* assign: the role's next assignment, if it is to have one.
NewAsg == [n |-> created + 1, state |-> "delivering", delivery |-> generation]

Valid(use) == use >= 0

\* _handle_report: usage, report and role are one commit; then the report is routed, which may
\* assign the role again, and the answer comes last.
Report(c, f) ==
  IF f.n \in Closed
  THEN /\ Reply(c, <<Told("report", f.n, f.id, TRUE)>>)
       /\ Next1(c) /\ UNCHANGED <<asg, created, calls, activity, reports, facts>>
  ELSE IF asg.n # f.n \/ asg.state = "uncertain" \/ ~Valid(f.delta) THEN Refuse(c, f)
  ELSE /\ reports' = Append(reports, [n |-> f.n, delta |-> f.delta])
       /\ calls' = f.use /\ activity' = "none"
       /\ \/ /\ asg' = NoAsg /\ created' = created
             /\ Reply(c, <<Told("report", f.n, f.id, TRUE)>>)
          \/ /\ created < MaxAssignments
             /\ asg' = NewAsg /\ created' = created + 1
             /\ Reply(c, <<Delivery(NewAsg), Told("report", f.n, f.id, TRUE)>>)
       /\ Next1(c) /\ facts' = facts

\* handle_message; a frame of a replaced process is refused.
Current(c) == owner[c] = generation
Handle(c) ==
  /\ c \in served /\ inbox[c] # <<>>
  /\ LET f == Head(inbox[c])
     IN IF ~Current(c) THEN Refuse(c, f)
        ELSE \/ f.kind \in {"streaming", "tool"} /\ Progress(c, f)
             \/ f.kind \in {"idle", "active"} /\ Lifecycle(c, f)
             \/ f.kind \in Levels /\ Guardrail(c, f)
             \/ f.kind = "ack" /\ Ack(c, f)
             \/ f.kind = "report" /\ Report(c, f)
  /\ UNCHANGED <<generation, handover, baseline, link, opened, gone, owner, bridge, history, reader>>

\* The end of the stream.
HandleEnd(c) ==
  /\ c \in served /\ c \in gone /\ inbox[c] = <<>>
  /\ End(c)
  /\ UNCHANGED <<asg, created, calls, reports, facts, generation, handover, baseline,
                 link, opened, gone, owner, outbox, bridge, history, reader>>

\* recover_role: what a worker that comes back is told, and what becomes of its assignment.
LastReport == IF reports = <<>> THEN <<>> ELSE <<Told("closed", Last(reports).n, 0, TRUE)>>
Replay == IF handover THEN [asg EXCEPT !.state = "delivering", !.delivery = generation] ELSE asg
Recover(c) ==
  LET hello == Told("hello", 0, 0, TRUE)
  IN \/ /\ asg.n = 0
        /\ Reply(c, <<hello>> \o LastReport) /\ asg' = asg
     \/ /\ asg.n # 0 /\ asg.state = "accepted"
        /\ asg' = Replay /\ Reply(c, <<hello, Delivery(Replay)>>)
     \/ /\ asg.n # 0 /\ asg.state # "accepted"
        /\ asg' = [asg EXCEPT !.state = "uncertain"] /\ Reply(c, <<hello>>)

\* Connections are accepted, and their first frames read, in the order they were opened.
Waiting(c) == c \notin served /\ inbox[c] # <<>> /\ Head(inbox[c]).kind = "hello"

\* Broken: a second connection of the role is served as well (CumulativeNeverShrinks, StatusGoesForward).
WelcomeAll(c) == Current(c)
\* handle_client up to its loop.  A role has one connection.
Welcome(c) == Current(c) /\ client = 0

HandleHello(c) ==
  /\ Waiting(c) /\ \A d \in 1..(c - 1) : ~Waiting(d)
  /\ IF Welcome(c)
     THEN /\ client' = c /\ served' = served \cup {c} /\ shut' = shut
          /\ inbox' = [inbox EXCEPT ![c] = Tail(@)]
          /\ activity' = "none" /\ handover' = FALSE
          /\ Recover(c)
     ELSE /\ shut' = shut \cup {c} /\ inbox' = [inbox EXCEPT ![c] = <<>>]
          /\ UNCHANGED <<client, served, activity, handover, asg, outbox>>
  /\ UNCHANGED <<created, calls, reports, facts, generation, baseline, link, opened, gone, owner,
                 bridge, history, reader>>

\* assign, for a report of another role
Assign ==
  /\ asg.n = 0 /\ client # 0 /\ created < MaxAssignments
  /\ asg' = NewAsg /\ created' = created + 1 /\ activity' = "none"
  /\ Reply(client, <<Delivery(NewAsg)>>)
  /\ UNCHANGED <<calls, reports, facts, generation, handover, broker, link, opened, gone, shut,
                 owner, inbox, bridge, history, reader>>

\* The restart command: the broker advances the generation, closes the old connection and
\* the old process is replaced by one that reopens its session.
Restart ==
  /\ generation <= MaxRestarts /\ baseline /\ opened < MaxConnections
  /\ generation' = generation + 1 /\ process' = generation + 1 /\ handover' = TRUE
  /\ shut' = IF client = 0 THEN shut ELSE shut \cup {client}
  /\ gone' = IF link = 0 THEN gone ELSE gone \cup {link}
  /\ link' = 0 /\ ask' = 0 /\ running' = FALSE
  /\ outbox' = IF link = 0 THEN outbox ELSE [outbox EXCEPT ![link] = <<>>]
  /\ lost' = IF ask = 0 THEN lost ELSE lost \cup {ask}
  /\ UNCHANGED <<asg, created, calls, activity, reports, facts, broker, opened, owner, inbox,
                 total, wk, found, timeouts, deaths, work, reader>>

\* The broker is killed and started again: _run leaves the rows of the roles as they are,
\* but for those in a handover.
Die ==
  /\ deaths < MaxDeaths /\ opened < MaxConnections
  /\ deaths' = deaths + 1
  /\ client' = 0 /\ served' = {} /\ baseline' = FALSE /\ handover' = FALSE
  /\ shut' = 1..opened /\ inbox' = [c \in Links |-> <<>>]
  /\ UNCHANGED <<asg, created, calls, activity, reports, facts, generation, link, opened, gone,
                 owner, outbox, bridge, timeouts, work, lost, reader>>

-----------------------------------------------------------------------------
(* Commands of other processes, each read in a transaction of its own. *)

\* _public_assignment_guardrails: of the active assignment, or of the latest.
Marked == IF asg.n = 0 THEN created ELSE asg.n
Marks  == {f.level : f \in {g \in facts : g.n = Marked}}

\* public_broker_snapshot, the loop over the roles
Snapshot == [calls |-> calls, latest |-> IF reports = <<>> THEN 0 ELSE Last(reports).n,
             marked |-> Marked, marks |-> Marks]

Newest(limit) == SubSeq(reports, IF Len(reports) > limit THEN Len(reports) - limit + 1 ELSE 1,
                        Len(reports))
\* Broken: the query asks for as many rows as the page holds (NothingMissing).
PageShort == [listed |-> Newest(Limit), truncated |-> Len(Newest(Limit)) > Limit]
\* public_assignment_usage: one row more than the page holds tells that there are more.
Page == [listed |-> Newest(Limit), truncated |-> Len(Newest(Limit + 1)) > Limit]

Take(request, next) ==
  /\ reading = "none" /\ request \in Requests
  /\ reading' = next
  /\ answer' = [request |-> request, snapshot |-> Snapshot]
  /\ UNCHANGED <<database, broker, wire, bridge, history>>

\* supervisor_snapshot reads once, supervisor_usage and status_command twice.
AskSnapshot == Take("snapshot", "none")
AskUsage    == Take("usage", "usage")
AskStatus   == Take("status", "status")

\* supervisor_usage reads the page on a connection of its own.
ReadPage ==
  /\ reading = "usage"
  /\ reading' = "none"
  /\ answer' = [request |-> "usage", snapshot |-> answer.snapshot, page |-> Page]
  /\ UNCHANGED <<database, broker, wire, bridge, history>>

\* status_roles takes a snapshot of its own.
StatusAnswer(first, second) == [request |-> "status", snapshot |-> first, roles |-> second]
ReadRoles ==
  /\ reading = "status"
  /\ reading' = "none"
  /\ answer' = StatusAnswer(answer.snapshot, Snapshot)
  /\ UNCHANGED <<database, broker, wire, bridge, history>>

\* try_public_broker_snapshot: the database is busy, and the command answers without it.
Busy ==
  /\ reading # "none"
  /\ reading' = "none" /\ answer' = <<>>
  /\ UNCHANGED <<database, broker, wire, bridge, history>>

Next ==
  \/ Call \/ ToolCall(FALSE) \/ ToolCall(TRUE) \/ GiveUp \/ Settle
  \/ Connect \/ Break \/ SeeShut \/ Receive
  \/ \E c \in Links : Handle(c) \/ HandleEnd(c) \/ HandleHello(c)
  \/ Assign \/ Restart \/ Die
  \/ AskSnapshot \/ AskUsage \/ AskStatus
  \/ ReadPage \/ ReadRoles \/ Busy

Spec == Init /\ [][Next]_vars

-----------------------------------------------------------------------------
(* Properties. *)

\* protocol-v1, "Token accounting": the usage the broker keeps is the session's, and never goes
\* back, whatever order the frames of old and new connections are read in.
CumulativeNeverShrinks == [][calls' >= calls]_vars

Deltas(rs) == FoldSeq(LAMBDA r, sum : r.delta + sum, 0, rs)

\* A provider call is counted for one assignment at most: together the deltas of the accepted
\* reports are no more than what the role has used.
DeltasAddUp == Deltas(reports) <= calls

\* "immutable delta from the accepted assignment boundary" (supervisor_usage): the delta is what
\* the sessions used while they had the assignment, across reconnections and replacements of the
\* process, unless an answer to a report was lost and the work went on.
DeltaIsExact ==
  \A i \in DOMAIN reports : LET r == reports[i]
                            IN r.delta <= work[r.n] /\ (r.n \notin lost => r.delta = work[r.n])

\* "warning delivery and provider-call counts do not reset silently": a fact reports calls of its
\* own assignment only, and there is one per level, the hard one not below the warning.
FactsAreHonest ==
  /\ \A f \in facts : Threshold[f.level] <= f.observed /\ f.observed <= work[f.n]
  /\ \A f, g \in facts : f.n = g.n =>
       /\ f.level = g.level => f = g
       /\ f.level = "warning" /\ g.level = "hard" => f.observed <= g.observed

\* protocol-v1: live activity is cleared "when the role settles, disconnects, or changes
\* assignment": who reads it sees a connected worker at work.
ActivityIsLive == activity # "none" => client # 0 /\ asg.n # 0

\* supervisor_usage: a report that the snapshot knows of is on the page, or the page says that it
\* was cut.
NothingMissing ==
  reading = "none" /\ answer # <<>> /\ answer.request = "usage" =>
    \/ answer.snapshot.latest \in {0} \cup {r.n : r \in ToSet(answer.page.listed)}
    \/ answer.page.truncated

\* supervisor_usage: "complete retained role usage" is no less than the deltas listed beside it.
CumulativeCovers ==
  reading = "none" /\ answer # <<>> /\ answer.request = "usage" =>
    Deltas(answer.page.listed) <= answer.snapshot.calls

\* status_command: the roles in an answer are not older than the workflow and totals beside them.
StatusGoesForward ==
  reading = "none" /\ answer # <<>> /\ answer.request = "status" =>
    LET first == answer.snapshot
        second == answer.roles
    IN /\ first.calls <= second.calls /\ first.latest <= second.latest
       /\ first.marked = second.marked => first.marks \subseteq second.marks
=============================================================================
