------------------------------- MODULE Observers -------------------------------
(* The read-only observers of a broker (broker_observers.py) and the parent Pi *)
(* that watches a run through one (extensions/orchestrator-parent.js).  The    *)
(* broker's handlers share one event loop: each commits its change and then    *)
(* sends frames to every observer, waiting up to a second for each.  A parent  *)
(* that connects gets the reports the broker still has in memory, then a       *)
(* snapshot; frames of other handlers come in between.  A broker that dies     *)
(* forgets the reports, a slow observer is dropped, a parent connects again.   *)
EXTENDS Naturals, Sequences, SequencesExt

CONSTANTS Parents,     \* observers
          Workers,     \* roles whose connections the broker serves
          Reviewer,    \* the worker whose verdict ends a round
          Limit,       \* MAX_OBSERVER_REPORTS, and the most reports a parent keeps
          Buffer,      \* frames a connection holds before its writer has to wait
          MaxRetries,  \* failed connections in a row before a parent gives up
          MaxReports, MaxChanges, MaxCrashes, MaxBreaks \* bounds

\* Assumed of the constants by every module that instantiates this one.
ObserverAssumption ==
    /\ Reviewer \in Workers /\ "self" \notin Workers /\ "operator" \notin Workers
    /\ {Limit, Buffer, MaxRetries, MaxReports, MaxChanges, MaxCrashes, MaxBreaks} \subseteq Nat

VARIABLES workflow, round, \* meta
          paused,   \* meta: call_admission_paused, pending_repair_round
          filed,    \* accepted reports in order: role and round
          up,       \* whether the broker runs
          recent,   \* recent_reports
          members,  \* the set `observers`
          plan,     \* what each handler has still to do
          server,   \* handle_observer of each parent's connection
          tube,     \* frames from the broker to each parent
          link,     \* each parent's connection
          parent,   \* what each parent knows
          owed,     \* parents not yet told of the pause the workflow is in
          used      \* changes, crashes and breaks so far

durable == <<workflow, round, paused, filed>>
memory == <<recent, members, plan, server>>
vars == <<durable, up, memory, tube, link, parent, owed, used>>

Tasks == Workers \cup {"operator"}
Ends == {"ready", "uncertain"}
Workflows == Ends \cup {"active", "needs_attention", "routing"}
Ids == 1 .. MaxReports

Empty == [soon |-> <<>>, line |-> <<>>, holder |-> "", wire |-> <<>>]
Unserved == [step |-> "none", left |-> <<>>, now |-> FALSE]
Waiting == [on |-> TRUE, seen |-> <<>>, snap |-> FALSE, wf |-> "starting",
            noted |-> FALSE, retries |-> 0, told |-> "",
            fresh |-> FALSE] \* history: this connection's snapshot has come

TypeOK ==
    /\ workflow \in Workflows /\ round \in 1 .. MaxReports + 1 /\ paused \subseteq {"calls", "repair"}
    /\ filed \in Seq([by : Workers, round : 1 .. MaxReports + 1]) /\ Len(filed) <= MaxReports
    /\ up \in BOOLEAN /\ members \subseteq Parents
    /\ ToSet(recent) \subseteq Ids /\ Len(recent) <= Limit
    /\ DOMAIN plan = Tasks
    /\ \A o \in Parents :
         /\ server[o].step \in {"none", "list", "replay", "read"}
         /\ ToSet(server[o].left) \subseteq Ids /\ server[o].now \in BOOLEAN
         /\ tube[o].holder \in Tasks \cup {"", "self"}
         /\ Len(tube[o].wire) <= Buffer + 1
         /\ link[o] \in {"none", "asked", "up", "shut"}
         /\ ToSet(parent[o].seen) \subseteq Ids /\ Len(parent[o].seen) <= Limit
         /\ parent[o].told \in Ends \cup {"", "needs_attention"}
         /\ parent[o].wf \in (Workflows \cup {"starting"}) \ {"routing"}
         /\ parent[o].retries \in 0 .. MaxRetries + 1
    /\ owed \subseteq Parents
    /\ used \in [changes : 0 .. MaxChanges, crashes : 0 .. MaxCrashes, breaks : 0 .. MaxBreaks]

Init ==
    /\ workflow = "active" /\ round = 1 /\ paused = {} /\ filed = <<>>
    /\ up = TRUE /\ recent = <<>> /\ members = {}
    /\ plan = [t \in Tasks |-> <<>>]
    /\ server = [o \in Parents |-> Unserved] /\ tube = [o \in Parents |-> Empty]
    /\ link = [o \in Parents |-> "none"] /\ parent = [o \in Parents |-> Waiting]
    /\ owed = {} /\ used = [changes |-> 0, crashes |-> 0, breaks |-> 0]

-----------------------------------------------------------------------------
(* send_lock and StreamWriter.drain: the sender whose frame filled the buffer   *)
(* keeps the lock until the parent has read; the others wait in their order.    *)

Write(c, e) == [c EXCEPT !.wire = Append(@, e.frame),
                         !.holder = IF Len(c.wire) >= Buffer THEN e.by ELSE ""]
Put(c, e) == IF c.holder = "" /\ c.line = <<>> THEN Write(c, e)
             ELSE [c EXCEPT !.line = Append(@, e)]
Released(c) == IF c.line = <<>> THEN [c EXCEPT !.holder = ""]
               ELSE Write([c EXCEPT !.line = Tail(@)], Head(c.line))

SentBy(c, by) == c.holder = by \/ \E e \in ToSet(c.soon) \cup ToSet(c.line) : e.by = by
Sends(o, by) == SentBy(tube[o], by)

\* A send that need not wait does not give way: handle_observer keeps the event loop.
LoopFree == up /\ \A o \in Parents : ~server[o].now
Free(t) == LoopFree /\ \A o \in Parents : ~Sends(o, t)

RoleFrame == [type |-> "role"]
Route == [type |-> "route"]
Repairs == [type |-> "assign"]
ReportFrame(id) == [type |-> "report", id |-> id]
WorkflowFrame(state) == [type |-> "workflow", state |-> state]

\* broadcast_workflow reads the admission pause when it sends.
Shown(state) == IF "calls" \in paused /\ state \in {"active", "ready"} THEN "needs_attention" ELSE state

\* broadcast: one task for each observer of this moment.
Cast(t, frame) ==
    tube' = [o \in Parents |->
               IF o \in members
               THEN [tube[o] EXCEPT !.soon = Append(@, [frame |-> frame, by |-> t])]
               ELSE tube[o]]

Enters(state) ==
    /\ workflow' = state
    /\ owed' = IF state = "needs_attention"
               THEN IF workflow = "needs_attention" THEN owed ELSE Parents
               ELSE {}

Change == used.changes < MaxChanges /\ used' = [used EXCEPT !.changes = @ + 1]
Continues(t, steps) == plan' = [plan EXCEPT ![t] = steps]
Starts(t) == Free(t) /\ plan[t] = <<>>

-----------------------------------------------------------------------------
(* Handlers.                                                                   *)

\* Broken: the oldest reports are never forgotten (TypeOK).
RememberedAll(s) == Append(recent, s)
\* _remember_report.
Remembered(s) == LET all == Append(recent, s)
                 IN SubSeq(all, Len(all) - (IF Len(all) > Limit THEN Limit ELSE Len(all)) + 1, Len(all))

\* _handle_report: accepted, remembered, sent to the observers, then routed.
Report(w) ==
    /\ Starts(w) /\ Len(filed) < MaxReports /\ workflow # "ready"
    /\ filed' = Append(filed, [by |-> w, round |-> round])
    /\ recent' = Remembered(Len(filed'))
    /\ Cast(w, ReportFrame(Len(filed')))
    /\ Continues(w, <<Route, RoleFrame>>)
    /\ UNCHANGED <<workflow, round, paused, up, members, server, link, parent, owed, used>>

At(t, step) == Free(t) /\ plan[t] # <<>> /\ Head(plan[t]) = step
Routing(w) == At(w, Route)
Routed(w, state, steps) ==
    /\ Enters(state) /\ Cast(w, WorkflowFrame(Shown(state))) /\ Continues(w, steps)
    /\ UNCHANGED <<filed, up, recent, members, server, link, parent, used>>

RouteEvidence(w) ==
    /\ Routing(w) /\ Continues(w, Tail(plan[w]))
    /\ UNCHANGED <<durable, up, recent, members, server, tube, link, parent, owed, used>>
RouteApproval(w) ==
    /\ Routing(w) /\ w = Reviewer /\ UNCHANGED <<round, paused>>
    /\ Routed(w, IF "calls" \in paused THEN "needs_attention" ELSE "ready", Tail(plan[w]))
RouteRejection(w) ==
    /\ Routing(w) /\ w = Reviewer /\ round <= MaxReports
    /\ round' = round + 1 /\ UNCHANGED paused
    /\ Routed(w, "active", <<Repairs>> \o Tail(plan[w]))
RouteFailure(w) ==
    /\ Routing(w) \/ At(w, Repairs)
    /\ Routed(w, "uncertain", <<>>) /\ UNCHANGED <<round, paused>>

\* assign, for the next round: made, or held back at the limit of repair rounds.
AssignRepair(w) ==
    /\ At(w, Repairs) /\ Continues(w, Tail(plan[w]))
    /\ UNCHANGED <<durable, up, recent, members, server, tube, link, parent, owed, used>>
HoldRepair(w) ==
    /\ At(w, Repairs) /\ paused' = paused \cup {"repair"} /\ UNCHANGED round
    /\ Routed(w, "needs_attention", Tail(plan[w]))

\* handle_lifecycle: the role frame first, then the transition committed before it.
Lifecycle(w, state) ==
    /\ Starts(w) /\ Change
    /\ \/ state = "active" /\ workflow = "needs_attention" /\ "calls" \notin paused
       \/ state = "needs_attention" /\ workflow \in {"active", "routing"}
       \/ state = "uncertain" /\ workflow \notin Ends
    /\ Enters(state) /\ Cast(w, RoleFrame) /\ Continues(w, <<WorkflowFrame(state)>>)
    /\ UNCHANGED <<round, paused, filed, up, recent, members, server, link, parent>>

\* handle_attention, handle_settlement, recover_role, and handle_provider_turn when it denies.
Attention(w, denied) ==
    /\ Starts(w) /\ Change /\ workflow # "ready"
    /\ Enters(IF workflow = "uncertain" THEN workflow ELSE "needs_attention")
    /\ paused' = paused \cup (IF denied THEN {"calls"} ELSE {})
    /\ Continues(w, <<RoleFrame, WorkflowFrame("needs_attention")>>)
    /\ UNCHANGED <<round, filed, up, recent, members, server, tube, link, parent>>

\* A delivery, a recovery or a handover fails: committed and broadcast at once.
Uncertain(w) ==
    /\ Starts(w) /\ Change
    /\ Enters("uncertain") /\ Cast(w, WorkflowFrame("uncertain"))
    /\ UNCHANGED <<round, paused, filed, up, memory, link, parent>>

\* Operator guidance lets a waiting worker go on: nothing is broadcast.
Guide ==
    /\ Starts("operator") /\ Change /\ workflow = "needs_attention" /\ "repair" \notin paused
    /\ Enters("active")
    /\ UNCHANGED <<round, paused, filed, up, memory, tube, link, parent>>

\* Guidance to the implementer of an approved run opens a round.
Reopen ==
    /\ Starts("operator") /\ Change /\ workflow = "ready" /\ round <= MaxReports
    /\ Enters("active") /\ round' = round + 1
    /\ Continues("operator", <<WorkflowFrame("active")>>)
    /\ UNCHANGED <<paused, filed, up, recent, members, server, tube, link, parent>>

ExtendCalls ==
    /\ Starts("operator") /\ "calls" \in paused /\ paused' = paused \ {"calls"}
    /\ UNCHANGED <<workflow, round, filed, up, memory, tube, link, parent, owed, used>>

\* `continue`: one more repair round; the state is read again for the broadcast.
Continue ==
    /\ Starts("operator") /\ Change /\ workflow = "needs_attention" /\ "repair" \in paused
    /\ Enters("routing") /\ Continues("operator", <<Repairs>>)
    /\ UNCHANGED <<round, paused, filed, up, recent, members, server, tube, link, parent>>
Repair ==
    /\ At("operator", Repairs)
    /\ Enters("active") /\ Continues("operator", <<Route>>) /\ paused' = paused \ {"repair"}
    /\ UNCHANGED <<round, filed, up, recent, members, server, tube, link, parent, used>>
Confirm ==
    /\ At("operator", Route) /\ Continues("operator", <<>>)
    /\ Cast("operator", WorkflowFrame(Shown(workflow)))
    /\ UNCHANGED <<durable, up, recent, members, server, link, parent, owed, used>>
\* Broken: the failure is committed but not broadcast (EndIsTold).
RepairFailsSilently ==
    /\ At("operator", Repairs) \/ At("operator", Route)
    /\ Enters("uncertain") /\ Continues("operator", <<>>)
    /\ UNCHANGED <<round, paused, filed, up, recent, members, server, tube, link, parent, used>>
RepairFails ==
    /\ At("operator", Repairs) \/ At("operator", Route)
    /\ Routed("operator", "uncertain", <<>>) /\ UNCHANGED <<round, paused>>

\* The next broadcast of a handler.
Broadcast(t) ==
    /\ Free(t) /\ plan[t] # <<>> /\ Head(plan[t]) \notin {Route, Repairs}
    /\ LET f == Head(plan[t])
       IN Cast(t, IF f.type = "workflow" THEN WorkflowFrame(Shown(f.state)) ELSE f)
    /\ Continues(t, Tail(plan[t]))
    /\ UNCHANGED <<durable, up, recent, members, server, link, parent, owed, used>>

-----------------------------------------------------------------------------
(* The connection of a parent, at the broker.                                  *)

Sent(o, c) == tube' = [tube EXCEPT ![o] = c]
Serves(o, step, left, now) ==
    server' = [server EXCEPT ![o] = [step |-> step, left |-> left, now |-> now]]
\* send_observer, and whether it had to wait.
Answers(o, frame, step, left) ==
    LET c == Put(tube[o], [frame |-> frame, by |-> "self"])
    IN Sent(o, c) /\ Serves(o, step, left, step # "read" /\ ~SentBy(c, "self"))
HasLoop(o) == /\ up /\ link[o] = "up" /\ ~Sends(o, "self")
              /\ \A x \in Parents \ {o} : ~server[x].now

\* handle_observer: registered first, then answered.
Accept(o) ==
    /\ LoopFree /\ link[o] = "asked" /\ link' = [link EXCEPT ![o] = "up"]
    /\ members' = members \cup {o} /\ Answers(o, [type |-> "response"], "list", <<>>)
    /\ UNCHANGED <<durable, up, recent, plan, parent, owed, used>>

CopyRecent(o) ==
    /\ HasLoop(o) /\ server[o].step = "list" /\ Serves(o, "replay", recent, TRUE)
    /\ UNCHANGED <<durable, up, recent, members, plan, tube, link, parent, owed, used>>

Replay(o) ==
    /\ HasLoop(o) /\ server[o].step = "replay" /\ server[o].left # <<>>
    /\ Answers(o, ReportFrame(Head(server[o].left)), "replay", Tail(server[o].left))
    /\ UNCHANGED <<durable, up, recent, members, plan, link, parent, owed, used>>

\* Broken: reports forgotten by a dead broker are not counted (NoReportIsLost).
ReplayCompleteWhenShort == Len(recent) <= Limit
ReplayComplete == Len(filed) <= Len(recent)

Snapshot(o) ==
    /\ HasLoop(o) /\ server[o].step = "replay" /\ server[o].left = <<>>
    /\ Answers(o, [type |-> "snapshot", state |-> IF workflow = "routing" THEN "active" ELSE workflow,
                   count |-> Len(filed), complete |-> ReplayComplete], "read", <<>>)
    /\ UNCHANGED <<durable, up, recent, members, plan, link, parent, owed, used>>

\* A task of a broadcast starts; a writer goes on when the parent has read enough.
Begin(o) ==
    /\ LoopFree /\ tube[o].soon # <<>>
    /\ Sent(o, Put([tube[o] EXCEPT !.soon = Tail(@)], Head(tube[o].soon)))
    /\ UNCHANGED <<durable, up, memory, link, parent, owed, used>>
Drained(o) ==
    /\ LoopFree /\ IF tube[o].holder = "" THEN tube[o].line # <<>> ELSE Len(tube[o].wire) <= Buffer
    /\ Sent(o, Released(tube[o]))
    /\ UNCHANGED <<durable, up, memory, link, parent, owed, used>>

Forgets(o) == members' = members \ {o} /\ server' = [server EXCEPT ![o] = Unserved]

\* Broken: a broadcast waits for as long as it takes (RoutingGoesOn).
SlowIsAwaited(o) == FALSE /\ Forgets(o) /\ UNCHANGED <<durable, up, recent, plan, tube, link, parent, owed, used>>
\* Broken: the observer is dropped, its connection stays open (EndIsReached).
SlowIsForgotten(o) ==
    /\ LoopFree /\ Len(tube[o].wire) > Buffer /\ \E t \in Tasks : Sends(o, t)
    /\ Forgets(o) /\ Sent(o, [Empty EXCEPT !.wire = tube[o].wire])
    /\ UNCHANGED <<durable, up, recent, plan, link, parent, owed, used>>

\* wait_for: a broadcast that takes a second drops the observer.
SlowIsDropped(o) ==
    /\ LoopFree /\ Len(tube[o].wire) > Buffer /\ \E t \in Tasks : Sends(o, t)
    /\ Forgets(o) /\ link' = [link EXCEPT ![o] = "shut"]
    /\ Sent(o, [Empty EXCEPT !.wire = tube[o].wire])
    /\ UNCHANGED <<durable, up, recent, plan, parent, owed, used>>

\* The broker dies: reports, observers and handlers are gone; a new one repairs the state.
Crash ==
    /\ up /\ used.crashes < MaxCrashes /\ used' = [used EXCEPT !.crashes = @ + 1]
    /\ up' = FALSE /\ recent' = <<>> /\ members' = {}
    /\ plan' = [t \in Tasks |-> <<>>] /\ server' = [o \in Parents |-> Unserved]
    /\ tube' = [o \in Parents |-> [Empty EXCEPT !.wire = tube[o].wire]]
    /\ link' = [o \in Parents |-> IF link[o] = "none" THEN "none" ELSE "shut"]
    /\ UNCHANGED <<durable, parent, owed>>
Restart ==
    /\ ~up /\ up' = TRUE
    /\ Enters(IF workflow = "routing" THEN "uncertain" ELSE workflow)
    /\ UNCHANGED <<round, paused, filed, memory, tube, link, parent, used>>

-----------------------------------------------------------------------------
(* The parent.                                                                 *)

Tells(p, state) == [p EXCEPT !.told = state, !.on = state = "needs_attention"]

\* acceptWorkflow.
Follows(p, state) ==
    LET q == [p EXCEPT !.wf = state]
    IN CASE state = "active" -> [q EXCEPT !.noted = FALSE]
         [] state = "needs_attention" /\ ~p.noted -> Tells([q EXCEPT !.noted = TRUE], state)
         [] state \in Ends -> Tells(q, state)
         [] OTHER -> q

Known(p, id) == id \in ToSet(p.seen)
Overflows(p, f) == f.type = "report" /\ ~Known(p, f.id) /\ Len(p.seen) >= Limit

\* Broken: the comparison is the wrong way round (ReadyIsComplete).
ReplayLostReversed(p, f) == ~f.complete /\ Len(p.seen) > f.count
ReplayLost(p, f) == ~f.complete /\ Len(p.seen) < f.count

\* Broken: the first snapshot only shows the state (EndIsTold).
TakesQuietly(p, f) ==
    CASE f.type = "report" /\ ~Known(p, f.id) -> [p EXCEPT !.seen = Append(@, f.id)]
      [] f.type = "snapshot" -> [p EXCEPT !.retries = 0, !.snap = TRUE, !.fresh = TRUE, !.wf = f.state]
      [] f.type = "workflow" -> Follows(p, f.state)
      [] OTHER -> p

\* acceptFrame.
Takes(p, f) ==
    CASE f.type = "report" /\ ~Known(p, f.id) -> [p EXCEPT !.seen = Append(@, f.id)]
      [] f.type = "snapshot" ->
           Follows([p EXCEPT !.retries = 0, !.snap = TRUE, !.fresh = TRUE],
                   IF ReplayLost(p, f) THEN "uncertain" ELSE f.state)
      [] f.type = "workflow" -> Follows(p, f.state)
      [] OTHER -> p

\* scheduleReconnect.
Retries(p) == IF p.retries >= MaxRetries
              THEN [Tells(p, "uncertain") EXCEPT !.wf = "uncertain", !.retries = @ + 1]
              ELSE [p EXCEPT !.retries = @ + 1, !.fresh = FALSE]

\* The parent's end is destroyed; the broker reads the end of the stream.
Hangs(o) ==
    /\ link' = [link EXCEPT ![o] = "none"] /\ Forgets(o) /\ Sent(o, Empty)

Knows(o, p) ==
    /\ parent' = [parent EXCEPT ![o] = p]
    /\ owed' = IF p.told # parent[o].told \/ (p.noted /\ ~parent[o].noted) THEN owed \ {o} ELSE owed

Read(o) ==
    /\ link[o] \in {"up", "shut"} /\ tube[o].wire # <<>> /\ parent[o].on
    /\ LET f == Head(tube[o].wire) p == parent[o]
       IN IF Overflows(p, f)
          THEN Knows(o, Retries(p)) /\ Hangs(o)
          ELSE /\ Knows(o, Takes(p, f))
               /\ IF Takes(p, f).on
                  THEN Sent(o, [tube[o] EXCEPT !.wire = Tail(@)]) /\ UNCHANGED <<link, members, server>>
                  ELSE Hangs(o)
    /\ UNCHANGED <<durable, up, recent, plan, used>>

Connect(o) ==
    /\ link[o] = "none" /\ parent[o].on
    /\ IF up THEN link' = [link EXCEPT ![o] = "asked"] /\ UNCHANGED <<parent, owed>>
             ELSE Knows(o, Retries(parent[o])) /\ UNCHANGED link
    /\ UNCHANGED <<durable, up, memory, tube, used>>

SeesClosed(o) ==
    /\ link[o] = "shut" /\ tube[o].wire = <<>>
    /\ Knows(o, Retries(parent[o])) /\ Hangs(o)
    /\ UNCHANGED <<durable, up, recent, plan, used>>

Break(o) ==
    /\ link[o] \in {"asked", "up"} /\ parent[o].on
    /\ used.breaks < MaxBreaks /\ used' = [used EXCEPT !.breaks = @ + 1]
    /\ Knows(o, Retries(parent[o])) /\ Hangs(o)
    /\ UNCHANGED <<durable, up, recent, plan>>

-----------------------------------------------------------------------------
Handler(w) ==
    \/ Report(w) \/ RouteEvidence(w) \/ RouteApproval(w) \/ RouteRejection(w) \/ RouteFailure(w)
    \/ AssignRepair(w) \/ HoldRepair(w) \/ Uncertain(w)
    \/ \E state \in {"active", "needs_attention", "uncertain"} : Lifecycle(w, state)
    \/ \E denied \in BOOLEAN : Attention(w, denied)
Operator == Guide \/ Reopen \/ ExtendCalls \/ Continue \/ Repair \/ Confirm \/ RepairFails
Connection(o) == Accept(o) \/ CopyRecent(o) \/ Replay(o) \/ Snapshot(o) \/ Begin(o) \/ Drained(o)
                 \/ SlowIsDropped(o)
Parent(o) == Read(o) \/ Connect(o) \/ SeesClosed(o) \/ Break(o)

Next == \/ \E w \in Workers : Handler(w)
        \/ Operator \/ \E t \in Tasks : Broadcast(t)
        \/ \E o \in Parents : Connection(o) \/ Parent(o)
        \/ Crash \/ Restart

Spec == Init /\ [][Next]_vars

\* The event loop runs what can run and wait_for ends; nobody makes a parent read.
LoopSpec ==
    /\ Spec
    /\ \A t \in Tasks : WF_vars(Broadcast(t))
    /\ \A w \in Workers : WF_vars(\/ RouteEvidence(w) \/ RouteApproval(w) \/ RouteRejection(w)
                                  \/ RouteFailure(w) \/ AssignRepair(w) \/ HoldRepair(w))
    /\ WF_vars(Repair \/ Confirm \/ RepairFails)
    /\ \A o \in Parents : WF_vars(Connection(o))

\* The same, with parents that read and connect, and a broker that is started again.
FairSpec ==
    /\ LoopSpec /\ WF_vars(Restart)
    /\ \A o \in Parents : WF_vars(Read(o)) /\ WF_vars(Connect(o)) /\ WF_vars(SeesClosed(o))
-----------------------------------------------------------------------------
(* Properties.                                                                 *)

Quiet(o) == /\ link[o] = "up" /\ parent[o].on /\ server[o].step = "read"
            /\ [tube[o] EXCEPT !.wire = <<>>] = Empty /\ tube[o].wire = <<>>
Settled == \A t \in Tasks : plan[t] = <<>>
Filed == 1 .. Len(filed)

\* A parent that has nothing left to read has every report ever accepted: through
\* the replay, the frames that overtake it, a drop and a reconnection.  When the
\* broker has lost reports the parent lacks, it has stopped as uncertain instead.
NoReportIsLost == \A o \in Parents : Quiet(o) => ToSet(parent[o].seen) = Filed

\* No parent keeps waiting on a run that is over: with nothing left to read, it has
\* been told of `ready` or `uncertain`, however late it connected.
EndIsTold == \A o \in Parents : Quiet(o) /\ Settled => workflow \notin Ends

\* A parent that has had the snapshot of its connection and is told of the approval has every report
\* the approval rests on.
ReadyIsComplete ==
    [][\A o \in Parents :
         parent'[o].told = "ready" /\ parent[o].told # "ready" /\ parent[o].fresh
           => ToSet(parent'[o].seen) = Filed]_vars

\* An observer that never reads does not keep a handler from going on.
RoutingGoesOn == \A t \in Tasks : plan[t] # <<>> /\ up ~> plan[t] = <<>>

\* Once a run has ended for good every parent is told, and stops.
EndIsReached == \A o \in Parents : (<>[](workflow \in Ends)) => <>(parent[o].told \in Ends)

\* usage.md: attention updates are sent "when parent intervention is required".
\* Every pause of the workflow is told to a parent that has nothing left to read.
EveryPauseIsTold ==
    \A o \in Parents : Quiet(o) /\ Settled /\ workflow = "needs_attention" => o \notin owed

\* broker_control.py: "Do not overwrite a newer attention/ready/uncertain observer state."
NewerStateStays ==
    \A o \in Parents : Quiet(o) /\ Settled /\ workflow = "needs_attention" => parent[o].wf = "needs_attention"

\* usage.md: "sends bounded structured role reports when the workflow becomes `ready`".
ReadyHasReports == \A o \in Parents : parent[o].told = "ready" /\ workflow = "ready"
                                        => ToSet(parent[o].seen) = Filed

\* usage.md: a parent "returns the latest structured reports to the parent Pi".
\* latestReports: of a role's reports of its highest round, the last that came.
Of(p, w) == {i \in DOMAIN p.seen : filed[p.seen[i]].by = w}
Top(p, w) == {i \in Of(p, w) : \A j \in Of(p, w) : filed[p.seen[j]].round <= filed[p.seen[i]].round}
Listed(p, w) == p.seen[CHOOSE i \in Top(p, w) : \A j \in Top(p, w) : j <= i]
LatestIsListed ==
    \A o \in Parents : Quiet(o) => \A w \in Workers :
      \A i \in Of(parent[o], w) : parent[o].seen[i] <= Listed(parent[o], w)
=============================================================================
