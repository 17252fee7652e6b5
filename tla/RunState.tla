-------------------------------- MODULE RunState --------------------------------
(* What the broker tells a worker of the reports of the others: the run-state   *)
(* capsule (broker_workflow.py, context_capsules.py), sent at once to a role     *)
(* without an assignment and deferred for a busy one, and the hints that a       *)
(* capsule of a role with retained context adds: whether the files are still as  *)
(* they were when a report was accepted (evidence_reuse.py).  The handlers share *)
(* one event loop and give way only in a send to a worker that is slow to read;  *)
(* anybody edits files at any time.                                              *)
EXTENDS Integers, Sequences, FiniteSets, SequencesExt

CONSTANTS Specialists,
          Early,         \* the specialist decided on when the run starts
          Retained,      \* roles whose worker context is "retain"
          Files,         \* bound: the inventory is of the files 1 .. Files
          MaxReports, MaxEdits, MaxGuidance, MaxStalls, MaxBreaks

Roles == {"implementer", "reviewer"} \cup Specialists
Coroutines == Roles \cup {"operator"}

\* Assumed of the constants by every module that instantiates this one.
RunStateAssumption ==
    /\ Specialists \cap {"implementer", "reviewer", "operator", ""} = {} /\ IsFiniteSet(Specialists)
    /\ Retained \subseteq Roles
    /\ {Files, MaxReports, MaxEdits, MaxGuidance, MaxStalls, MaxBreaks} \subseteq Nat

VARIABLES filed,      \* the accepted reports, in order: who and for which round
          round, busy,    \* meta.round; roles with an active assignment
          decided, activated, \* specialist_activations of this round: all, and those that run
          gated,      \* the last round with an assignment of the reviewer
          clients,    \* roles whose connection is registered
          steps,      \* by task: what its handler has left to do
          turn,       \* the handler that has the event loop, "" when all have given way
          queue,      \* by role: the sends under its lock; the first is written and not drained
          pending,    \* pending_run_state
          kept,       \* role_run_state
          heard,      \* by role: the last capsule written to its connection
          receipts, guidance,   \* EvidenceReuse: by role, and the guidance generation
          files,      \* by file: the edits made
          look,       \* the observation of the worktree under way
          fresh,      \* history: reports since whose acceptance nothing was edited or guided
          owed,       \* history: by role, the last report it was to be told of
          limits      \* edits, stalls and breaks so far

reports == <<filed, round, busy, decided, activated, gated>>
told    == <<pending, kept, heard, owed>>
hints   == <<receipts, guidance, fresh>>
vars    == <<reports, clients, steps, turn, queue, told, hints, files, look, limits>>

Unread   == [on |-> FALSE, seen |-> <<>>, fresh |-> {}, failed |-> FALSE]
Nothing  == [n |-> 0, unchanged |-> {}, fresh |-> {}]
NoStamp  == <<>>
Reports  == 0 .. MaxReports

TypeOK ==
    /\ \A i \in DOMAIN filed : filed[i].by \in Roles /\ filed[i].round \in 1 .. round
    /\ Len(filed) \in Reports /\ round \in 1 .. MaxReports + 1 /\ gated \in 0 .. round
    /\ busy \cup clients \cup pending \cup fresh \subseteq Roles /\ activated \subseteq decided
    /\ decided \subseteq Specialists
    /\ turn \in Coroutines \cup {""} /\ turn # "" => steps[turn] # <<>>
    /\ \A r \in Roles :
         /\ kept[r].n \in Reports /\ heard[r].n \in Reports /\ owed[r] \in Reports
         /\ \A i \in DOMAIN queue[r] : queue[r][i].by \in Coroutines
         /\ r \in clients \/ queue[r] = <<>>
         /\ receipts[r].guidance \in -1 .. guidance
    /\ guidance \in 0 .. MaxGuidance /\ Len(look.seen) \in 0 .. 2 * Files
    /\ limits \in [edits : 0 .. MaxEdits, stalls : 0 .. MaxStalls, breaks : 0 .. MaxBreaks]

\* The implementer is at work, and perhaps the specialist that may start with it.
Init ==
    /\ filed = <<>> /\ round = 1 /\ gated = 0
    /\ decided = {Early} \cap Specialists /\ activated \in SUBSET decided
    /\ busy = {"implementer"} \cup activated
    /\ clients = Roles /\ steps = [t \in Coroutines |-> <<>>] /\ turn = ""
    /\ queue = [r \in Roles |-> <<>>]
    /\ pending = {} /\ kept = [r \in Roles |-> Nothing] /\ heard = [r \in Roles |-> Nothing]
    /\ receipts = [r \in Roles |-> [stamp |-> NoStamp, guidance |-> -1]] /\ guidance = 0
    /\ files = [f \in 1 .. Files |-> 0] /\ look = Unread /\ fresh = {}
    /\ owed = [r \in Roles |-> 0]
    /\ limits = [edits |-> 0, stalls |-> 0, breaks |-> 0]

Counts(what, most) == limits[what] < most /\ limits' = [limits EXCEPT ![what] = @ + 1]

-----------------------------------------------------------------------------
(* The event loop.  A step is a record with the field "do".                    *)

Waits(t) == \E r \in Roles : \E i \in DOMAIN queue[r] : queue[r][i].by = t
At(t, do) == /\ turn \in {"", t} /\ ~Waits(t)
             /\ steps[t] # <<>> /\ Head(steps[t]).do = do
Rest(t) == Tail(steps[t])
GoesOn(t, rest) == steps' = [steps EXCEPT ![t] = rest] /\ turn' = IF rest = <<>> THEN "" ELSE t
GivesWay(t, rest) == steps' = [steps EXCEPT ![t] = rest] /\ turn' = ""

Tell(to) == [do |-> "tell", to |-> to]
Telling(to, capsule) == [do |-> "telling", to |-> to, capsule |-> capsule]
Assign(r) == [do |-> "assign", role |-> r]
Do(name) == [do |-> name]

\* What the worker has of it when a frame is written to its connection.
Written(frame, r) == IF frame.kind = "run_state" THEN frame.capsule ELSE heard[r]

\* send: an unlocked writer that keeps up does not give way.
Send(t, r, frame, rest) ==
    \/ /\ queue[r] = <<>> /\ GoesOn(t, rest)
       /\ heard' = [heard EXCEPT ![r] = Written(frame, r)] /\ UNCHANGED <<queue, limits>>
    \/ /\ queue[r] = <<>> /\ GivesWay(t, rest) /\ Counts("stalls", MaxStalls)
       /\ heard' = [heard EXCEPT ![r] = Written(frame, r)]
       /\ queue' = [queue EXCEPT ![r] = <<[by |-> t, frame |-> frame]>>]
    \/ /\ queue[r] # <<>> /\ GivesWay(t, rest)
       /\ queue' = [queue EXCEPT ![r] = Append(@, [by |-> t, frame |-> frame])]
       /\ UNCHANGED <<heard, limits>>

RunStateFrame(c) == [kind |-> "run_state", capsule |-> c]
AssignmentFrame == [kind |-> "assignment"]
OtherFrame == [kind |-> "other"]

\* The writer has drained: its sender goes on, and the next in line writes.
Drained(r) ==
    /\ turn = "" /\ queue[r] # <<>>
    /\ LET by == Head(queue[r]).by IN turn' = IF steps[by] = <<>> THEN "" ELSE by
    /\ queue' = [queue EXCEPT ![r] = Tail(@)]
    /\ heard' = IF Len(queue[r]) = 1 THEN heard
                ELSE [heard EXCEPT ![r] = Written(queue[r][2].frame, r)]
    /\ UNCHANGED <<reports, clients, steps, pending, kept, owed, hints, files, look, limits>>

-----------------------------------------------------------------------------
(* worktree_stamp: two inventories of the files, one file after the other.      *)

Edit(f) ==
    /\ Counts("edits", MaxEdits) /\ files' = [files EXCEPT ![f] = @ + 1] /\ fresh' = {}
    /\ UNCHANGED <<reports, clients, steps, turn, queue, told, receipts, guidance, look>>

\* Broken: one inventory is enough (HintsAreTrue).
StampOfOne == IF look.failed THEN NoStamp ELSE SubSeq(look.seen, 1, Files)
Stamp == IF look.failed \/ SubSeq(look.seen, 1, Files) # SubSeq(look.seen, Files + 1, 2 * Files)
         THEN NoStamp ELSE SubSeq(look.seen, 1, Files)
Looked == look.on /\ (look.failed \/ Len(look.seen) = 2 * Files)

Current(r) == receipts[r].guidance = guidance
\* snapshot looks at the files only if some receipt can be compared.
Comparable == \E r \in Roles : receipts[r].stamp # NoStamp /\ Current(r)
Deferred(r) == r \in pending \/ r \in Retained
Renders(t) == /\ At(t, "assign") \/ At(t, "replay")
              /\ Head(steps[t]).role \in Retained \cap clients
Observes(t) == \/ At(t, "remember") /\ Retained # {}
               \/ Renders(t) /\ Comparable
Observed(t) == Observes(t) => Looked

Look(t) ==
    /\ Observes(t) /\ ~look.on
    /\ look' = [Unread EXCEPT !.on = TRUE] /\ turn' = t
    /\ fresh' = IF At(t, "remember") THEN fresh \ {t} ELSE fresh
    /\ UNCHANGED <<reports, clients, steps, queue, told, receipts, guidance, files, limits>>

Read(t) ==
    /\ Observes(t) /\ look.on /\ ~Looked
    /\ LET i == Len(look.seen) + 1
           between == i = Files
       IN /\ look' = [look EXCEPT !.seen = Append(@, files[IF i <= Files THEN i ELSE i - Files]),
                                  !.fresh = IF between THEN fresh ELSE @]
          /\ fresh' = IF between /\ At(t, "remember") THEN fresh \cup {t} ELSE fresh
    /\ UNCHANGED <<reports, clients, steps, turn, queue, told, receipts, guidance, files, limits>>

\* No Git, a symlink, a submodule, too many files, too late.
Unreadable(t) ==
    /\ Observes(t) /\ look.on /\ ~Looked
    /\ look' = [look EXCEPT !.failed = TRUE]
    /\ UNCHANGED <<reports, clients, steps, turn, queue, told, hints, files, limits>>

\* The receipts whose files are unchanged, of those given under this guidance.
Unchanged == IF Looked /\ Stamp # NoStamp
             THEN {r \in Roles : Current(r) /\ receipts[r].stamp = Stamp} ELSE {}
\* _run_state_capsule: the latest reports, and the hints for a retained recipient.
Capsule(r) == [n |-> Len(filed),
               unchanged |-> IF r \in Retained THEN Unchanged ELSE {},
               fresh |-> IF r \in Retained THEN look.fresh ELSE {}]
Plain == [Nothing EXCEPT !.n = Len(filed)]

-----------------------------------------------------------------------------
(* Reports.                                                                    *)

\* _handle_report commits, and keeps the report in memory.  A worker reports on the
\* assignment it was given last.
Report(r) ==
    /\ turn = "" /\ r \in busy \cap clients /\ steps[r] = <<>>
    /\ Len(filed) < MaxReports
    /\ \A i \in 2 .. Len(queue[r]) : queue[r][i].frame # AssignmentFrame
    /\ filed' = Append(filed, [by |-> r, round |-> round]) /\ busy' = busy \ {r}
    /\ GoesOn(r, <<Do("remember"), Do("route")>>)
    /\ UNCHANGED <<round, decided, activated, gated, clients, queue, told, hints, files, look, limits>>

\* remember; the broadcast that follows may give way.
Remember(r) ==
    /\ At(r, "remember") /\ Observed(r) /\ GivesWay(r, Rest(r))
    /\ receipts' = IF Retained = {} THEN receipts
                   ELSE [receipts EXCEPT ![r] = [stamp |-> Stamp, guidance |-> guidance]]
    /\ look' = Unread
    /\ UNCHANGED <<reports, clients, queue, told, guidance, fresh, files, limits>>

Evidence(r) ==
    /\ r \in Specialists /\ UNCHANGED <<round, decided, activated>>
    /\ GoesOn(r, <<Telling(<<"implementer", "reviewer">>, Plain), Do("gate")>>)
Implementation(r) ==
    /\ r = "implementer" /\ UNCHANGED round /\ decided' = Specialists
    /\ \E S \in SUBSET (Specialists \ decided) :
         LET order == SetToSeq(S)
         IN /\ activated' = activated \cup S
            /\ GoesOn(r, <<Telling(<<"reviewer">> \o order, Plain)>>
                         \o [i \in DOMAIN order |-> Assign(order[i])] \o <<Do("gate")>>)
Approval(r) ==
    /\ r = "reviewer" /\ GoesOn(r, <<>>) /\ UNCHANGED <<round, decided, activated>>
Rejection(r) ==
    /\ r = "reviewer" /\ UNCHANGED <<round, decided, activated>>
    /\ GoesOn(r, <<Telling(<<"implementer">>, Plain), Do("repair"), Assign("implementer")>>)

\* route_report, up to the first delivery; the capsule is made here, once for all.
Route(r) ==
    /\ r \in Roles /\ At(r, "route")
    /\ Evidence(r) \/ Implementation(r) \/ Approval(r) \/ Rejection(r)
    /\ UNCHANGED <<filed, busy, gated, clients, queue, told, hints, files, look, limits>>

\* The next round is open, and its state broadcast.
Repair(r) ==
    /\ At(r, "repair") /\ GivesWay(r, Rest(r))
    /\ round' = round + 1 /\ decided' = {} /\ activated' = {}
    /\ UNCHANGED <<filed, busy, gated, clients, queue, told, hints, files, look, limits>>

Defers(r) == Deferred(r) \/ r \in busy

\* _deliver_run_state, for the next recipient.
Deliver(t) ==
    /\ At(t, "telling")
    /\ LET s == Head(steps[t])
           r == Head(s.to)
           rest == IF Len(s.to) = 1 THEN Rest(t)
                   ELSE <<Telling(Tail(s.to), s.capsule)>> \o Rest(t)
       IN \/ /\ r \notin clients /\ GoesOn(t, rest)
             /\ UNCHANGED <<queue, told, limits>>
          \/ /\ r \in clients /\ Defers(r) /\ GoesOn(t, rest)
             /\ pending' = pending \cup {r} /\ owed' = [owed EXCEPT ![r] = s.capsule.n]
             /\ UNCHANGED <<queue, kept, heard, limits>>
          \/ /\ r \in clients /\ ~Defers(r)
             /\ kept' = [kept EXCEPT ![r] = s.capsule] /\ owed' = [owed EXCEPT ![r] = s.capsule.n]
             /\ Send(t, r, RunStateFrame(s.capsule), rest) /\ UNCHANGED pending
    /\ UNCHANGED <<reports, clients, hints, files, look>>

\* Broken: what was sent last is sent again (NothingIsDropped).
SentAgain(t, r, rest) ==
    /\ pending' = pending \ {r} /\ UNCHANGED kept
    /\ Send(t, r, RunStateFrame(kept[r]), rest)
\* _materialize_pending_run_state and its delivery.
Materialized(t, r, rest) ==
    /\ pending' = pending \ {r} /\ kept' = [kept EXCEPT ![r] = Capsule(r)]
    /\ Send(t, r, RunStateFrame(Capsule(r)), rest)

Commit(r) == [do |-> "commit", role |-> r]

\* assign: first what was deferred.
Flush(t) ==
    /\ At(t, "assign") /\ Observed(t) /\ look' = Unread
    /\ LET r == Head(steps[t]).role
       IN \/ /\ r \notin clients /\ GoesOn(t, Rest(t)) /\ UNCHANGED <<queue, pending, kept, heard, limits>>
          \/ /\ r \in clients /\ ~Deferred(r) /\ GoesOn(t, <<Commit(r)>> \o Rest(t))
             /\ UNCHANGED <<queue, pending, kept, heard, limits>>
          \/ /\ r \in clients /\ Deferred(r) /\ Materialized(t, r, <<Commit(r)>> \o Rest(t))
    /\ UNCHANGED <<reports, clients, owed, hints, files>>

Fails(t) == steps' = [steps EXCEPT ![t] = <<>>] /\ turn' = ""

\* A report of this round.
Has(r) == \E i \in DOMAIN filed : filed[i] = [by |-> r, round |-> round]

\* The assignment is in the database before it is sent, for the handler's own round.
SendAssignment(t) ==
    /\ At(t, "commit")
    /\ LET r == Head(steps[t]).role
       IN /\ busy' = busy \cup {r} /\ gated' = IF r = "reviewer" /\ Has(t) THEN round ELSE gated
          /\ \/ r \in clients /\ Send(t, r, AssignmentFrame, Rest(t))
             \/ r \notin clients /\ Fails(t) /\ UNCHANGED <<queue, heard, limits>>
    /\ UNCHANGED <<filed, round, decided, activated, clients, pending, kept, owed, hints, files, look>>

\* maybe_assign_reviewer, for the round of the handler's own report: one of an
\* earlier round finds that round's review.
Gate(t) ==
    /\ At(t, "gate")
    /\ IF gated < round /\ decided = Specialists /\ \A r \in activated \cup {"implementer", t} : Has(r)
       THEN GoesOn(t, <<Assign("reviewer")>>) ELSE GoesOn(t, <<>>)
    /\ UNCHANGED <<reports, clients, queue, told, hints, files, look, limits>>

-----------------------------------------------------------------------------
(* Connections and the operator.                                               *)

\* A worker goes: every send that waits for it fails, and its handler with it.
Break(r) ==
    /\ turn = "" /\ r \in clients /\ Counts("breaks", MaxBreaks)
    /\ steps[r] = <<>> \/ \E i \in DOMAIN queue[r] : queue[r][i].by = r
    /\ LET hit == {queue[r][i].by : i \in DOMAIN queue[r]}
       IN steps' = [t \in Coroutines |-> IF t \in hit THEN <<>> ELSE steps[t]]
    /\ clients' = clients \ {r} /\ queue' = [queue EXCEPT ![r] = <<>>]
    /\ owed' = [owed EXCEPT ![r] = 0]
    /\ UNCHANGED <<reports, turn, pending, kept, heard, hints, files, look>>

\* The same process comes back: its assignment is sent again.
Reconnect(r) ==
    /\ turn = "" /\ r \notin clients /\ steps[r] = <<>>
    /\ clients' = clients \cup {r} /\ GoesOn(r, <<Do("again")>>)
    /\ UNCHANGED <<reports, queue, told, hints, files, look, limits>>
\* A restarted one: the baseline and the run state first.
Handover(r) ==
    /\ turn = "" /\ r \notin clients /\ steps[r] = <<>>
    /\ clients' = clients \cup {r}
    /\ GoesOn(r, <<Do("baseline"), [do |-> "replay", role |-> r], Do("again")>>)
    /\ UNCHANGED <<reports, queue, told, hints, files, look, limits>>
Sends(r) ==
    /\ At(r, "baseline") \/ At(r, "again")
    /\ Send(r, r, OtherFrame, Rest(r))
    /\ UNCHANGED <<reports, clients, pending, kept, owed, hints, files, look>>
Replay(r) ==
    /\ At(r, "replay") /\ Observed(r) /\ look' = Unread
    /\ \/ Deferred(r) /\ Materialized(r, r, Rest(r))
       \/ /\ ~Deferred(r) /\ kept[r] # Nothing /\ Send(r, r, RunStateFrame(kept[r]), Rest(r))
          /\ UNCHANGED <<pending, kept>>
       \/ /\ ~Deferred(r) /\ kept[r] = Nothing /\ GoesOn(r, Rest(r))
          /\ UNCHANGED <<queue, pending, kept, heard, limits>>
    /\ UNCHANGED <<reports, clients, owed, hints, files>>

\* Broken: guidance leaves the receipts as they are (HintsAreTrue).
SameGeneration == guidance
NextGeneration == guidance + 1

\* _handle_operator_send: the receipts end before the message is delivered.
Guide(r) ==
    /\ turn = "" /\ steps["operator"] = <<>> /\ guidance < MaxGuidance
    /\ guidance' = NextGeneration /\ fresh' = {}
    /\ \/ r \in clients /\ Send("operator", r, OtherFrame, <<>>)
       \/ r \notin clients /\ UNCHANGED <<steps, turn, queue, heard, limits>>
    /\ UNCHANGED <<reports, clients, pending, kept, owed, receipts, files, look>>

Next ==
    \/ \E f \in 1 .. Files : Edit(f)
    \/ \E t \in Coroutines : Look(t) \/ Read(t) \/ Unreadable(t) \/ Deliver(t) \/ Flush(t) \/ SendAssignment(t) \/ Gate(t)
    \/ \E r \in Roles : \/ Drained(r) \/ Report(r) \/ Remember(r) \/ Route(r) \/ Repair(r)
                        \/ Break(r) \/ Reconnect(r) \/ Handover(r) \/ Sends(r) \/ Replay(r) \/ Guide(r)

Spec == Init /\ [][Next]_vars

-----------------------------------------------------------------------------
(* Properties.                                                                 *)

\* A report that a worker is told is metadata_unchanged is one since whose
\* acceptance no file was edited and no guidance sent, up to the second look.
HintsAreTrue == \A r \in Roles : kept[r].unchanged \subseteq kept[r].fresh

\* The newest run state on its way to a worker, or with it.
Newest(r) ==
    LET states == {i \in DOMAIN queue[r] : queue[r][i].frame.kind = "run_state"}
        last == CHOOSE i \in states : \A j \in states : j <= i
    IN IF states = {} THEN heard[r] ELSE queue[r][last].frame.capsule

\* A capsule deferred or overtaken is not lost: as long as its connection stands,
\* what a worker was to be told of it has, or is being sent, or will get with its
\* next assignment.
NothingIsDropped ==
    \A r \in clients : r \in pending \/ Newest(r).n >= owed[r]

\* "The broker supplies the latest run state to the reviewer and wakes it once":
\* the reviewer has the evidence its assignment was waiting for.
ReviewKnows == [][gated' > gated => Newest("reviewer").n = Len(filed)]_vars
================================================================================
