-------------------------------- MODULE Relay --------------------------------
(* The file relay of runs retained from 0.4.x (relay.py).  A worker writes a *)
(* report and then its marker; one process scans the markers every two       *)
(* seconds and sends a notice to every enabled recipient.  What was sent is  *)
(* remembered in files: one token per recipient and one for the marker.  A   *)
(* tmux worker gets the notice as keystrokes, which cannot be recalled or    *)
(* recognised; an RPC worker gets a command whose id is computed from marker *)
(* and recipient.  Its supervisor runs an id once (see RpcJournal), and when *)
(* it knows one as rejected or uncertain it answers so whenever it is asked. *)
EXTENDS Naturals, FiniteSets

CONSTANTS Reports,    \* reports of this run, each with its marker
          Roles,      \* workers of this run
          Recipients, \* the roles a report is announced to, enabled or not
          Rpc,        \* transport of the workers
          MaxFaults   \* bound: relay deaths, failed sends, lost workers, reports rewritten

\* Assumed of the constants by every module that instantiates this one.
RelayAssumption ==
    /\ Recipients \in [Reports -> SUBSET STRING]
    /\ Rpc \in BOOLEAN /\ MaxFaults \in Nat

VARIABLES report,  \* "none", "bad" (not yet complete or not acceptable), "good"
          marker,  \* reports whose marker file exists
          seen,    \* recipient tokens on disk: <<report, role>>
          done,    \* marker tokens on disk
          typed,   \* notices in a worker's editor, not yet entered
          copies,  \* how often a notice was submitted to a worker
          refused, \* notices whose command the worker's registry will not acknowledge any more
          relay,   \* where the relay stands
          faults

vars == <<report, marker, seen, done, typed, copies, refused, relay, faults>>
files == <<report, marker>>
tokens == <<seen, done>>
workers == <<typed, copies, refused>>

Pairs == Reports \X Roles
\* Broken: recipients that this run does not have are kept (TypeOK).
Announced(r) == Recipients[r]

Enabled(r) == Recipients[r] \cap Roles

Idle == [at |-> "sleep", left |-> {}, report |-> "", role |-> "", roles |-> {}]
Steps == {"dead", "sleep", "scan", "send", "enter", "mark", "close"}

TypeOK ==
    /\ report \in [Reports -> {"none", "bad", "good"}] /\ marker \subseteq Reports
    /\ seen \subseteq Pairs /\ done \subseteq Reports
    /\ typed \in [Pairs -> 0 .. MaxFaults + 1]
    /\ copies \in [Pairs -> 0 .. MaxFaults + 1]
    /\ refused \subseteq Pairs
    /\ relay \in [at : Steps, left : SUBSET Reports, report : Reports \cup {""},
                  role : Roles \cup {""}, roles : SUBSET Roles]
    /\ relay.at \in {"send", "enter", "mark"} => relay.role \in Roles
    /\ faults \in 0 .. MaxFaults

Init ==
    /\ report = [r \in Reports |-> "none"] /\ marker = {}
    /\ seen = {} /\ done = {}
    /\ typed = [x \in Pairs |-> 0] /\ copies = [x \in Pairs |-> 0]
    /\ refused = {}
    /\ relay = Idle /\ faults = 0

-----------------------------------------------------------------------------
(* The workers' files. *)

WriteReport(r) ==
    /\ report[r] # "good"
    /\ \E v \in {"bad", "good"} \ {report[r]} : report' = [report EXCEPT ![r] = v]
    /\ UNCHANGED <<marker, tokens, workers, relay, faults>>

\* A report is begun anew while its marker stands.
RewriteReport(r) ==
    /\ report[r] = "good" /\ faults < MaxFaults /\ faults' = faults + 1
    /\ report' = [report EXCEPT ![r] = "bad"]
    /\ UNCHANGED <<marker, tokens, workers, relay>>

\* Nothing keeps a worker from writing the marker first.
WriteMarker(r) ==
    /\ r \notin marker
    /\ marker' = marker \cup {r}
    /\ UNCHANGED <<report, tokens, workers, relay, faults>>

-----------------------------------------------------------------------------
(* relay_once.                                                               *)

\* A marker with a regular, non-empty report whose first line is acceptable.
Valid(r) == r \in marker /\ report[r] = "good"

\* Broken: a marker is closed when its first notice is out (SeenIsDelivered,
\* NobodyForgotten).
FirstSeen(r) == \E role \in Enabled(r) : <<r, role>> \in seen

AllSeen(r) == \A role \in Enabled(r) : <<r, role>> \in seen

\* Every two seconds all markers are scanned, kind after kind.
Wake ==
    /\ relay.at = "sleep"
    /\ relay' = [Idle EXCEPT !.at = "scan", !.left = Reports]
    /\ UNCHANGED <<files, tokens, workers, faults>>

Goes(step) == relay' = [relay EXCEPT !.at = step]

\* A closed marker and one that is not valid are passed over.
PassOver(r) ==
    /\ relay.at = "scan" /\ r \in relay.left
    /\ r \in done \/ ~Valid(r) \/ Enabled(r) = {}
    /\ relay' = [relay EXCEPT !.left = @ \ {r}]
    /\ UNCHANGED <<files, tokens, workers, faults>>

\* deliver_marker begins with the enabled recipients.
Deliver(r) ==
    /\ relay.at = "scan" /\ r \in relay.left
    /\ r \notin done /\ Valid(r) /\ Enabled(r) # {}
    /\ relay' = [relay EXCEPT !.at = "close", !.left = @ \ {r}, !.report = r,
                              !.roles = Enabled(r)]
    /\ UNCHANGED <<files, tokens, workers, faults>>

\* The next recipient; one whose token is on disk is skipped.
NextRecipient(role) ==
    /\ relay.at = "close" /\ role \in relay.roles
    /\ relay' = [relay EXCEPT !.roles = @ \ {role}, !.role = role,
                     !.at = IF <<relay.report, role>> \in seen THEN "close" ELSE "send"]
    /\ UNCHANGED <<files, tokens, workers, faults>>

Notice == <<relay.report, relay.role>>

\* Broken: the RPC command gets a fresh id with every attempt (RpcNoticedOnce).
FreshId(n) == copies[n] + 1

\* The supervisor of an RPC worker runs the notice's command id once.
Submitted(n) == IF copies[n] > 0 THEN copies[n] ELSE copies[n] + 1

\* rpc_control_request; only what is acknowledged counts as delivered.
Acknowledged ==
    /\ Notice \notin refused
    /\ copies' = [copies EXCEPT ![Notice] = Submitted(Notice)]
    /\ Goes("mark") /\ UNCHANGED <<refused, faults>>

\* The id is known as rejected or uncertain: the same answer to every scan.
RefusedAgain ==
    /\ Notice \in refused
    /\ Goes("close") /\ UNCHANGED <<copies, refused, faults>>

\* No answer in time, whether the worker was given the notice or the supervisor
\* did not read it: nothing keeps the next scan from succeeding.
Unanswered ==
    /\ copies' \in {copies, [copies EXCEPT ![Notice] = Submitted(Notice)]}
    /\ Goes("close") /\ UNCHANGED refused

\* The worker rejects the notice, its registry is full, or it is gone before it
\* answers: then nobody knows whether it was given the notice.
RefusedForGood ==
    /\ copies[Notice] = 0
    /\ copies' \in {copies, [copies EXCEPT ![Notice] = Submitted(Notice)]}
    /\ Goes("close") /\ refused' = refused \cup {Notice}

SendRpc ==
    /\ Rpc /\ relay.at = "send"
    /\ \/ Acknowledged
       \/ RefusedAgain
       \/ faults < MaxFaults /\ faults' = faults + 1 /\ (Unanswered \/ RefusedForGood)
    /\ UNCHANGED <<files, tokens, typed>>

\* A worker ends: what its supervisor has not seen finished becomes uncertain.
LoseWorker(role) ==
    /\ Rpc /\ faults < MaxFaults /\ faults' = faults + 1
    /\ \E open \in SUBSET {n \in Pairs : n[2] = role /\ copies[n] > 0} :
         refused' = refused \cup open
    /\ UNCHANGED <<files, tokens, typed, copies, relay>>

\* send_keys: the text, then Enter, two calls that can each fail.
TypeText ==
    /\ ~Rpc /\ relay.at = "send"
    /\ \/ typed' = [typed EXCEPT ![Notice] = @ + 1] /\ Goes("enter")
          /\ UNCHANGED faults
       \/ Goes("close") /\ faults < MaxFaults /\ faults' = faults + 1
          /\ UNCHANGED typed
    /\ UNCHANGED <<files, tokens, copies, refused>>

\* Enter submits whatever stands in that worker's editor.
Enter ==
    /\ relay.at = "enter"
    /\ \/ /\ copies' = [n \in Pairs |-> IF n[2] = relay.role
                                         THEN copies[n] + typed[n] ELSE copies[n]]
          /\ typed' = [n \in Pairs |-> IF n[2] = relay.role THEN 0 ELSE typed[n]]
          /\ Goes("mark") /\ UNCHANGED faults
       \/ Goes("close") /\ faults < MaxFaults /\ faults' = faults + 1
          /\ UNCHANGED <<typed, copies>>
    /\ UNCHANGED <<files, tokens, refused>>

\* Broken: nothing is remembered of a recipient (RepeatsAreFaults).
Forgotten == seen

Remembered == seen \cup {Notice}

\* The recipient's token is written once the send is known to have worked.
MarkRecipient ==
    /\ relay.at = "mark"
    /\ seen' = Remembered
    /\ Goes("close")
    /\ UNCHANGED <<files, done, workers, faults>>

\* After the recipients, the marker's own token if nobody is missing.
CloseMarker ==
    /\ relay.at = "close" /\ relay.roles = {}
    /\ done' = IF AllSeen(relay.report) THEN done \cup {relay.report} ELSE done
    /\ relay' = [Idle EXCEPT !.at = "scan", !.left = relay.left]
    /\ UNCHANGED <<files, seen, workers, faults>>

Sleep ==
    /\ relay.at = "scan" /\ relay.left = {}
    /\ relay' = Idle
    /\ UNCHANGED <<files, tokens, workers, faults>>

\* The relay dies anywhere, be it of an exception no handler catches; its pane
\* is respawned.
Die ==
    /\ relay.at # "dead" /\ faults < MaxFaults /\ faults' = faults + 1
    /\ relay' = [Idle EXCEPT !.at = "dead"]
    /\ UNCHANGED <<files, tokens, workers>>

Respawn ==
    /\ relay.at = "dead"
    /\ relay' = Idle
    /\ UNCHANGED <<files, tokens, workers, faults>>

Relays ==
    \/ Wake \/ SendRpc \/ TypeText \/ Enter \/ MarkRecipient \/ CloseMarker
    \/ Sleep \/ Respawn
    \/ \E r \in Reports : PassOver(r) \/ Deliver(r)
    \/ \E role \in Roles : NextRecipient(role)

Next ==
    \/ Relays \/ Die
    \/ \E role \in Roles : LoseWorker(role)
    \/ \E r \in Reports : WriteReport(r) \/ RewriteReport(r) \/ WriteMarker(r)

Spec == Init /\ [][Next]_vars

\* The loop runs while its session does, and whoever keeps the session keeps
\* its relay.
Fairness == WF_vars(Relays)

FairSpec == Spec /\ Fairness

-----------------------------------------------------------------------------
\* A token on disk is never ahead of the delivery it stands for: what a relay
\* that died leaves behind makes its successor repeat, never omit.
SeenIsDelivered ==
    /\ \A n \in seen : copies[n] > 0
    /\ \A r \in done : \A role \in Enabled(r) : <<r, role>> \in seen

\* An RPC worker is told of a report once, however often relays die, sends time
\* out and markers are scanned.
RpcNoticedOnce == Rpc => \A n \in Pairs : copies[n] <= 1

\* A tmux worker is told again only after a fault, once for each.
RepeatsAreFaults == \A n \in Pairs : copies[n] + typed[n] <= 1 + faults

\* A marker whose report stays good is announced to each of its enabled
\* recipients, unless that worker's supervisor refused the notice for good: a
\* send that failed otherwise is repeated, and one recipient's refusal keeps the
\* notice from no other.
Meant == {n \in Pairs : n[2] \in Enabled(n[1])}
NobodyForgotten ==
    \A n \in Meant : <>[]Valid(n[1]) => <>(copies[n] > 0 \/ n \in refused)

\* No loss at all: each of them is told.  It fails, because a refused send is
\* repeated under the id that is refused (relay.py:155-160).
EverybodyTold == \A n \in Meant : <>[]Valid(n[1]) => <>(copies[n] > 0)
=============================================================================
