---------------------------- MODULE BrokerSchema ----------------------------
(***************************************************************************)
(* The run database's schema (broker_store.py): its creation by the        *)
(* start command, its upgrade by a newer broker, and the readers of other  *)
(* processes that look at it meanwhile.                                    *)
(*                                                                         *)
(* Python's sqlite3 opens a transaction before the first statement that    *)
(* changes rows and not before one that changes tables: an ALTER or CREATE *)
(* that comes first is kept at once, one that comes later is kept or lost  *)
(* with the rest.  A reader runs each of its SELECTs on its own.           *)
(***************************************************************************)
EXTENDS Naturals, Sequences

CONSTANTS Tasks,        \* assignments
          Versions,     \* schemas the database may have at first (0: none)
          MaxStops      \* how often the broker is interrupted

ASSUME VersionsAreNumbers == Versions \subseteq Nat
ASSUME StopsAreCounted == MaxStops \in Nat

Nothing == "nothing"
Schema == 13                                      \* SCHEMA_VERSION

Policies == {"continuation_policy", "worker_context_policy",
             "call_admission_policy"}

(***************************************************************************)
(* The upgrade, one record a statement: the schema it upgrades, its kind   *)
(* and what it adds.  "add" and "need" add a column, "need" after a look   *)
(* whether it is there; "create" adds a table unless it is there; "put"    *)
(* inserts a row unless it is there; "mark" changes the assignments.  The  *)
(* columns of a statement's loop are told by its first and last.           *)
(***************************************************************************)
Statement(v, k, n) == [version |-> v, kind |-> k, name |-> n]

\* Broken: the authorization's column is forgotten (ServesItsOwn).
UpgradeForgotten ==
  << Statement(3,  "create", "assignment_guardrails"),
     Statement(5,  "put",    "implementation_flow"),
     Statement(6,  "create", "specialist_activations"),
     Statement(6,  "put",    "forced_specialists"),
     Statement(7,  "need",   "roles.activity"),
     Statement(7,  "need",   "roles.activity_at"),
     Statement(8,  "put",    "continuation_policy"),
     Statement(9,  "put",    "worker_context_policy"),
     Statement(10, "need",   "assignments.reminder_state"),
     Statement(10, "need",   "assignments.report_attempt"),
     Statement(12, "create", "provider_admissions"),
     Statement(12, "put",    "call_admission_policy"),
     Statement(12, "put",    "call_admission_paused") >>
\* Broken: the activity columns are added without a look (NeverRefused).
UpgradeNoLook ==
  << Statement(4,  "create", "assignment_guardrails"),
     Statement(5,  "put",    "implementation_flow"),
     Statement(6,  "create", "specialist_activations"),
     Statement(6,  "put",    "forced_specialists"),
     Statement(7,  "add",    "roles.activity"),
     Statement(7,  "add",    "roles.activity_at"),
     Statement(8,  "put",    "continuation_policy") >>
Upgrade ==
  << Statement(1,  "add",    "assignments.boundary_effective"),
     Statement(2,  "add",    "roles.provider_calls"),
     Statement(2,  "add",    "reports.provider_calls"),
     Statement(2,  "add",    "reports.peak_context_tokens"),
     Statement(4,  "create", "assignment_guardrails"),
     Statement(5,  "put",    "implementation_flow"),
     Statement(6,  "create", "specialist_activations"),
     Statement(6,  "put",    "forced_specialists"),
     Statement(7,  "need",   "roles.activity"),
     Statement(7,  "need",   "roles.activity_at"),
     Statement(8,  "put",    "continuation_policy"),
     Statement(9,  "put",    "worker_context_policy"),
     Statement(10, "need",   "assignments.reminder_state"),
     Statement(10, "need",   "assignments.report_attempt"),
     Statement(10, "mark",   "report_attempt"),
     Statement(10, "mark",   "reminder_state"),
     Statement(11, "need",   "assignments.resume_authorized"),
     Statement(12, "create", "provider_admissions"),
     Statement(12, "put",    "call_admission_policy"),
     Statement(12, "put",    "call_admission_paused") >>

Last == Len(Upgrade)
Kept == {i \in 1 .. Last : Upgrade[i].kind # "mark"}
Parts(indices) == {Upgrade[i].name : i \in indices}
Rows == Parts({i \in Kept : Upgrade[i].kind = "put"})

\* What a database of schema v holds of it.
Before(v) == Parts({i \in Kept : Upgrade[i].version < v})

VARIABLES
  db,       \* what the database file holds
  open,     \* a transaction is open
  view,     \* the database as the process that writes it sees it
  proc,     \* that process: "making" it, "off", "upgrading", "serving",
            \* "refused", "gone"
  pc,       \* the next statement of the upgrade
  was,      \* the schema it started from
  stops,
  reader,   \* another process's read
  from,     \* history: the schema at first
  bad,      \* history: the policies whose row is not a policy
  live      \* history: assignments made by this broker, and their reminders

vars == <<db, open, view, proc, pc, was, stops, reader, from, bad, live>>
writer == <<db, open, view, proc, pc, was, stops, live>>

Attempts == {"none", "accepted"}
Reminders == {"none", "used"}
Task == [made : BOOLEAN, done : BOOLEAN, attempt : Attempts, reminder : Reminders]
NotMade == [made |-> FALSE, done |-> FALSE, attempt |-> "none", reminder |-> "none"]
Database == [version : Nat, parts : SUBSET Parts(Kept), tasks : [Tasks -> Task]]

Idle == [at |-> "idle", gate |-> 0, left |-> {}, missing |-> Nothing]

\* Assignments of an older broker have no marks: these are the columns' defaults.
Old == {NotMade} \cup
       [made : {TRUE}, done : BOOLEAN, attempt : {"none"}, reminder : {"none"}]
\* With the present schema what was done is marked so.
Present == {t \in {NotMade} \cup [made : {TRUE}, done : BOOLEAN,
                                  attempt : Attempts, reminder : Reminders] :
              t.done <=> t.attempt = "accepted"}

Init ==
  /\ from \in Versions
  /\ \E tasks \in [Tasks -> IF from = 0 THEN {NotMade}
                            ELSE IF from <= 10 THEN Old ELSE Present] :
       db = [version |-> from, parts |-> IF from = 0 THEN {} ELSE Before(from),
             tasks |-> tasks]
  /\ bad \in {{}} \cup {{p} : p \in Policies \cap db.parts}
  /\ open = FALSE /\ view = db
  /\ proc = IF from = 0 THEN "making" ELSE "off"
  /\ pc = 1 /\ was = from /\ stops = 0
  /\ reader = Idle
  /\ live = [made |-> {}, reminded |-> {}]

-----------------------------------------------------------------------------
(* The start command makes the database.                                   *)

\* executescript and create_admission_tables: nothing holds them together.
MakeTables ==
  /\ proc = "making" /\ db.parts = {}
  /\ db' = [db EXCEPT !.parts = Parts(Kept) \ Rows]
  /\ view' = db'
  /\ UNCHANGED <<open, proc, pc, was, stops, reader, from, bad, live>>

\* All rows go in with one transaction, the schema's number among them.
MakeRows ==
  /\ proc = "making" /\ db.parts # {}
  /\ db' = [db EXCEPT !.version = Schema, !.parts = @ \cup Rows]
  /\ view' = db' /\ proc' = "off"
  /\ UNCHANGED <<open, pc, was, stops, reader, from, bad, live>>

-----------------------------------------------------------------------------
(* The broker upgrades it.                                                 *)

\* Broken: the new number is written before the rest (NumberIsHonest).
StartNumberFirst ==
  /\ proc = "off"
  /\ was' = db.version /\ open' = FALSE /\ pc' = 1
  /\ db' = [db EXCEPT !.version = Schema] /\ view' = db'
  /\ proc' = IF db.version = 0 THEN "refused" ELSE "upgrading"
  /\ UNCHANGED <<stops, reader, from, bad, live>>
Start ==
  /\ proc = "off"
  /\ was' = db.version /\ view' = db /\ open' = FALSE /\ pc' = 1
  /\ proc' = IF db.version = 0 THEN "refused" ELSE "upgrading"
  /\ UNCHANGED <<db, stops, reader, from, bad, live>>

\* Steps of an older schema than the database's are passed over.
Due(i) == Upgrade[i].version >= was

Skip ==
  /\ proc = "upgrading" /\ pc <= Last /\ ~Due(pc)
  /\ pc' = pc + 1
  /\ UNCHANGED <<db, open, view, proc, was, stops, reader, from, bad, live>>

\* UPDATE assignments: finished ones were accepted; the others' automatic
\* turn counts as spent.
\* Broken: the unfinished ones keep the column's default (OldGetNoTurn).
MarkedDefault(tasks, what) ==
  [t \in Tasks |-> IF tasks[t].done THEN [tasks[t] EXCEPT !.attempt = "accepted"]
                                    ELSE tasks[t]]
\* Broken: a word that the column's CHECK does not list (TypeOK).
MarkedCompleted(tasks, what) ==
  [t \in Tasks |-> IF tasks[t].done THEN [tasks[t] EXCEPT !.attempt = "completed"]
                                    ELSE tasks[t]]
Marked(tasks, what) ==
  [t \in Tasks |->
    IF ~tasks[t].made THEN tasks[t]
    ELSE IF what = "report_attempt"
         THEN IF tasks[t].done THEN [tasks[t] EXCEPT !.attempt = "accepted"] ELSE tasks[t]
         ELSE IF ~tasks[t].done THEN [tasks[t] EXCEPT !.reminder = "used"] ELSE tasks[t]]

Done(s, d) ==
  IF s.kind = "mark" THEN [d EXCEPT !.tasks = Marked(@, s.name)]
                     ELSE [d EXCEPT !.parts = @ \cup {s.name}]

ChangesRows(s) == s.kind \in {"put", "mark"}

Fails(s) == s.kind = "add" /\ s.name \in view.parts

Execute ==
  /\ proc = "upgrading" /\ pc <= Last /\ Due(pc)
  /\ ~Fails(Upgrade[pc])
  /\ view' = Done(Upgrade[pc], view)
  /\ open' = (open \/ ChangesRows(Upgrade[pc]))
  /\ db' = IF open' THEN db ELSE view'
  /\ pc' = pc + 1
  /\ UNCHANGED <<proc, was, stops, reader, from, bad, live>>

\* The error leaves the block: what the transaction did is undone.
GiveUp ==
  /\ open' = FALSE /\ view' = db
  /\ UNCHANGED <<db, pc, was, reader, from, bad, live>>

Duplicate ==
  /\ proc = "upgrading" /\ pc <= Last /\ Due(pc) /\ Fails(Upgrade[pc])
  /\ proc' = "refused" /\ stops' = stops
  /\ GiveUp

\* A newer schema, or a policy that cannot be read.
Unusable == was > Schema \/ bad # {}

Reject ==
  /\ proc = "upgrading" /\ pc > Last /\ Unusable
  /\ proc' = "refused" /\ stops' = stops
  /\ GiveUp

\* The number is written last, and everything is committed with it.
\* Broken: the number stays, and the next start upgrades again (TurnsAreKept).
SaveNoNumber ==
  /\ proc = "upgrading" /\ pc > Last /\ ~Unusable
  /\ db' = view /\ open' = FALSE /\ proc' = "serving"
  /\ UNCHANGED <<view, pc, was, stops, reader, from, bad, live>>
Save ==
  /\ proc = "upgrading" /\ pc > Last /\ ~Unusable
  /\ view' = [view EXCEPT !.version = Schema]
  /\ db' = view' /\ open' = FALSE /\ proc' = "serving"
  /\ UNCHANGED <<pc, was, stops, reader, from, bad, live>>

\* The process dies, or a reader's lock makes a statement or the commit fail.
Interrupted ==
  /\ stops < MaxStops /\ stops' = stops + 1
  /\ proc \in {"making", "upgrading", "serving"}
  /\ proc' = IF proc = "making" THEN "gone" ELSE "off"
  /\ GiveUp

-----------------------------------------------------------------------------
(* The broker at work, as far as the upgraded rows go.                     *)

Change(t, task) ==
  /\ db' = [db EXCEPT !.tasks[t] = task]
  /\ view' = db'
  /\ UNCHANGED <<open, proc, pc, was, stops, reader, from, bad>>

Assign(t) ==
  /\ proc = "serving" /\ ~db.tasks[t].made
  /\ Change(t, [NotMade EXCEPT !.made = TRUE])
  /\ live' = [live EXCEPT !.made = @ \cup {t}]

Remind(t) ==
  /\ proc = "serving" /\ db.tasks[t].made /\ ~db.tasks[t].done
  /\ db.tasks[t].reminder = "none"
  /\ Change(t, [db.tasks[t] EXCEPT !.reminder = "used"])
  /\ live' = [live EXCEPT !.reminded = @ \cup {t}]

Report(t) ==
  /\ proc = "serving" /\ db.tasks[t].made /\ ~db.tasks[t].done
  /\ Change(t, [db.tasks[t] EXCEPT !.done = TRUE, !.attempt = "accepted"])
  /\ live' = live

-----------------------------------------------------------------------------
(* A snapshot read by another process (public_broker_snapshot).            *)

\* The schema from which a reader asks for a part without looking for it.
\* Broken: the activity columns are asked for one schema early (ReadersFind).
GateEarly(p) ==
  CASE p \in {"roles.provider_calls", "reports.provider_calls",
              "reports.peak_context_tokens"} -> 3
    [] p = "assignment_guardrails" -> 5
    [] p \in {"specialist_activations", "roles.activity", "roles.activity_at"} -> 7
Gate(p) ==
  CASE p \in {"roles.provider_calls", "reports.provider_calls",
              "reports.peak_context_tokens"} -> 3
    [] p = "assignment_guardrails" -> 5
    [] p = "specialist_activations" -> 7
    [] p \in {"roles.activity", "roles.activity_at"} -> 8
Gated == {"roles.provider_calls", "reports.provider_calls",
          "reports.peak_context_tokens", "assignment_guardrails",
          "specialist_activations", "roles.activity", "roles.activity_at"}

ReadMeta ==
  /\ reader.at = "idle"
  /\ db.version > 0
  /\ reader' = [Idle EXCEPT !.at = "roles", !.gate = db.version]
  /\ UNCHANGED <<writer, from, bad>>

ReadRoles ==
  /\ reader.at = "roles"
  /\ reader' =
       IF \A p \in Gated : Gate(p) <= reader.gate => p \in db.parts
       THEN [reader EXCEPT !.at = "policies", !.left = Policies]
       ELSE [reader EXCEPT !.at = "no column"]
  /\ UNCHANGED <<writer, from, bad>>

\* A policy's row is read; none is right for a schema that had none.
ReadPolicy(p) ==
  /\ reader.at = "policies" /\ reader.missing = Nothing /\ p \in reader.left
  /\ reader' =
       IF p \in bad THEN [reader EXCEPT !.at = "bad policy"]
       ELSE IF p \in db.parts THEN [reader EXCEPT !.left = @ \ {p}]
       ELSE [reader EXCEPT !.missing = p]
  /\ UNCHANGED <<writer, from, bad>>

PolicySince == [p \in Policies |->
  CASE p = "continuation_policy"   -> 9
    [] p = "worker_context_policy" -> 10
    [] p = "call_admission_policy" -> 13]

LookAgain ==
  /\ reader.at = "policies" /\ reader.missing # Nothing
  /\ reader' =
       IF db.version >= PolicySince[reader.missing]
       THEN [reader EXCEPT !.at = "no policy"]
       ELSE [reader EXCEPT !.left = @ \ {reader.missing}, !.missing = Nothing]
  /\ UNCHANGED <<writer, from, bad>>

Answer ==
  /\ reader.at \notin {"idle", "roles"}
  /\ reader.at = "policies" => reader.left = {}
  /\ reader' = Idle
  /\ UNCHANGED <<writer, from, bad>>

Read == ReadMeta \/ ReadRoles \/ (\E p \in Policies : ReadPolicy(p))
        \/ LookAgain \/ Answer

Broker == Start \/ Skip \/ Execute \/ Duplicate \/ Reject \/ Save

Next ==
  \/ MakeTables \/ MakeRows
  \/ Broker \/ Interrupted
  \/ \E t \in Tasks : Assign(t) \/ Remind(t) \/ Report(t)
  \/ Read

Spec == Init /\ [][Next]_vars

-----------------------------------------------------------------------------
TypeOK ==
  /\ db \in Database /\ view \in Database
  /\ open \in BOOLEAN
  /\ proc \in {"making", "off", "upgrading", "serving", "refused", "gone"}
  /\ pc \in 1 .. Last + 1 /\ was \in Nat /\ from \in Versions
  /\ stops \in 0 .. MaxStops
  /\ bad \subseteq Policies
  /\ live \in [made : SUBSET Tasks, reminded : SUBSET Tasks]
  /\ reader \in [at : {"idle", "roles", "policies", "no column", "no policy",
                       "bad policy"},
                 gate : Nat, left : SUBSET Policies,
                 missing : Policies \cup {Nothing}]

\* Wherever an upgrade was cut short, the number in the file promises nothing
\* that the file does not hold (broker_store.py:339-505).
NumberIsHonest == db.version <= Schema => Before(db.version) \subseteq db.parts

\* No reader asks for a table or a column that is not there, also when the
\* upgrade goes on or is interrupted between its SELECTs
\* (broker_store.py:784-841).
ReadersFind == reader.at # "no column"

\* A broker serves only a database of its own schema, with everything its
\* statements name.
Named == {"assignments.boundary_effective", "roles.provider_calls",
          "reports.provider_calls", "reports.peak_context_tokens",
          "assignment_guardrails", "implementation_flow",
          "specialist_activations", "forced_specialists", "roles.activity",
          "roles.activity_at", "continuation_policy", "worker_context_policy",
          "assignments.reminder_state", "assignments.report_attempt",
          "assignments.resume_authorized", "provider_admissions",
          "call_admission_policy", "call_admission_paused"}
ServesItsOwn ==
  proc = "serving" => db.version = Schema /\ Named \subseteq db.parts

\* An unfinished assignment of a broker that knew no reminders gets no
\* automatic turn, and a finished one counts as accepted, however often the
\* upgrade was begun (broker_store.py:468-475, usage.md:1900).
OldGetNoTurn ==
  proc = "serving" /\ from \in 1 .. 10 =>
    \A t \in Tasks \ live.made :
      db.tasks[t].made =>
        IF db.tasks[t].done THEN db.tasks[t].attempt = "accepted"
                            ELSE db.tasks[t].reminder = "used"

\* The upgrade is over once and for all: no later start takes from an
\* assignment of the new schema the automatic turn it still has.
TurnsAreKept ==
  \A t \in live.made : db.tasks[t].reminder = "used" => t \in live.reminded

\* A database with an older schema and readable policies is never refused,
\* wherever its upgrade was interrupted before.
NeverRefused ==
  proc = "refused" => from > Schema \/ bad # {}

\* The retained policies of a run can be read while it is upgraded:
\* a missing row is an error only in a database that should have it.
PoliciesAreReadable == reader.at # "no policy"

\* However often the upgrade is cut short, the file's number promises nothing
\* that is missing, a broker serves its own schema only, the assignments of an
\* old run get no turn and those of a new one keep theirs, readers ask for no
\* column that is not there, and from schema 3 on no start is refused.
UpgradeIsSafe ==
  /\ TypeOK /\ NumberIsHonest /\ ReadersFind
  /\ ServesItsOwn /\ OldGetNoTurn /\ TurnsAreKept
  /\ from \in {1, 2} \/ NeverRefused
=============================================================================
