-------------------------- MODULE ReaderPartsProofs --------------------------
(***************************************************************************)
(* Proofs about the parts of Readers: the database and its upgrade         *)
(* (BrokerSchema), for every set of assignments, every first schema and    *)
(* any number of interruptions; the file relay (Relay), for any reports,   *)
(* roles and recipients, with sends that fail or time out and a relay that *)
(* dies at any step; the broker's pane (Dashboard), for any handlers and   *)
(* looks, with reads and writes that fail; the pages of events (EventFeed),*)
(* for any roles, retention and page, whatever is recorded and pruned      *)
(* between two reads; and the list of retained runs (RetainedRuns), while  *)
(* runs come and go under the scan.                                        *)
(***************************************************************************)
EXTENDS BrokerSchema, Integers, Sequences, FiniteSetTheorems, TLAPS

CONSTANTS
  \* Relay
  Reports, Roles, Recipients, Rpc, PostFaults,
  \* Dashboard
  Handlers, Looks, Animated, Interactive, Turns, MaxWrites, PaneFaults, MaxResizes,
  \* EventFeed
  FeedRoles, Brokered, Retained, Segment, Limit, MaxEvents,
  \* RetainedRuns
  Sessions, MaxRuns, ScanLimit, SessionScan, PageLimit

VARIABLES
  \* Relay
  report, marker, seen, done, typed, copies, refused, relay, faults,
  \* Dashboard
  store, handler, pane, screen, size, signals, ticker, broker, left, tried,
  missed, printed,
  \* EventFeed
  history, lost, cut, registry, call, answer, cursor, received, told,
  \* RetainedRuns
  run, request, throughout

Post == INSTANCE Relay WITH MaxFaults <- PostFaults
Pane == INSTANCE Dashboard WITH MaxFaults <- PaneFaults
Feed == INSTANCE EventFeed WITH Roles <- FeedRoles
Dir == INSTANCE RetainedRuns


\* The upgrade's statements are for schemas below the present one, and only
\* those for schemas 1 and 2 add a column without a look.
LEMMA StatementType ==
  /\ Last = 20
  /\ \A i \in 1 .. Last :
       /\ Upgrade[i].version \in Nat /\ Upgrade[i].version < Schema
       /\ Upgrade[i].kind = "add" => Upgrade[i].version < 3
<1>1. Last = 20
  BY DEF Last, Upgrade
<1>2. ASSUME NEW i \in 1 .. 20
      PROVE  /\ Upgrade[i].version \in Nat /\ Upgrade[i].version < Schema
             /\ Upgrade[i].kind = "add" => Upgrade[i].version < 3
  <2>1. i \in {1, 2, 3, 4, 5, 6, 7, 8, 9, 10, 11, 12, 13, 14, 15, 16, 17, 18, 19, 20}
    OBVIOUS
  <2>2. CASE i <= 5
    BY <2>1, <2>2 DEF Upgrade, Statement, Schema
  <2>3. CASE i > 5 /\ i <= 10
    BY <2>1, <2>3 DEF Upgrade, Statement, Schema
  <2>4. CASE i > 10 /\ i <= 15
    BY <2>1, <2>4 DEF Upgrade, Statement, Schema
  <2>5. CASE i > 15
    BY <2>1, <2>5 DEF Upgrade, Statement, Schema
  <2> QED
    BY <2>1, <2>2, <2>3, <2>4, <2>5
<1> QED
  BY <1>1, <1>2

LEMMA LastType == Last = 20
  BY StatementType

\* Everything the broker's statements name was added by some statement.
LEMMA NamedIsKept == Named \subseteq Before(Schema)
<1>1. \A i \in 1 .. Last : Upgrade[i].kind # "mark" => Upgrade[i].name \in Before(Schema)
  BY StatementType DEF Before, Parts, Kept
<1>2. /\ Upgrade[1].name = "assignments.boundary_effective" /\ Upgrade[1].kind # "mark"
      /\ Upgrade[2].name = "roles.provider_calls" /\ Upgrade[2].kind # "mark"
      /\ Upgrade[3].name = "reports.provider_calls" /\ Upgrade[3].kind # "mark"
      /\ Upgrade[4].name = "reports.peak_context_tokens" /\ Upgrade[4].kind # "mark"
      /\ Upgrade[5].name = "assignment_guardrails" /\ Upgrade[5].kind # "mark"
      /\ Upgrade[6].name = "implementation_flow" /\ Upgrade[6].kind # "mark"
  BY DEF Upgrade, Statement
<1>3. /\ Upgrade[7].name = "specialist_activations" /\ Upgrade[7].kind # "mark"
      /\ Upgrade[8].name = "forced_specialists" /\ Upgrade[8].kind # "mark"
      /\ Upgrade[9].name = "roles.activity" /\ Upgrade[9].kind # "mark"
      /\ Upgrade[10].name = "roles.activity_at" /\ Upgrade[10].kind # "mark"
      /\ Upgrade[11].name = "continuation_policy" /\ Upgrade[11].kind # "mark"
      /\ Upgrade[12].name = "worker_context_policy" /\ Upgrade[12].kind # "mark"
  BY DEF Upgrade, Statement
<1>4. /\ Upgrade[13].name = "assignments.reminder_state" /\ Upgrade[13].kind # "mark"
      /\ Upgrade[14].name = "assignments.report_attempt" /\ Upgrade[14].kind # "mark"
      /\ Upgrade[17].name = "assignments.resume_authorized" /\ Upgrade[17].kind # "mark"
      /\ Upgrade[18].name = "provider_admissions" /\ Upgrade[18].kind # "mark"
      /\ Upgrade[19].name = "call_admission_policy" /\ Upgrade[19].kind # "mark"
      /\ Upgrade[20].name = "call_admission_paused" /\ Upgrade[20].kind # "mark"
  BY DEF Upgrade, Statement
<1>5. {1, 2, 3, 4, 5, 6, 7, 8, 9, 10, 11, 12, 13, 14, 17, 18, 19, 20} \subseteq 1 .. Last
  BY StatementType
<1> QED
  BY <1>1, <1>2, <1>3, <1>4, <1>5 DEF Named

-----------------------------------------------------------------------------
(* Types                                                                   *)

LEMMA PartsType ==
  /\ \A v \in Nat : Before(v) \in SUBSET Parts(Kept)
  /\ Before(Schema) = Parts(Kept)
  /\ Rows \in SUBSET Parts(Kept)
  /\ \A i \in 1 .. Last : Upgrade[i].kind # "mark" => Upgrade[i].name \in Parts(Kept)
BY StatementType DEF Before, Rows, Parts, Kept

LEMMA TasksType ==
  /\ NotMade \in Task /\ Old \subseteq Task /\ Present \subseteq Task
  /\ \A t \in Task :
       /\ [t EXCEPT !.attempt = "accepted"] \in Task
       /\ [t EXCEPT !.reminder = "used"] \in Task
       /\ [t EXCEPT !.done = TRUE, !.attempt = "accepted"] \in Task
       /\ [t EXCEPT !.made = TRUE] \in Task
<1>1. NotMade \in Task
  BY DEF NotMade, Task, Attempts, Reminders
<1>2. Old \subseteq Task
  BY <1>1 DEF Task, Old, Attempts, Reminders
<1>3. Present \subseteq Task
  <2>1. Present \subseteq {NotMade} \cup [made : {TRUE}, done : BOOLEAN,
                                          attempt : Attempts, reminder : Reminders]
    BY Zenon DEF Present
  <2>2. [made : {TRUE}, done : BOOLEAN, attempt : Attempts, reminder : Reminders]
          \subseteq Task
    BY DEF Task
  <2> QED
    BY <1>1, <2>1, <2>2
<1>4. ASSUME NEW t \in Task
      PROVE  /\ [t EXCEPT !.attempt = "accepted"] \in Task
             /\ [t EXCEPT !.reminder = "used"] \in Task
             /\ [t EXCEPT !.done = TRUE, !.attempt = "accepted"] \in Task
             /\ [t EXCEPT !.made = TRUE] \in Task
  BY DEF Task, Attempts, Reminders
<1> QED
  BY <1>1, <1>2, <1>3, <1>4

LEMMA DoneType ==
  ASSUME NEW i \in 1 .. Last, NEW d \in Database
  PROVE  Done(Upgrade[i], d) \in Database
<1>1. CASE Upgrade[i].kind = "mark"
  <2>1. Marked(d.tasks, Upgrade[i].name) \in [Tasks -> Task]
    BY TasksType DEF Marked, Database
  <2> QED
    BY <1>1, <2>1 DEF Done, Database
<1>2. CASE Upgrade[i].kind # "mark"
  <2>1. d.parts \cup {Upgrade[i].name} \in SUBSET Parts(Kept)
    BY <1>2, PartsType DEF Database
  <2> QED
    BY <1>2, <2>1 DEF Done, Database
<1> QED
  BY <1>1, <1>2

\* The readers change nothing but their own place.
LEMMA ReadType == TypeOK /\ Read => TypeOK'
<1> SUFFICES ASSUME TypeOK, Read PROVE TypeOK'
  OBVIOUS
<1> DEFINE R == [at : {"idle", "roles", "policies", "no column", "no policy",
                       "bad policy"},
                 gate : Nat, left : SUBSET Policies,
                 missing : Policies \cup {Nothing}]
<1>1. reader' \in R
  <2>1. reader \in R /\ db.version \in Nat
    BY DEF TypeOK, Database
  <2>2. CASE ReadMeta
    BY <2>1, <2>2 DEF ReadMeta, Idle
  <2>3. CASE ReadRoles
    BY <2>1, <2>3 DEF ReadRoles
  <2>4. ASSUME NEW p \in Policies, ReadPolicy(p) PROVE reader' \in R
    BY <2>1, <2>4 DEF ReadPolicy
  <2>5. CASE LookAgain
    BY <2>1, <2>5 DEF LookAgain
  <2>6. CASE Answer
    BY <2>6 DEF Answer, Idle
  <2> QED
    BY <2>2, <2>3, <2>4, <2>5, <2>6 DEF Read
<1>2. UNCHANGED <<writer, from, bad>>
  BY DEF Read, ReadMeta, ReadRoles, ReadPolicy, LookAgain, Answer
<1> QED
  BY <1>1, <1>2 DEF TypeOK, writer

LEMMA SchemaTypesInit == Init => TypeOK
<1> SUFFICES ASSUME Init PROVE TypeOK
  OBVIOUS
<1>1. from \in Nat /\ was \in Nat
  BY VersionsAreNumbers DEF Init
<1>2. db \in Database
  <2>1. PICK tasks \in [Tasks -> IF from = 0 THEN {NotMade}
                                 ELSE IF from <= 10 THEN Old ELSE Present] :
               db = [version |-> from,
                     parts |-> IF from = 0 THEN {} ELSE Before(from), tasks |-> tasks]
    BY DEF Init
  <2>2. tasks \in [Tasks -> Task]
    BY <2>1, TasksType
  <2>3. (IF from = 0 THEN {} ELSE Before(from)) \in SUBSET Parts(Kept)
    BY <1>1, PartsType
  <2> QED
    BY <1>1, <2>1, <2>2, <2>3 DEF Database
<1>3. bad \subseteq Policies /\ view = db /\ open = FALSE /\ pc = 1 /\ stops = 0
      /\ proc \in {"making", "off"} /\ reader = Idle
      /\ live = [made |-> {}, reminded |-> {}] /\ from \in Versions
  BY DEF Init
<1>4. pc \in 1 .. Last + 1 /\ stops \in 0 .. MaxStops
  BY <1>3, LastType, StopsAreCounted
<1>5. reader \in [at : {"idle", "roles", "policies", "no column", "no policy",
                       "bad policy"},
                 gate : Nat, left : SUBSET Policies, missing : Policies \cup {Nothing}]
  BY <1>3 DEF Idle
<1> QED
  BY <1>1, <1>2, <1>3, <1>4, <1>5 DEF TypeOK

\* Every variable keeps its type, for all constants (BrokerSchema's TypeOK).
THEOREM SchemaTypes == Spec => []TypeOK
<1>1. Init => TypeOK
  BY SchemaTypesInit
<1>2. TypeOK /\ [Next]_vars => TypeOK'
  <2> SUFFICES ASSUME TypeOK, [Next]_vars PROVE TypeOK'
    OBVIOUS
  <2>0. pc \in 1 .. Last + 1 /\ stops \in 0 .. MaxStops /\ db \in Database /\ db.version \in Nat
    BY DEF TypeOK, Database
  <2>1. CASE MakeTables
    <3>1. db' \in Database
      BY <2>1 DEF TypeOK, MakeTables, Database
    <3> QED
      BY <2>1, <3>1 DEF TypeOK, MakeTables
  <2>2. CASE MakeRows
    <3>1. db' \in Database
      BY <2>2, PartsType DEF TypeOK, MakeRows, Database, Schema
    <3> QED
      BY <2>2, <3>1 DEF TypeOK, MakeRows
  <2>3. CASE Start
    <3>1. pc' \in 1 .. Last + 1 /\ was' \in Nat /\ open' = FALSE /\ view' = db
      BY <2>0, <2>3, LastType DEF Start
    <3>2. proc' \in {"refused", "upgrading"}
          /\ UNCHANGED <<db, stops, reader, from, bad, live>>
      BY <2>3 DEF Start
    <3> QED
      BY <2>0, <3>1, <3>2 DEF TypeOK
  <2>4. CASE Skip
    <3>1. pc' \in 1 .. Last + 1
      BY <2>0, <2>4, LastType DEF Skip
    <3> QED
      BY <2>4, <3>1 DEF TypeOK, Skip
  <2>5. CASE Execute
    <3>1. pc \in 1 .. Last /\ pc' \in 1 .. Last + 1
      BY <2>0, <2>5, LastType DEF Execute
    <3>3. view' \in Database
      BY <2>5, <3>1, DoneType DEF TypeOK, Execute
    <3>2. db' \in Database /\ open' \in BOOLEAN
      BY <2>5, <3>3 DEF TypeOK, Execute, ChangesRows
    <3> QED
      BY <2>5, <3>1, <3>2, <3>3 DEF TypeOK, Execute
  <2>6. CASE Duplicate
    BY <2>6 DEF TypeOK, Duplicate, GiveUp
  <2>7. CASE Reject
    BY <2>7 DEF TypeOK, Reject, GiveUp
  <2>8. CASE Save
    <3>1. view' \in Database
      BY <2>8 DEF TypeOK, Save, Database, Schema
    <3> QED
      BY <2>8, <3>1 DEF TypeOK, Save
  <2>9. CASE Interrupted
    <3>1. stops' \in 0 .. MaxStops
      BY <2>0, <2>9, StopsAreCounted DEF Interrupted
    <3>2. db' = db /\ view' = db /\ open' = FALSE /\ UNCHANGED <<pc, was, reader, from, bad, live>>
          /\ proc' \in {"gone", "off"}
      BY <2>9 DEF Interrupted, GiveUp
    <3> QED
      BY <3>1, <3>2 DEF TypeOK
  <2>10. ASSUME NEW t \in Tasks, NEW task \in Task, Change(t, task)
         PROVE  db' \in Database /\ view' \in Database
    BY <2>10 DEF TypeOK, Change, Database
  <2>11. ASSUME NEW t \in Tasks, Assign(t) PROVE TypeOK'
    <3>1. [NotMade EXCEPT !.made = TRUE] \in Task
      BY TasksType
    <3>2. db' \in Database /\ view' \in Database
      BY <2>10, <2>11, <3>1 DEF Assign
    <3> QED
      BY <2>11, <3>2 DEF TypeOK, Assign, Change
  <2>12. ASSUME NEW t \in Tasks, Remind(t) PROVE TypeOK'
    <3>1. [db.tasks[t] EXCEPT !.reminder = "used"] \in Task
      BY TasksType DEF TypeOK, Database
    <3>2. db' \in Database /\ view' \in Database
      BY <2>10, <2>12, <3>1 DEF Remind
    <3> QED
      BY <2>12, <3>2 DEF TypeOK, Remind, Change
  <2>13. ASSUME NEW t \in Tasks, Report(t) PROVE TypeOK'
    <3>1. [db.tasks[t] EXCEPT !.done = TRUE, !.attempt = "accepted"] \in Task
      BY TasksType DEF TypeOK, Database
    <3>2. db' \in Database /\ view' \in Database
      BY <2>10, <2>13, <3>1 DEF Report
    <3> QED
      BY <2>13, <3>2 DEF TypeOK, Report, Change
  <2>14. CASE Read
    BY <2>14, ReadType
  <2>15. CASE UNCHANGED vars
    BY <2>15 DEF TypeOK, vars
  <2> QED
    BY <2>1, <2>2, <2>3, <2>4, <2>5, <2>6, <2>7, <2>8, <2>9, <2>11, <2>12, <2>13,
       <2>14, <2>15 DEF Next, Broker
<1> QED
  BY <1>1, <1>2, PTL DEF Spec

-----------------------------------------------------------------------------
(* The number in the file.                                                 *)

\* While the database is made it has no number, and its tables or nothing.
Making ==
  proc = "making" =>
    /\ db.version = 0
    /\ db.parts = {} \/ Parts(Kept) \ Rows \subseteq db.parts
    /\ live.made = {}

\* While it is upgraded nothing is lost, and what the statements so far add is
\* there for the one who writes.
Upgrading ==
  proc = "upgrading" =>
    /\ was = db.version /\ view.version = was
    /\ db.parts \subseteq view.parts
    /\ \A i \in Kept : i < pc /\ Due(i) => Upgrade[i].name \in view.parts

Serving == proc = "serving" => db.version = Schema

\* Assignments are made only in a database of the present schema, where no
\* statement is due any more.
Living ==
  live.made # {} =>
    /\ db.version = Schema
    /\ proc = "upgrading" => view.tasks = db.tasks

IInv == NumberIsHonest /\ Making /\ Upgrading /\ Serving /\ Living /\ TurnsAreKept

LEMMA KeptType == Kept \subseteq 1 .. Last
  BY DEF Kept

\* The parts of the type invariant that the steps below need.
LEMMA TypeFacts ==
  ASSUME TypeOK
  PROVE  /\ db \in Database /\ view \in Database /\ was \in Nat
         /\ pc \in 1 .. Last + 1 /\ pc \in Nat
<1>1. /\ db \in Database /\ view \in Database /\ was \in Nat
      /\ pc \in 1 .. Last + 1
  BY Zenon DEF TypeOK
<1>2. pc \in Nat
  BY <1>1, LastType
<1> QED
  BY <1>1, <1>2

LEMMA InvInit == Init => TypeOK /\ IInv
<1> SUFFICES ASSUME Init PROVE TypeOK /\ IInv
  OBVIOUS
<1>1. TypeOK
  BY SchemaTypesInit
<1>2. /\ db.version = from /\ db.parts = (IF from = 0 THEN {} ELSE Before(from))
      /\ from \in Nat /\ live.made = {} /\ proc = IF from = 0 THEN "making" ELSE "off"
  BY VersionsAreNumbers DEF Init
<1>3. from = 0 => Before(from) = {}
  BY StatementType DEF Before, Parts, Kept
<1> QED
  BY <1>1, <1>2, <1>3
  DEF IInv, NumberIsHonest, Making, Upgrading, Serving, Living, TurnsAreKept

\* One more statement.
LEMMA InvExecute == TypeOK /\ IInv /\ Execute => IInv'
<1> SUFFICES ASSUME TypeOK, IInv, Execute PROVE IInv'
  OBVIOUS
<1> DEFINE s == Upgrade[pc]
<1>1. /\ pc \in 1 .. Last /\ pc' = pc + 1 /\ Due(pc) /\ was' = was
      /\ proc = "upgrading" /\ proc' = "upgrading" /\ live' = live
      /\ db \in Database /\ view \in Database /\ was \in Nat /\ pc \in Nat
  <2>1. /\ pc <= Last /\ pc' = pc + 1 /\ Due(pc) /\ was' = was
        /\ proc = "upgrading" /\ proc' = proc /\ live' = live
    BY Zenon DEF Execute
  <2>2. /\ db \in Database /\ view \in Database /\ was \in Nat
        /\ pc \in 1 .. Last + 1 /\ pc \in Nat
    BY TypeFacts
  <2>3. pc \in 1 .. Last
    BY <2>1, <2>2, LastType
  <2> QED
    BY <2>1, <2>2, <2>3
<1>2. /\ was = db.version /\ view.version = was /\ db.parts \subseteq view.parts
      /\ \A i \in Kept : i < pc /\ Due(i) => Upgrade[i].name \in view.parts
      /\ was <= Schema => Before(was) \subseteq db.parts
  BY <1>1 DEF IInv, Upgrading, NumberIsHonest
<1>3. /\ view'.version = view.version
      /\ view'.parts = (IF s.kind = "mark" THEN view.parts ELSE view.parts \cup {s.name})
  <2>1. view' = Done(s, view)
    BY DEF Execute
  <2> QED
    BY <1>1, <2>1 DEF Done, Database
<1>4. db' = db \/ db' = view'
  BY DEF Execute
<1>5. was < Schema
  BY <1>1, StatementType DEF Due, Schema
<1>6. live.made = {}
  BY <1>1, <1>2, <1>5 DEF IInv, Living, Schema
<1>7. db'.version = was /\ db.parts \subseteq db'.parts /\ db'.parts \subseteq view'.parts
  BY <1>2, <1>3, <1>4
<1>8. NumberIsHonest'
  BY <1>2, <1>5, <1>7 DEF NumberIsHonest, Schema
<1>9. Upgrading'
  <2>1. ASSUME NEW i \in Kept, i < pc', Due(i)' PROVE Upgrade[i].name \in view'.parts
    <3>1. i \in 1 .. Last /\ Due(i) /\ Upgrade[i].kind # "mark" /\ (i < pc \/ i = pc)
      BY <1>1, <2>1, KeptType, LastType DEF Kept, Due
    <3> QED
      BY <1>2, <1>3, <3>1, <2>1
  <2> QED
    BY <1>1, <1>2, <1>3, <1>7, <2>1 DEF Upgrading
<1> QED
  BY <1>1, <1>6, <1>8, <1>9 DEF IInv, Making, Serving, Living, TurnsAreKept

\* The number is raised when all that it promises is there.
LEMMA InvSave == TypeOK /\ IInv /\ Save => IInv'
<1> SUFFICES ASSUME TypeOK, IInv, Save PROVE IInv'
  OBVIOUS
<1>1. /\ view \in Database /\ was \in Nat /\ was <= Schema /\ pc \in Nat /\ pc > Last
      /\ proc = "upgrading" /\ proc' = "serving" /\ live' = live /\ db' = view'
      /\ view'.version = Schema /\ view'.parts = view.parts /\ view'.tasks = view.tasks
  <2>1. view \in Database /\ was \in Nat /\ pc \in Nat
    BY TypeFacts
  <2>2. /\ pc > Last /\ ~(was > Schema) /\ proc = "upgrading" /\ proc' = "serving"
        /\ live' = live /\ db' = view' /\ view' = [view EXCEPT !.version = Schema]
    BY Zenon DEF Save, Unusable
  <2>3. /\ view'.version = Schema /\ view'.parts = view.parts
        /\ view'.tasks = view.tasks
    BY <2>1, <2>2 DEF Database
  <2>4. was <= Schema
    BY <2>1, <2>2 DEF Schema
  <2> QED
    BY <2>1, <2>2, <2>3, <2>4
<1>2. Before(Schema) \subseteq view.parts
  <2>1. ASSUME NEW i \in Kept PROVE Upgrade[i].name \in view.parts
    <3>1. i \in 1 .. Last /\ i < pc
      BY <1>1, KeptType, LastType
    <3>2. CASE Due(i)
      BY <1>1, <2>1, <3>1, <3>2 DEF IInv, Upgrading
    <3>3. CASE ~Due(i)
      <4>1. Upgrade[i].version < was
        BY <1>1, <3>1, <3>3, StatementType DEF Due
      <4>2. Upgrade[i].name \in Before(was)
        BY <2>1, <4>1 DEF Before, Parts
      <4> QED
        BY <1>1, <4>2 DEF IInv, Upgrading, NumberIsHonest
    <3> QED
      BY <3>2, <3>3
  <2> QED
    BY <2>1 DEF Before, Parts
<1>3. NumberIsHonest'
  BY <1>1, <1>2 DEF NumberIsHonest
<1>4. live.made # {} => db'.tasks = db.tasks
  BY <1>1 DEF IInv, Living
<1> QED
  BY <1>1, <1>3, <1>4 DEF IInv, Making, Upgrading, Serving, Living, TurnsAreKept

\* The broker at work changes assignments only.
LEMMA InvWork ==
  ASSUME TypeOK, IInv, NEW t \in Tasks, Assign(t) \/ Remind(t) \/ Report(t)
  PROVE  IInv'
<1>1. PICK task \in Task : Change(t, task)
  <2>1. db.tasks[t] \in Task
    BY DEF TypeOK, Database
  <2> QED
    BY <2>1, TasksType DEF Assign, Remind, Report
<1>2. /\ db'.version = db.version /\ db'.parts = db.parts /\ proc' = proc
      /\ db'.tasks = [db.tasks EXCEPT ![t] = task] /\ proc = "serving"
      /\ db.tasks \in [Tasks -> Task] /\ live \in [made : SUBSET Tasks, reminded : SUBSET Tasks]
  BY <1>1 DEF TypeOK, Change, Database, Assign, Remind, Report
<1>3. db.version = Schema
  BY <1>2 DEF IInv, Serving
<1>4. TurnsAreKept'
  <2>1. \A u \in live.made : db.tasks[u].reminder = "used" => u \in live.reminded
    BY DEF IInv, TurnsAreKept
  <2>2. \A u \in Tasks \ {t} : db'.tasks[u] = db.tasks[u]
    BY <1>2
  <2>3. CASE Assign(t)
    <3>1. /\ live'.made = live.made \cup {t} /\ live'.reminded = live.reminded
          /\ db'.tasks[t] = [NotMade EXCEPT !.made = TRUE]
      BY <1>2, <2>3 DEF Assign, Change, TypeOK, Database
    <3>2. [NotMade EXCEPT !.made = TRUE].reminder # "used"
      BY DEF NotMade
    <3> QED
      BY <1>2, <2>1, <2>2, <3>1, <3>2 DEF TurnsAreKept
  <2>4. CASE Remind(t)
    <3>1. live'.made = live.made /\ live'.reminded = live.reminded \cup {t}
      BY <1>2, <2>4 DEF Remind
    <3> QED
      BY <1>2, <2>1, <2>2, <3>1 DEF TurnsAreKept
  <2>5. CASE Report(t)
    <3>1. live' = live /\ db'.tasks[t].reminder = db.tasks[t].reminder
      BY <1>2, <2>5 DEF Report, Change, TypeOK, Database, Task
    <3> QED
      BY <1>2, <2>1, <2>2, <3>1 DEF TurnsAreKept
  <2> QED
    BY <2>3, <2>4, <2>5
<1> QED
  BY <1>2, <1>3, <1>4 DEF IInv, NumberIsHonest, Making, Upgrading, Serving, Living

LEMMA InvNext == TypeOK /\ IInv /\ [Next]_vars => IInv'
<1> SUFFICES ASSUME TypeOK, IInv, [Next]_vars PROVE IInv'
  OBVIOUS
<1> USE DEF IInv
<1>0. db \in Database /\ view \in Database /\ pc \in Nat
  BY TypeFacts
<1>1. CASE MakeTables
  BY <1>0, <1>1 DEF MakeTables, NumberIsHonest, Making, Upgrading, Serving, Living,
     TurnsAreKept, Database
<1>2. CASE MakeRows
  <2>1. /\ db'.version = Schema /\ db'.parts = db.parts \cup Rows
        /\ proc = "making" /\ proc' = "off" /\ live' = live /\ db.parts # {}
    BY <1>0, <1>2 DEF MakeRows, Database
  <2>2. Parts(Kept) \subseteq db'.parts
    BY <2>1 DEF Making
  <2>3. NumberIsHonest'
    BY <2>1, <2>2, PartsType DEF NumberIsHonest
  <2>4. live.made = {}
    BY <2>1 DEF Making
  <2> QED
    BY <2>1, <2>3, <2>4 DEF Making, Upgrading, Serving, Living, TurnsAreKept
<1>3. CASE Start
  <2>1. \A i \in Kept : ~(i < 1)
    BY KeptType
  <2>2. db' = db /\ live' = live /\ was' = db.version /\ view' = db /\ pc' = 1
        /\ proc' \in {"refused", "upgrading"}
    BY <1>3 DEF Start
  <2>3. Upgrading'
    BY <2>1, <2>2 DEF Upgrading
  <2> QED
    BY <2>2, <2>3 DEF NumberIsHonest, Making, Serving, Living, TurnsAreKept
<1>4. CASE Skip
  <2>1. /\ UNCHANGED <<db, view, proc, was, live>> /\ pc' = pc + 1 /\ ~Due(pc)
    BY <1>4 DEF Skip
  <2>2. \A i \in Kept : i < pc' /\ Due(i)' => i < pc /\ Due(i)
    BY <1>0, <2>1, KeptType DEF Due
  <2>3. Upgrading'
    BY <2>1, <2>2 DEF Upgrading
  <2> QED
    BY <2>1, <2>3 DEF NumberIsHonest, Making, Serving, Living, TurnsAreKept
<1>5. CASE Execute
  BY <1>5, InvExecute
<1>6. CASE Duplicate \/ Reject \/ Interrupted
  <2>1. db' = db /\ live' = live /\ proc' \in {"refused", "gone", "off"}
    BY <1>6 DEF Duplicate, Reject, Interrupted, GiveUp
  <2> QED
    BY <2>1 DEF NumberIsHonest, Making, Upgrading, Serving, Living, TurnsAreKept
<1>7. CASE Save
  BY <1>7, InvSave
<1>8. ASSUME NEW t \in Tasks, Assign(t) \/ Remind(t) \/ Report(t) PROVE IInv'
  BY <1>8, InvWork
<1>9. CASE Read \/ UNCHANGED vars
  <2>1. UNCHANGED writer
    BY <1>9 DEF Read, ReadMeta, ReadRoles, ReadPolicy, LookAgain, Answer, vars, writer
  <2> QED
    BY <2>1 DEF writer, NumberIsHonest, Making, Upgrading, Serving, Living,
       TurnsAreKept, Due
<1> QED
  BY <1>1, <1>2, <1>3, <1>4, <1>5, <1>6, <1>7, <1>8, <1>9 DEF Next, Broker

LEMMA SchemaInvariant == Spec => []IInv
<1>1. Init => IInv
  BY InvInit
<1>2. TypeOK /\ IInv /\ [Next]_vars => IInv'
  BY InvNext
<1> QED
  BY <1>1, <1>2, SchemaTypes, PTL DEF Spec

\* Wherever upgrades were cut short, and however often, the schema's number in
\* the file promises nothing that the file does not hold.
THEOREM NumberHonest == Spec => []NumberIsHonest
<1>1. IInv => NumberIsHonest
  BY DEF IInv
<1> QED
  BY <1>1, SchemaInvariant, PTL

\* A broker serves only a database of its own schema that holds all its
\* statements name.
THEOREM OwnSchema == Spec => []ServesItsOwn
<1>1. IInv => ServesItsOwn
  BY NamedIsKept DEF IInv, Serving, NumberIsHonest, ServesItsOwn, Schema
<1> QED
  BY <1>1, SchemaInvariant, PTL

\* No later start spends the automatic turn of an assignment of the new schema.
THEOREM TurnsKept == Spec => []TurnsAreKept
<1>1. IInv => TurnsAreKept
  BY DEF IInv
<1> QED
  BY <1>1, SchemaInvariant, PTL
-----------------------------------------------------------------------------
(* Starting again.                                                         *)

\* Unless it was of schema 1 or 2: the schema is the first one until an upgrade
\* is finished; none is upgraded that has no number.
Origin ==
  from \notin {1, 2} =>
    /\ db.version \in {0, from, Schema}
    /\ proc \in {"off", "upgrading", "serving"} => db.version # 0
    /\ NeverRefused

LEMMA OriginInit == Init => Origin
  BY VersionsAreNumbers DEF Init, Origin, NeverRefused

\* A statement that fails is one for schema 1 or 2.
LEMMA OriginDuplicate == TypeOK /\ IInv /\ Origin /\ Duplicate => from \in {1, 2}
<1> SUFFICES ASSUME TypeOK, IInv, Origin, Duplicate, from \notin {1, 2} PROVE FALSE
  OBVIOUS
<1>1. pc \in 1 .. Last
  <2>1. pc \in 1 .. Last + 1 /\ pc \in Nat
    BY TypeFacts
  <2>2. pc <= Last
    BY DEF Duplicate
  <2> QED
    BY <2>1, <2>2, LastType
<1>2. Upgrade[pc].version \in Nat /\ Upgrade[pc].version < 3
  BY <1>1, StatementType DEF Duplicate, Fails
<1>3. was = db.version /\ db.version # 0 /\ was \in Nat /\ from \in Nat
  <2>1. proc = "upgrading"
    BY DEF Duplicate
  <2>2. was \in Nat /\ from \in Nat
    BY VersionsAreNumbers, TypeFacts DEF TypeOK
  <2> QED
    BY <2>1, <2>2 DEF IInv, Upgrading, Origin
<1>4. was >= 3
  BY <1>3 DEF Origin, Schema
<1>5. Upgrade[pc].version >= was
  BY DEF Duplicate, Due
<1> QED
  BY <1>2, <1>3, <1>4, <1>5

LEMMA OriginNext == TypeOK /\ IInv /\ Origin /\ [Next]_vars => Origin'
<1> SUFFICES ASSUME TypeOK, IInv, Origin, [Next]_vars PROVE Origin'
  OBVIOUS
<1>1. CASE MakeTables
  <2>1. db'.version = db.version
    BY <1>1, TypeFacts DEF MakeTables, Database
  <2> QED
    BY <1>1, <2>1 DEF MakeTables, Origin, NeverRefused
<1>2. CASE MakeRows
  <2>1. db'.version = Schema
    BY <1>2, TypeFacts DEF MakeRows, Database
  <2> QED
    BY <1>2, <2>1 DEF MakeRows, Origin, NeverRefused, Schema
<1>3. CASE Start
  BY <1>3 DEF Start, Origin, NeverRefused
<1>4. CASE Skip
  BY <1>4 DEF Skip, Origin, NeverRefused
<1>5. CASE Execute
  <2>1. /\ proc = "upgrading" /\ proc' = proc /\ from' = from /\ bad' = bad
        /\ db' = db \/ db' = view'
    BY <1>5 DEF Execute
  <2>2. view'.version = view.version
    BY <1>5, TypeFacts DEF Execute, Done, Database
  <2>3. view.version = db.version
    BY <2>1 DEF IInv, Upgrading
  <2> QED
    BY <2>1, <2>2, <2>3 DEF Origin, NeverRefused
<1>6. CASE Reject
  <2>1. /\ proc = "upgrading" /\ proc' = "refused" /\ db' = db /\ from' = from
        /\ bad' = bad /\ (was > Schema \/ bad # {})
    BY <1>6 DEF Reject, GiveUp, Unusable
  <2>2. was = db.version
    BY <2>1 DEF IInv, Upgrading
  <2>3. from \in {1, 2} \/ from > Schema \/ bad # {}
    BY <2>1, <2>2 DEF Origin, Schema
  <2> QED
    BY <2>1, <2>3 DEF Origin, NeverRefused
<1>7. CASE Interrupted
  BY <1>7 DEF Interrupted, GiveUp, Origin, NeverRefused
<1>8. CASE Save
  <2>1. db'.version = Schema
    BY <1>8, TypeFacts DEF Save, Database
  <2> QED
    BY <1>8, <2>1 DEF Save, Origin, NeverRefused, Schema
<1>9. ASSUME NEW t \in Tasks, Assign(t) \/ Remind(t) \/ Report(t) PROVE Origin'
  <2>1. PICK task : Change(t, task)
    BY <1>9 DEF Assign, Remind, Report
  <2>2. db'.version = db.version /\ UNCHANGED <<proc, from, bad>>
    BY <2>1, TypeFacts DEF Change, Database
  <2> QED
    BY <2>2 DEF Origin, NeverRefused
<1>10. CASE Duplicate
  BY <1>10, OriginDuplicate DEF Duplicate, GiveUp, Origin
<1>11. CASE Read \/ UNCHANGED vars
  <2>1. UNCHANGED <<db, proc, from, bad>>
    BY <1>11 DEF Read, ReadMeta, ReadRoles, ReadPolicy, LookAgain, Answer, vars, writer
  <2> QED
    BY <2>1 DEF Origin, NeverRefused
<1> QED
  BY <1>1, <1>2, <1>3, <1>4, <1>5, <1>6, <1>7, <1>8, <1>9, <1>10, <1>11
  DEF Next, Broker

\* From schema 3 on an upgrade can be cut short anywhere and begun again: only
\* a newer database or an unreadable policy is refused (broker_store.py:339-505).
THEOREM UpgradeRestarts == Spec => [](from \in {1, 2} \/ NeverRefused)
<1>1. Init => Origin
  BY OriginInit
<1>2. TypeOK /\ IInv /\ Origin /\ [Next]_vars => Origin'
  BY OriginNext
<1>3. Origin => from \in {1, 2} \/ NeverRefused
  BY DEF Origin
<1> QED
  BY <1>1, <1>2, <1>3, SchemaTypes, SchemaInvariant, PTL DEF Spec

-----------------------------------------------------------------------------
(* Readers.                                                                *)

\* What a schema's number tells a reader to ask for was added below it.
LEMMA GatePromises ==
  ASSUME NEW v \in Nat, v <= Schema, NEW p \in Gated, Gate(p) <= v
  PROVE  p \in Before(v)
<1>1. ASSUME NEW i \in 1 .. Last, Upgrade[i].kind # "mark", Upgrade[i].name = p,
             Upgrade[i].version < Gate(p), Gate(p) \in Nat
      PROVE  p \in Before(v)
  <2>1. Upgrade[i].version \in Nat /\ i \in Kept
    BY <1>1, StatementType DEF Kept
  <2>2. Upgrade[i].version < v
    BY <1>1, <2>1
  <2> QED
    BY <1>1, <2>1, <2>2 DEF Before, Parts
<1>2. {2, 3, 4, 5, 7, 9, 10} \subseteq 1 .. Last
  BY StatementType
<1>3. CASE p \in {"roles.provider_calls", "reports.provider_calls",
                  "reports.peak_context_tokens"}
  <2>1. Gate(p) = 3
    BY <1>3 DEF Gate
  <2>2. /\ Upgrade[2] = Statement(2, "add", "roles.provider_calls")
        /\ Upgrade[3] = Statement(2, "add", "reports.provider_calls")
        /\ Upgrade[4] = Statement(2, "add", "reports.peak_context_tokens")
    BY DEF Upgrade
  <2> QED
    BY <1>1, <1>2, <1>3, <2>1, <2>2 DEF Statement
<1>4. CASE p = "assignment_guardrails"
  <2>1. Gate(p) = 5 /\ Upgrade[5] = Statement(4, "create", "assignment_guardrails")
    BY <1>4 DEF Gate, Upgrade
  <2> QED
    BY <1>1, <1>2, <1>4, <2>1 DEF Statement
<1>5. CASE p = "specialist_activations"
  <2>1. Gate(p) = 7 /\ Upgrade[7] = Statement(6, "create", "specialist_activations")
    BY <1>5 DEF Gate, Upgrade
  <2> QED
    BY <1>1, <1>2, <1>5, <2>1 DEF Statement
<1>6. CASE p \in {"roles.activity", "roles.activity_at"}
  <2>1. Gate(p) = 8
    BY <1>6 DEF Gate
  <2>2. /\ Upgrade[9] = Statement(7, "need", "roles.activity")
        /\ Upgrade[10] = Statement(7, "need", "roles.activity_at")
    BY DEF Upgrade
  <2> QED
    BY <1>1, <1>2, <1>6, <2>1, <2>2 DEF Statement
<1> QED
  BY <1>3, <1>4, <1>5, <1>6 DEF Gated

\* A schema newer than the present one has all of it, and the number that a
\* reader read is not above the one in the file.
Reading ==
  /\ db.version > Schema => Before(Schema) \subseteq db.parts
  /\ reader.at = "roles" => reader.gate <= db.version
  /\ ReadersFind

LEMMA ReadingInit == Init => Reading
<1> SUFFICES ASSUME Init PROVE Reading
  OBVIOUS
<1>1. /\ db.version = from /\ from \in Nat /\ reader = Idle
      /\ db.parts = (IF from = 0 THEN {} ELSE Before(from))
  BY VersionsAreNumbers DEF Init
<1>2. from > Schema => Before(Schema) \subseteq Before(from)
  BY <1>1, StatementType, KeptType DEF Before, Parts, Schema
<1> QED
  BY <1>1, <1>2 DEF Reading, ReadersFind, Idle, Schema

\* The number in the file only rises, to the present schema, and parts only come.
LEMMA FileGrows ==
  ASSUME TypeOK, IInv, [Next]_vars
  PROVE  /\ db.parts \subseteq db'.parts
         /\ db'.version = db.version \/ (db'.version = Schema /\ db.version <= Schema)
<1>0. db \in Database /\ view \in Database /\ was \in Nat
  BY TypeFacts
<1>1. CASE MakeTables
  BY <1>0, <1>1 DEF MakeTables, Database
<1>2. CASE MakeRows
  <2>1. db'.version = Schema /\ db'.parts = db.parts \cup Rows /\ db.version = 0
    BY <1>0, <1>2 DEF MakeRows, Database, IInv, Making
  <2> QED
    BY <2>1 DEF Schema
<1>3. CASE Start \/ Skip \/ Duplicate \/ Reject \/ Interrupted \/ Read \/ UNCHANGED vars
  <2>1. db' = db
    BY <1>3 DEF Start, Skip, Duplicate, Reject, Interrupted, GiveUp, Read, ReadMeta,
       ReadRoles, ReadPolicy, LookAgain, Answer, writer, vars
  <2> QED
    BY <2>1
<1>4. CASE Execute
  <2>1. db' = db \/ db' = Done(Upgrade[pc], view)
    BY <1>4 DEF Execute
  <2>2. db.parts \subseteq view.parts /\ view.version = db.version
    BY <1>4 DEF Execute, IInv, Upgrading
  <2>3. LET d == Done(Upgrade[pc], view)
        IN  view.parts \subseteq d.parts /\ d.version = view.version
    BY <1>0 DEF Done, Database
  <2> QED
    BY <2>1, <2>2, <2>3
<1>5. CASE Save
  <2>1. /\ db' = [view EXCEPT !.version = Schema] /\ was <= Schema
        /\ db.parts \subseteq view.parts /\ was = db.version
    BY <1>0, <1>5 DEF Save, Unusable, IInv, Upgrading, Schema
  <2> QED
    BY <1>0, <2>1 DEF Database
<1>6. ASSUME NEW t \in Tasks, Assign(t) \/ Remind(t) \/ Report(t)
      PROVE  db'.parts = db.parts /\ db'.version = db.version
  <2>1. PICK task : Change(t, task)
    BY <1>6 DEF Assign, Remind, Report
  <2> QED
    BY <1>0, <2>1 DEF Change, Database
<1> QED
  BY <1>1, <1>2, <1>3, <1>4, <1>5, <1>6 DEF Next, Broker

LEMMA ReadingNext ==
  ASSUME TypeOK, IInv, Reading, [Next]_vars PROVE Reading'
<1>0. /\ db.version \in Nat /\ db'.version \in Nat /\ reader.gate \in Nat
      /\ db.parts \subseteq db'.parts
      /\ db'.version = db.version \/ (db'.version = Schema /\ db.version <= Schema)
  <2>1. db \in Database /\ reader.gate \in Nat
    BY DEF TypeOK
  <2> QED
    BY <2>1, FileGrows DEF Database, Schema
<1>1. db'.version > Schema => Before(Schema) \subseteq db'.parts
  BY <1>0 DEF Reading, Schema
<1>2. \A n \in Nat : n <= db.version => n <= db'.version
  BY <1>0 DEF Schema
<1>3. CASE UNCHANGED reader
  <2>1. reader.at = "roles" => reader.gate <= db.version
    BY DEF Reading
  <2>2. reader.at = "roles" => reader.gate <= db'.version
    BY <1>0, <1>2, <2>1
  <2> QED
    BY <1>1, <1>3, <2>2 DEF Reading, ReadersFind
<1>4. CASE ReadMeta
  BY <1>0, <1>1, <1>4 DEF ReadMeta, writer, Reading, ReadersFind, Idle
<1>5. CASE ReadRoles
  <2>1. ASSUME NEW p \in Gated, Gate(p) <= reader.gate PROVE p \in db.parts
    <3>1. Gate(p) \in Nat /\ Gate(p) <= Schema
      BY DEF Gate, Gated, Schema
    <3>2. Gate(p) <= db.version
      <4>1. reader.gate <= db.version
        BY <1>5 DEF ReadRoles, Reading
      <4> QED
        BY <1>0, <2>1, <3>1, <4>1
    <3>3. CASE db.version <= Schema
      <4>1. p \in Before(db.version)
        BY <1>0, <3>2, <3>3, GatePromises
      <4> QED
        BY <3>3, <4>1 DEF IInv, NumberIsHonest
    <3>4. CASE db.version > Schema
      <4>1. p \in Before(Schema)
        BY <3>1, GatePromises DEF Schema
      <4> QED
        BY <3>4, <4>1 DEF Reading
    <3> QED
      BY <1>0, <3>3, <3>4 DEF Schema
  <2>2. reader' = [reader EXCEPT !.at = "policies", !.left = Policies]
    BY <1>5, <2>1 DEF ReadRoles
  <2>3. reader'.at = "policies"
    BY <2>2 DEF TypeOK
  <2> QED
    BY <1>1, <2>3 DEF Reading, ReadersFind
<1>6. ASSUME NEW p \in Policies, ReadPolicy(p) PROVE Reading'
  <2>1. reader'.at \in {"policies", "bad policy"}
    BY <1>6 DEF ReadPolicy, TypeOK
  <2> QED
    BY <1>1, <2>1 DEF Reading, ReadersFind
<1>7. CASE LookAgain
  <2>1. reader'.at \in {"policies", "no policy"}
    BY <1>7 DEF LookAgain, TypeOK
  <2> QED
    BY <1>1, <2>1 DEF Reading, ReadersFind
<1>8. CASE Answer
  BY <1>1, <1>8 DEF Answer, Idle, Reading, ReadersFind
<1>9. CASE ~Read
  <2>1. UNCHANGED reader
    BY <1>9 DEF Next, MakeTables, MakeRows, Broker, Start, Skip, Execute, Duplicate,
       Reject, Save, Interrupted, GiveUp, Assign, Remind, Report, Change, vars
  <2> QED
    BY <1>3, <2>1
<1> QED
  BY <1>4, <1>5, <1>6, <1>7, <1>8, <1>9 DEF Read

\* No reader asks for a column or a table that is not there, whatever an upgrade
\* does between its statements.
THEOREM ReadersFindTheirs == Spec => []ReadersFind
<1>1. Init => Reading
  BY ReadingInit
<1>2. TypeOK /\ IInv /\ Reading /\ [Next]_vars => Reading'
  BY ReadingNext
<1>3. Reading => ReadersFind
  BY DEF Reading
<1> QED
  BY <1>1, <1>2, <1>3, SchemaTypes, SchemaInvariant, PTL DEF Spec

-----------------------------------------------------------------------------
(* Assignments of old brokers.                                             *)

Settled(task) ==
  task.made => IF task.done THEN task.attempt = "accepted" ELSE task.reminder = "used"

\* A database of schemas 1 to 10 keeps its number until the upgrade is done;
\* the statements that mark the assignments are due in it, and what they mark
\* stays marked.
Marking ==
  from \in 1 .. 10 =>
    /\ db.version \in {from, Schema}
    /\ db.version = Schema => \A t \in Tasks \ live.made : Settled(db.tasks[t])
    /\ proc = "upgrading" /\ db.version = Schema => view.tasks = db.tasks
    /\ proc = "upgrading" /\ db.version = from =>
         \A t \in Tasks :
           /\ pc > 15 /\ view.tasks[t].made /\ view.tasks[t].done =>
                view.tasks[t].attempt = "accepted"
           /\ pc > 16 => Settled(view.tasks[t])

LEMMA MarksType ==
  /\ 15 \in 1 .. Last /\ 16 \in 1 .. Last
  /\ Upgrade[15] = Statement(10, "mark", "report_attempt")
  /\ Upgrade[16] = Statement(10, "mark", "reminder_state")
  BY StatementType DEF Upgrade

LEMMA MarkingInit == Init => Marking
  BY VersionsAreNumbers DEF Init, Marking, Schema

LEMMA MarkingExecute ==
  ASSUME TypeOK, IInv, Marking, Execute PROVE Marking'
<1> SUFFICES ASSUME from \in 1 .. 10 PROVE Marking'
  BY DEF Marking, Execute
<1>1. /\ proc = "upgrading" /\ proc' = proc /\ pc' = pc + 1 /\ Due(pc) /\ pc <= Last
      /\ view' = Done(Upgrade[pc], view) /\ UNCHANGED <<was, from, live>>
      /\ db' = db \/ db' = view'
  BY Zenon DEF Execute
<1>2. /\ db \in Database /\ view \in Database /\ was \in Nat /\ pc \in Nat
      /\ pc \in 1 .. Last + 1 /\ was = db.version /\ view.version = was
  BY <1>1, TypeFacts DEF IInv, Upgrading
<1>3. db.version = from /\ db.version # Schema
  <2>1. pc \in 1 .. Last
    BY <1>1, <1>2, LastType
  <2>2. Upgrade[pc].version < Schema /\ Upgrade[pc].version >= was
            /\ Upgrade[pc].version \in Nat
    BY <1>1, <2>1, StatementType DEF Due
  <2> QED
    BY <1>2, <2>2 DEF Marking, Schema
<1>4. view'.version = view.version /\ db'.version = db.version
  <2>1. view'.version = view.version
    BY <1>1, <1>2 DEF Done, Database
  <2> QED
    BY <1>1, <1>2, <2>1
<1>5. view'.tasks = IF Upgrade[pc].kind = "mark" THEN Marked(view.tasks, Upgrade[pc].name)
                                                 ELSE view.tasks
  BY <1>1, <1>2 DEF Done, Database
<1>6. ASSUME NEW t \in Tasks
      PROVE  /\ pc' > 15 /\ view'.tasks[t].made /\ view'.tasks[t].done =>
                  view'.tasks[t].attempt = "accepted"
             /\ pc' > 16 => Settled(view'.tasks[t])
  <2> DEFINE k == view.tasks[t]
  <2>1. /\ pc > 15 /\ k.made /\ k.done => k.attempt = "accepted"
        /\ pc > 16 => Settled(k)
    BY <1>1, <1>3 DEF Marking
  <2>2. k \in Task
    BY <1>2 DEF Database
  <2>3. CASE pc = 15
    <3>1. view'.tasks[t] = IF k.made /\ k.done THEN [k EXCEPT !.attempt = "accepted"] ELSE k
      BY <1>5, <2>3, MarksType DEF Marked, Statement
    <3> QED
      BY <1>1, <2>2, <2>3, <3>1 DEF Task
  <2>4. CASE pc = 16
    <3>1. view'.tasks[t] = IF k.made /\ ~k.done THEN [k EXCEPT !.reminder = "used"] ELSE k
      BY <1>5, <2>4, MarksType DEF Marked, Statement
    <3> QED
      BY <1>1, <2>1, <2>2, <2>4, <3>1 DEF Task, Settled
  <2>5. CASE pc > 16
    <3>1. \/ view'.tasks[t] = k
          \/ k.made /\ k.done /\ view'.tasks[t] = [k EXCEPT !.attempt = "accepted"]
          \/ k.made /\ ~k.done /\ view'.tasks[t] = [k EXCEPT !.reminder = "used"]
      BY <1>5 DEF Marked
    <3> QED
      BY <1>2, <2>1, <2>2, <2>5, <3>1 DEF Task, Settled
  <2>6. CASE pc < 15
    BY <1>1, <1>2, <2>6
  <2> QED
    BY <1>2, <2>3, <2>4, <2>5, <2>6
<1> QED
  BY <1>1, <1>3, <1>4, <1>6 DEF Marking

LEMMA MarkingWork ==
  ASSUME TypeOK, IInv, Marking, NEW t \in Tasks, Assign(t) \/ Remind(t) \/ Report(t)
  PROVE  Marking'
<1>1. PICK task \in Task : Change(t, task)
  <2>1. db.tasks[t] \in Task
    BY DEF TypeOK, Database
  <2> QED
    BY <2>1, TasksType DEF Assign, Remind, Report
<1>2. /\ db'.version = db.version /\ proc = "serving" /\ proc' = proc /\ from' = from
      /\ db'.tasks = [db.tasks EXCEPT ![t] = task] /\ db.tasks \in [Tasks -> Task]
      /\ live \in [made : SUBSET Tasks, reminded : SUBSET Tasks]
  BY <1>1 DEF TypeOK, Change, Database, Assign, Remind, Report
<1>3. live.made \subseteq live'.made
  BY <1>2 DEF Assign, Remind, Report
<1>4. \A u \in Tasks \ {t} : db'.tasks[u] = db.tasks[u]
  BY <1>2
<1>5. ASSUME t \notin live'.made, from \in 1 .. 10 PROVE Settled(db'.tasks[t])
  <2>1. db.version = Schema
    BY <1>2 DEF IInv, Serving
  <2>2. db'.tasks[t] = task
    BY <1>2
  <2>3. CASE Remind(t)
    <3>1. db'.tasks[t] = [db.tasks[t] EXCEPT !.reminder = "used"] /\ ~db.tasks[t].done
      BY <1>2, <2>3 DEF Remind, Change, TypeOK, Database
    <3>2. db.tasks[t] \in Task
      BY <1>2
    <3> QED
      BY <3>1, <3>2 DEF Settled, Task
  <2>4. CASE Report(t)
    <3>1. db'.tasks[t] = [db.tasks[t] EXCEPT !.done = TRUE, !.attempt = "accepted"]
      BY <1>2, <2>4 DEF Report, Change, TypeOK, Database
    <3>2. db.tasks[t] \in Task
      BY <1>2
    <3> QED
      BY <3>1, <3>2 DEF Settled, Task
  <2>5. CASE Assign(t)
    BY <1>2, <1>5, <2>5 DEF Assign
  <2> QED
    BY <2>3, <2>4, <2>5
<1> QED
  BY <1>2, <1>3, <1>4, <1>5 DEF Marking

LEMMA MarkingNext ==
  ASSUME TypeOK, IInv, Marking, [Next]_vars PROVE Marking'
<1>0. db \in Database /\ view \in Database /\ was \in Nat /\ pc \in Nat
  BY TypeFacts
<1>1. CASE MakeTables
  <2>1. db.version = 0 /\ from' = from /\ proc' = proc /\ proc = "making" /\ db'.version = 0
    BY <1>0, <1>1 DEF MakeTables, IInv, Making, Database
  <2> QED
    BY <2>1 DEF Marking, Schema
<1>2. CASE MakeRows
  <2>1. db.version = 0 /\ from' = from
    BY <1>2 DEF MakeRows, IInv, Making
  <2> QED
    BY <2>1 DEF Marking, Schema
<1>3. CASE Start
  <2>1. UNCHANGED <<db, from, live>> /\ view' = db /\ pc' = 1
    BY <1>3 DEF Start
  <2> QED
    BY <2>1 DEF Marking
<1>4. CASE Skip
  <2>1. UNCHANGED <<db, view, proc, from, live, was>> /\ pc' = pc + 1 /\ ~Due(pc)
        /\ proc = "upgrading"
    BY <1>4 DEF Skip
  <2>2. from \in 1 .. 10 /\ db.version = from => pc # 15 /\ pc # 16
    <3>1. was = db.version
      BY <2>1 DEF IInv, Upgrading
    <3> QED
      BY <1>0, <2>1, <3>1, MarksType DEF Due, Statement
  <2>3. from \in 1 .. 10 /\ db.version = from => (pc' > 15 => pc > 15) /\ (pc' > 16 => pc > 16)
    BY <1>0, <2>1, <2>2
  <2> QED
    BY <2>1, <2>3 DEF Marking
<1>5. CASE Execute
  BY <1>5, MarkingExecute
<1>6. CASE Duplicate \/ Reject \/ Interrupted
  <2>1. UNCHANGED <<db, from, live>> /\ proc' # "upgrading"
    BY <1>6 DEF Duplicate, Reject, Interrupted, GiveUp
  <2> QED
    BY <2>1 DEF Marking
<1>7. CASE Save
  <2>1. /\ db'.version = Schema /\ db'.tasks = view.tasks /\ proc' = "serving"
        /\ proc = "upgrading" /\ from' = from /\ live' = live /\ pc > Last
    BY <1>0, <1>7 DEF Save, Database
  <2>2. pc > 16
    BY <1>0, <2>1, LastType
  <2> QED
    BY <2>1, <2>2 DEF Marking
<1>8. ASSUME NEW t \in Tasks, Assign(t) \/ Remind(t) \/ Report(t) PROVE Marking'
  BY <1>8, MarkingWork
<1>9. CASE Read \/ UNCHANGED vars
  <2>1. UNCHANGED <<writer, from>>
    BY <1>9 DEF Read, ReadMeta, ReadRoles, ReadPolicy, LookAgain, Answer, vars, writer
  <2> QED
    BY <2>1 DEF writer, Marking
<1> QED
  BY <1>1, <1>2, <1>3, <1>4, <1>5, <1>6, <1>7, <1>8, <1>9 DEF Next, Broker

\* However often the upgrade of an old database was begun, its unfinished
\* assignments get no automatic turn and its finished ones count as accepted.
THEOREM OldAreSettled == Spec => []OldGetNoTurn
<1>1. Init => Marking
  BY MarkingInit
<1>2. TypeOK /\ IInv /\ Marking /\ [Next]_vars => Marking'
  BY MarkingNext
<1>3. IInv /\ Marking => OldGetNoTurn
  BY DEF IInv, Serving, Marking, OldGetNoTurn, Settled
<1> QED
  BY <1>1, <1>2, <1>3, SchemaTypes, SchemaInvariant, PTL DEF Spec

\* All of it together: what the upgrade of a run's database promises.
THEOREM UpgradeSafe == Spec => []UpgradeIsSafe
<1>1. TypeOK /\ NumberIsHonest /\ ReadersFind /\ ServesItsOwn /\ OldGetNoTurn
        /\ TurnsAreKept /\ (from \in {1, 2} \/ NeverRefused) => UpgradeIsSafe
  BY DEF UpgradeIsSafe
<1> QED
  BY <1>1, SchemaTypes, NumberHonest, ReadersFindTheirs, OwnSchema, OldAreSettled,
     TurnsKept, UpgradeRestarts, PTL

-----------------------------------------------------------------------------
(* The file relay: the inductive invariant.                                  *)

Sending == relay.at \in {"send", "enter", "mark"}

\* The notice the relay works on is one of this run's, and its token is not on disk.
Forms ==
  /\ relay \in [at : Post!Steps, left : SUBSET Reports, report : Reports \cup {""},
                role : Roles \cup {""}, roles : SUBSET Roles]
  /\ seen \subseteq Post!Pairs /\ copies \in [Post!Pairs -> Nat] /\ typed \in [Post!Pairs -> Nat] /\ faults \in Nat
  /\ relay.at = "close" \/ Sending => relay.report \in Reports
  /\ Sending => relay.role \in Roles /\ Post!Notice \notin seen

\* Text stands in the editor before Enter, and a notice is out before it is marked.
Order ==
  /\ relay.at = "enter" => ~Rpc /\ typed[Post!Notice] > 0
  /\ relay.at = "mark" => copies[Post!Notice] > 0

\* A notice beyond the faults is on disk, or is the one under way.
Allowed(n) == IF n \in seen \/ (relay.at \in {"enter", "mark"} /\ n = Post!Notice) THEN 1 ELSE 0
Spent == \A n \in Post!Pairs : copies[n] + typed[n] <= faults + Allowed(n)

PostInv == Forms /\ Order /\ Spent /\ Post!SeenIsDelivered /\ Post!RpcNoticedOnce

LEMMA PostInit == Post!Init => PostInv
<1> SUFFICES ASSUME Post!Init PROVE PostInv
  OBVIOUS
<1>1. Forms
  BY DEF Post!Init, Forms, Post!Idle, Post!Steps, Sending, Post!Notice
<1>2. Order
  BY DEF Post!Init, Order, Post!Idle
<1>3. Spent
  <2> SUFFICES ASSUME NEW n \in Post!Pairs PROVE copies[n] + typed[n] <= faults + Allowed(n)
    BY DEF Spent
  <2>1. copies[n] = 0 /\ typed[n] = 0 /\ faults = 0
    BY DEF Post!Init
  <2>2. Allowed(n) \in {0, 1}
    BY DEF Allowed
  <2> QED
    BY <2>1, <2>2
<1>4. Post!SeenIsDelivered /\ Post!RpcNoticedOnce
  BY DEF Post!Init, Post!SeenIsDelivered, Post!RpcNoticedOnce
<1> QED
  BY <1>1, <1>2, <1>3, <1>4 DEF PostInv

-----------------------------------------------------------------------------
(* Steps that send nothing.                                                  *)

RelayStates == [at : Post!Steps, left : SUBSET Reports, report : Reports \cup {""},
                role : Roles \cup {""}, roles : SUBSET Roles]

\* The relay goes where it sends nothing: asleep, scanning, between recipients, dead.
LEMMA Moves ==
  ASSUME PostInv, seen' = seen, typed' = typed, copies' = copies, faults' \in Nat,
         relay' \in RelayStates,
         relay'.at \notin {"send", "enter", "mark"},
         relay'.at = "close" => relay'.report \in Reports,
         \/ faults' = faults /\ relay.at \notin {"enter", "mark"}
         \/ faults' = faults + 1,
         \A r \in done' \ done : Post!AllSeen(r)
  PROVE  PostInv'
<1>1. Forms'
  BY DEF PostInv, Forms, Sending, Post!Notice, RelayStates
<1>2. Order'
  BY DEF Order
<1>3. Spent'
  <2> SUFFICES ASSUME NEW n \in Post!Pairs PROVE copies[n] + typed[n] <= faults' + Allowed(n)'
    BY DEF Spent
  <2>1. copies[n] \in Nat /\ typed[n] \in Nat /\ faults \in Nat
        /\ copies[n] + typed[n] <= faults + Allowed(n)
    BY DEF PostInv, Forms, Spent
  <2>2. Allowed(n)' = IF n \in seen THEN 1 ELSE 0
    BY DEF Allowed
  <2>3. CASE faults' = faults + 1
    <3>1. Allowed(n) \in {0, 1}
      BY DEF Allowed
    <3> QED
      BY <2>1, <2>2, <2>3, <3>1
  <2>4. CASE faults' = faults /\ relay.at \notin {"enter", "mark"}
    <3>1. Allowed(n) = IF n \in seen THEN 1 ELSE 0
      BY <2>4 DEF Allowed
    <3> QED
      BY <2>1, <2>2, <2>4, <3>1
  <2> QED
    BY <2>3, <2>4
<1>4. Post!SeenIsDelivered' /\ Post!RpcNoticedOnce'
  BY DEF PostInv, Post!SeenIsDelivered, Post!RpcNoticedOnce, Post!AllSeen
<1> QED
  BY <1>1, <1>2, <1>3, <1>4 DEF PostInv

\* The workers' own files are none of the relay's.
LEMMA OwnFiles ==
  ASSUME PostInv, seen' = seen, done' = done, typed' = typed, copies' = copies, relay' = relay,
         faults' \in Nat, faults' >= faults
  PROVE  PostInv'
<1>1. Forms' /\ Order'
  BY DEF PostInv, Forms, Order, Sending, Post!Notice
<1>2. Spent'
  <2> SUFFICES ASSUME NEW n \in Post!Pairs PROVE copies[n] + typed[n] <= faults' + Allowed(n)'
    BY DEF Spent
  <2>1. copies[n] \in Nat /\ typed[n] \in Nat /\ faults \in Nat
        /\ copies[n] + typed[n] <= faults + Allowed(n)
    BY DEF PostInv, Forms, Spent
  <2>2. Allowed(n)' = Allowed(n) /\ Allowed(n) \in {0, 1}
    BY DEF Allowed, Post!Notice
  <2> QED
    BY <2>1, <2>2
<1>3. Post!SeenIsDelivered' /\ Post!RpcNoticedOnce'
  BY DEF PostInv, Post!SeenIsDelivered, Post!RpcNoticedOnce
<1> QED
  BY <1>1, <1>2, <1>3 DEF PostInv

LEMMA WorkerSteps ==
  ASSUME PostInv, NEW r \in Reports, Post!WriteReport(r) \/ Post!RewriteReport(r) \/ Post!WriteMarker(r)
  PROVE  PostInv'
<1>1. /\ seen' = seen /\ done' = done /\ typed' = typed /\ copies' = copies /\ relay' = relay
      /\ faults' = faults \/ faults' = faults + 1
  BY DEF Post!WriteReport, Post!RewriteReport, Post!WriteMarker, Post!tokens, Post!workers
<1>2. faults \in Nat
  BY DEF PostInv, Forms
<1> QED
  BY <1>1, <1>2, OwnFiles

\* What a lost worker leaves open is the worker's, and nothing else moves.
LEMMA LoseWorkerStep == ASSUME PostInv, NEW role \in Roles, Post!LoseWorker(role) PROVE PostInv'
<1>1. /\ seen' = seen /\ done' = done /\ typed' = typed /\ copies' = copies /\ relay' = relay
      /\ faults' = faults + 1
  BY DEF Post!LoseWorker, Post!tokens
<1>2. faults \in Nat
  BY DEF PostInv, Forms
<1> QED
  BY <1>1, <1>2, OwnFiles

LEMMA ScanSteps ==
  ASSUME PostInv,
         \/ Post!Wake \/ Post!CloseMarker \/ Post!Sleep \/ Post!Die \/ Post!Respawn
         \/ \E r \in Reports : Post!PassOver(r) \/ Post!Deliver(r)
  PROVE  PostInv'
<1>1. relay \in RelayStates /\ faults \in Nat
      /\ (relay.at = "close" => relay.report \in Reports)
  BY DEF PostInv, Forms, RelayStates
<1>2. Post!Idle \in RelayStates /\ Post!Idle.at = "sleep"
  BY DEF Post!Idle, RelayStates, Post!Steps
<1>3. CASE Post!Wake \/ Post!Sleep \/ Post!Respawn
  <2>1. relay' \in RelayStates /\ relay'.at \in {"sleep", "scan"}
    BY <1>2, <1>3 DEF Post!Wake, Post!Sleep, Post!Respawn, Post!Idle, RelayStates, Post!Steps
  <2>2. /\ seen' = seen /\ done' = done /\ typed' = typed /\ copies' = copies
        /\ faults' = faults /\ relay.at \notin {"enter", "mark"}
    BY <1>3 DEF Post!Wake, Post!Sleep, Post!Respawn, Post!tokens, Post!workers
  <2> QED
    BY <1>1, <2>1, <2>2, Moves
<1>4. CASE Post!CloseMarker
  <2>1. relay' \in RelayStates /\ relay'.at = "scan"
    BY <1>1, <1>2, <1>4 DEF Post!CloseMarker, Post!Idle, RelayStates, Post!Steps
  <2>2. /\ seen' = seen /\ typed' = typed /\ copies' = copies
        /\ faults' = faults /\ relay.at \notin {"enter", "mark"}
    BY <1>4 DEF Post!CloseMarker, Post!workers
  <2>3. \A r \in done' \ done : Post!AllSeen(r)
    BY <1>4 DEF Post!CloseMarker
  <2> QED
    BY <1>1, <2>1, <2>2, <2>3, Moves
<1>5. CASE Post!Die
  <2>1. relay' \in RelayStates /\ relay'.at = "dead"
    BY <1>2, <1>5 DEF Post!Die, Post!Idle, RelayStates, Post!Steps
  <2>2. /\ seen' = seen /\ done' = done /\ typed' = typed /\ copies' = copies
        /\ faults' = faults + 1
    BY <1>5 DEF Post!Die, Post!tokens, Post!workers
  <2> QED
    BY <1>1, <2>1, <2>2, Moves
<1>6. ASSUME NEW r \in Reports, Post!PassOver(r) PROVE PostInv'
  <2>1. relay' \in RelayStates /\ relay'.at = "scan"
    BY <1>1, <1>6 DEF Post!PassOver, RelayStates
  <2>2. /\ seen' = seen /\ done' = done /\ typed' = typed /\ copies' = copies
        /\ faults' = faults /\ relay.at \notin {"enter", "mark"}
    BY <1>6 DEF Post!PassOver, Post!tokens, Post!workers
  <2> QED
    BY <1>1, <2>1, <2>2, Moves
<1>7. ASSUME NEW r \in Reports, Post!Deliver(r) PROVE PostInv'
  <2>1. relay' \in RelayStates /\ relay'.at = "close" /\ relay'.report = r
    BY <1>1, <1>7 DEF Post!Deliver, RelayStates, Post!Steps, Post!Enabled
  <2>2. /\ seen' = seen /\ done' = done /\ typed' = typed /\ copies' = copies
        /\ faults' = faults /\ relay.at \notin {"enter", "mark"}
    BY <1>7 DEF Post!Deliver, Post!tokens, Post!workers
  <2> QED
    BY <1>1, <2>1, <2>2, Moves
<1> QED
  BY <1>3, <1>4, <1>5, <1>6, <1>7

LEMMA NextRecipientStep ==
  ASSUME PostInv, NEW role \in Roles, Post!NextRecipient(role)
  PROVE  PostInv'
<1>1. /\ relay.at = "close" /\ relay.report \in Reports /\ relay \in RelayStates
      /\ relay' = [relay EXCEPT !.roles = @ \ {role}, !.role = role,
                     !.at = IF <<relay.report, role>> \in seen THEN "close" ELSE "send"]
      /\ seen' = seen /\ done' = done /\ typed' = typed /\ copies' = copies /\ faults' = faults
  BY DEF Post!NextRecipient, PostInv, Forms, RelayStates, Post!tokens, Post!workers
<1>2. /\ relay'.report = relay.report /\ relay'.role = role
      /\ relay'.at = IF <<relay.report, role>> \in seen THEN "close" ELSE "send"
      /\ relay' \in RelayStates
  BY <1>1 DEF RelayStates, Post!Steps
<1>3. Forms'
  BY <1>1, <1>2 DEF PostInv, Forms, RelayStates, Sending, Post!Notice
<1>4. Order'
  BY <1>2 DEF Order
<1>5. Spent'
  <2>1. \A n \in Post!Pairs : Allowed(n)' = Allowed(n)
    BY <1>1, <1>2 DEF Allowed
  <2> QED
    BY <1>1, <2>1 DEF PostInv, Spent
<1>6. Post!SeenIsDelivered' /\ Post!RpcNoticedOnce'
  BY <1>1 DEF PostInv, Post!SeenIsDelivered, Post!RpcNoticedOnce
<1> QED
  BY <1>3, <1>4, <1>5, <1>6 DEF PostInv

-----------------------------------------------------------------------------
(* Sends.                                                                    *)

LEMMA NoticeIsPair == ASSUME PostInv, Sending PROVE Post!Notice \in Post!Pairs /\ Post!Notice \notin seen
  BY DEF PostInv, Forms, Post!Notice, Post!Pairs, Sending

LEMMA GoesOn ==
  ASSUME PostInv, Sending, NEW step \in Post!Steps, Post!Goes(step)
  PROVE  /\ relay'.at = step /\ Post!Notice' = Post!Notice
         /\ relay' \in RelayStates
         /\ relay'.report \in Reports /\ relay'.role \in Roles
BY DEF PostInv, Forms, RelayStates, Post!Goes, Post!Notice, Sending

\* What a step of a send has to show: the tokens stay, and what it adds is accounted for.
LEMMA Sends ==
  ASSUME PostInv, Sending, NEW step \in {"enter", "mark", "close"}, Post!Goes(step),
         seen' = seen, done' = done,
         copies' \in [Post!Pairs -> Nat], typed' \in [Post!Pairs -> Nat], faults' \in Nat,
         faults' >= faults,
         \A n \in Post!Pairs : copies'[n] >= copies[n],
         step = "enter" => ~Rpc /\ typed'[Post!Notice] > 0,
         step = "mark" => copies'[Post!Notice] > 0,
         \A n \in Post!Pairs \ {Post!Notice} : copies'[n] + typed'[n] <= copies[n] + typed[n],
         copies'[Post!Notice] + typed'[Post!Notice] <= faults' + (IF step = "close" THEN 0 ELSE 1),
         Rpc => \A n \in Post!Pairs : copies'[n] <= 1
  PROVE  PostInv'
<1>1. /\ relay'.at = step /\ Post!Notice' = Post!Notice
      /\ relay' \in RelayStates
      /\ relay'.report \in Reports /\ relay'.role \in Roles
  BY GoesOn DEF Post!Steps
<1>2. Post!Notice \in Post!Pairs /\ Post!Notice \notin seen
  BY NoticeIsPair
<1>3. seen \subseteq Post!Pairs /\ faults \in Nat /\ copies \in [Post!Pairs -> Nat] /\ typed \in [Post!Pairs -> Nat]
  BY DEF PostInv, Forms
<1>4. Forms'
  BY <1>1, <1>2, <1>3 DEF Forms, Sending, RelayStates
<1>5. Order'
  BY <1>1 DEF Order
<1>6. Spent'
  <2> SUFFICES ASSUME NEW n \in Post!Pairs PROVE copies'[n] + typed'[n] <= faults' + Allowed(n)'
    BY DEF Spent
  <2>1. CASE n = Post!Notice
    <3>1. Allowed(n)' = IF step = "close" THEN 0 ELSE 1
      BY <1>1, <1>2, <2>1 DEF Allowed
    <3> QED
      BY <2>1, <3>1
  <2>2. CASE n # Post!Notice
    <3>1. Allowed(n)' = Allowed(n) /\ Allowed(n) \in {0, 1}
      BY <1>1, <2>2 DEF Allowed
    <3>2. copies[n] + typed[n] <= faults + Allowed(n)
      BY DEF PostInv, Spent
    <3>3. copies[n] \in Nat /\ typed[n] \in Nat /\ copies'[n] \in Nat /\ typed'[n] \in Nat
      BY <1>3
    <3>4. copies'[n] + typed'[n] <= copies[n] + typed[n]
      BY <2>2
    <3> QED
      BY <1>3, <3>1, <3>2, <3>3, <3>4
  <2> QED
    BY <2>1, <2>2
<1>7. Post!SeenIsDelivered'
  <2>1. ASSUME NEW n \in seen PROVE copies'[n] > 0
    <3>1. n \in Post!Pairs /\ copies[n] > 0
      BY <1>3 DEF PostInv, Post!SeenIsDelivered
    <3>2. copies'[n] >= copies[n] /\ copies[n] \in Nat /\ copies'[n] \in Nat
      BY <1>3, <3>1
    <3> QED
      BY <3>1, <3>2
  <2> QED
    BY <2>1 DEF PostInv, Post!SeenIsDelivered
<1>8. Post!RpcNoticedOnce'
  BY DEF Post!RpcNoticedOnce
<1> QED
  BY <1>4, <1>5, <1>6, <1>7, <1>8 DEF PostInv

\* What a send may rely on.
LEMMA BeforeSend ==
  ASSUME PostInv, Sending
  PROVE  /\ Post!Notice \in Post!Pairs /\ Post!Notice \notin seen
         /\ copies \in [Post!Pairs -> Nat] /\ typed \in [Post!Pairs -> Nat] /\ faults \in Nat
         /\ copies[Post!Notice] \in Nat /\ typed[Post!Notice] \in Nat
         /\ copies[Post!Notice] + typed[Post!Notice] <= faults + (IF relay.at = "send" THEN 0 ELSE 1)
         /\ Rpc => \A n \in Post!Pairs : copies[n] <= 1
<1>1. /\ Post!Notice \in Post!Pairs /\ Post!Notice \notin seen
      /\ copies \in [Post!Pairs -> Nat] /\ typed \in [Post!Pairs -> Nat] /\ faults \in Nat
  BY NoticeIsPair DEF PostInv, Forms
<1>2. Allowed(Post!Notice) = IF relay.at = "send" THEN 0 ELSE 1
  BY <1>1 DEF Allowed, Sending
<1>3. copies[Post!Notice] + typed[Post!Notice] <= faults + Allowed(Post!Notice)
  BY <1>1 DEF PostInv, Spent
<1> QED
  BY <1>1, <1>2, <1>3 DEF PostInv, Post!RpcNoticedOnce

LEMMA SendRpcStep == ASSUME PostInv, Post!SendRpc PROVE PostInv'
<1>1. /\ Rpc /\ relay.at = "send" /\ Sending /\ seen' = seen /\ done' = done /\ typed' = typed
  BY DEF Post!SendRpc, Sending, Post!tokens
<1>2. PICK step \in {"mark", "close"} :
        /\ Post!Goes(step) /\ faults' \in {faults, faults + 1}
        /\ \/ /\ step = "mark" \/ faults' = faults + 1
              /\ copies' = [copies EXCEPT ![Post!Notice] = Post!Submitted(Post!Notice)]
           \/ step = "close" /\ copies' = copies
  <2>1. CASE Post!Acknowledged
    BY <2>1 DEF Post!Acknowledged
  <2>2. CASE Post!RefusedAgain
    BY <2>2 DEF Post!RefusedAgain
  <2>3. CASE faults' = faults + 1 /\ (Post!Unanswered \/ Post!RefusedForGood)
    BY <2>3 DEF Post!Unanswered, Post!RefusedForGood
  <2> QED
    BY <2>1, <2>2, <2>3 DEF Post!SendRpc
<1>3. /\ Post!Notice \in Post!Pairs
      /\ copies \in [Post!Pairs -> Nat] /\ typed \in [Post!Pairs -> Nat] /\ faults \in Nat
      /\ copies[Post!Notice] \in Nat /\ typed[Post!Notice] \in Nat
      /\ copies[Post!Notice] + typed[Post!Notice] <= faults
      /\ \A n \in Post!Pairs : copies[n] <= 1
  BY <1>1, BeforeSend
<1>4. /\ Post!Submitted(Post!Notice) \in Nat /\ Post!Submitted(Post!Notice) = 1 /\ Post!Submitted(Post!Notice) >= copies[Post!Notice]
      /\ Post!Submitted(Post!Notice) <= copies[Post!Notice] + 1
  BY <1>3 DEF Post!Submitted
<1>5. /\ copies' \in [Post!Pairs -> Nat]
      /\ \A n \in Post!Pairs : copies'[n] >= copies[n] /\ copies'[n] <= 1
      /\ \A n \in Post!Pairs \ {Post!Notice} : copies'[n] = copies[n]
      /\ \/ /\ copies'[Post!Notice] = Post!Submitted(Post!Notice)
            /\ step = "mark" \/ faults' = faults + 1
         \/ copies'[Post!Notice] = copies[Post!Notice] /\ step = "close"
  <2>1. CASE /\ step = "mark" \/ faults' = faults + 1
             /\ copies' = [copies EXCEPT ![Post!Notice] = Post!Submitted(Post!Notice)]
    BY <1>3, <1>4, <2>1
  <2>2. CASE step = "close" /\ copies' = copies
    BY <1>3, <2>2
  <2> QED
    BY <1>2, <2>1, <2>2
<1>6. copies'[Post!Notice] + typed'[Post!Notice] <= faults' + (IF step = "close" THEN 0 ELSE 1)
  BY <1>1, <1>2, <1>3, <1>4, <1>5
<1>7. \A n \in Post!Pairs \ {Post!Notice} : copies'[n] + typed'[n] <= copies[n] + typed[n]
  BY <1>1, <1>3, <1>5
<1>8. step = "mark" => copies'[Post!Notice] > 0
  BY <1>2, <1>4, <1>5
<1>9. faults' \in Nat /\ faults' >= faults
  BY <1>2, <1>3
<1> QED
  BY <1>1, <1>2, <1>3, <1>5, <1>6, <1>7, <1>8, <1>9, Sends

LEMMA TypeTextStep == ASSUME PostInv, Post!TypeText PROVE PostInv'
<1>1. /\ ~Rpc /\ relay.at = "send" /\ Sending /\ seen' = seen /\ done' = done /\ copies' = copies
  BY DEF Post!TypeText, Sending, Post!tokens
<1>2. PICK step \in {"enter", "close"} :
        /\ Post!Goes(step) /\ faults' = (IF step = "enter" THEN faults ELSE faults + 1)
        /\ typed' = IF step = "enter" THEN [typed EXCEPT ![Post!Notice] = @ + 1] ELSE typed
  BY DEF Post!TypeText
<1>3. /\ Post!Notice \in Post!Pairs
      /\ copies \in [Post!Pairs -> Nat] /\ typed \in [Post!Pairs -> Nat] /\ faults \in Nat
      /\ copies[Post!Notice] \in Nat /\ typed[Post!Notice] \in Nat
      /\ copies[Post!Notice] + typed[Post!Notice] <= faults
  BY <1>1, BeforeSend
<1>4. /\ typed' \in [Post!Pairs -> Nat]
      /\ \A n \in Post!Pairs \ {Post!Notice} : typed'[n] = typed[n]
      /\ typed'[Post!Notice] = IF step = "enter" THEN typed[Post!Notice] + 1 ELSE typed[Post!Notice]
  BY <1>2, <1>3
<1>5. copies'[Post!Notice] + typed'[Post!Notice] <= faults' + (IF step = "close" THEN 0 ELSE 1)
  BY <1>1, <1>2, <1>3, <1>4
<1>6. \A n \in Post!Pairs \ {Post!Notice} : copies'[n] + typed'[n] <= copies[n] + typed[n]
  BY <1>1, <1>3, <1>4
<1>7. \A n \in Post!Pairs : copies'[n] >= copies[n]
  BY <1>1, <1>3
<1>8. faults' \in Nat /\ faults' >= faults /\ (step = "enter" => typed'[Post!Notice] > 0)
  BY <1>2, <1>3, <1>4
<1> QED
  BY <1>1, <1>2, <1>3, <1>4, <1>5, <1>6, <1>7, <1>8, Sends

LEMMA EnterStep == ASSUME PostInv, Post!Enter PROVE PostInv'
<1>1. /\ relay.at = "enter" /\ Sending /\ seen' = seen /\ done' = done
      /\ ~Rpc /\ typed[Post!Notice] > 0
  BY DEF Post!Enter, Sending, Post!tokens, PostInv, Order
<1>2. /\ Post!Notice \in Post!Pairs
      /\ copies \in [Post!Pairs -> Nat] /\ typed \in [Post!Pairs -> Nat] /\ faults \in Nat
      /\ copies[Post!Notice] \in Nat /\ typed[Post!Notice] \in Nat
      /\ copies[Post!Notice] + typed[Post!Notice] <= faults + 1
  BY <1>1, BeforeSend
<1>3. CASE /\ copies' = [n \in Post!Pairs |-> IF n[2] = relay.role
                                         THEN copies[n] + typed[n] ELSE copies[n]]
           /\ typed' = [n \in Post!Pairs |-> IF n[2] = relay.role THEN 0 ELSE typed[n]]
           /\ Post!Goes("mark") /\ faults' = faults
  <2>1. \A n \in Post!Pairs :
          /\ copies[n] \in Nat /\ typed[n] \in Nat
          /\ copies'[n] = IF n[2] = relay.role THEN copies[n] + typed[n] ELSE copies[n]
          /\ typed'[n] = IF n[2] = relay.role THEN 0 ELSE typed[n]
    BY <1>2, <1>3
  <2>2. \A n \in Post!Pairs :
          /\ copies'[n] \in Nat /\ typed'[n] \in Nat
          /\ copies'[n] >= copies[n]
          /\ copies'[n] + typed'[n] = copies[n] + typed[n]
    BY <2>1
  <2>3. copies' \in [Post!Pairs -> Nat] /\ typed' \in [Post!Pairs -> Nat]
    BY <1>3, <2>2
  <2>4. Post!Notice[2] = relay.role
    BY DEF Post!Notice
  <2>5. copies'[Post!Notice] > 0
    BY <1>1, <1>2, <2>1, <2>4
  <2>6. copies'[Post!Notice] + typed'[Post!Notice] <= faults' + 1
    BY <1>2, <1>3, <2>2
  <2>7. \A n \in Post!Pairs \ {Post!Notice} : copies'[n] + typed'[n] <= copies[n] + typed[n]
    BY <2>1, <2>2
  <2> QED
    BY <1>1, <1>2, <1>3, <2>2, <2>3, <2>5, <2>6, <2>7, Sends
<1>4. CASE Post!Goes("close") /\ faults' = faults + 1 /\ copies' = copies /\ typed' = typed
  <2>1. /\ \A n \in Post!Pairs : copies'[n] >= copies[n]
        /\ \A n \in Post!Pairs \ {Post!Notice} : copies'[n] + typed'[n] <= copies[n] + typed[n]
    BY <1>2, <1>4
  <2>2. copies'[Post!Notice] + typed'[Post!Notice] <= faults' /\ faults' \in Nat /\ faults' >= faults
    BY <1>2, <1>4
  <2> QED
    BY <1>1, <1>2, <1>4, <2>1, <2>2, Sends
<1> QED
  BY <1>3, <1>4 DEF Post!Enter

LEMMA MarkRecipientStep == ASSUME PostInv, Post!MarkRecipient PROVE PostInv'
<1>1. /\ relay.at = "mark" /\ Sending /\ seen' = seen \cup {Post!Notice} /\ Post!Goes("close")
      /\ done' = done /\ typed' = typed /\ copies' = copies /\ faults' = faults
  BY DEF Post!MarkRecipient, Post!Remembered, Sending, Post!workers
<1>2. Post!Notice \in Post!Pairs /\ copies[Post!Notice] > 0
  BY <1>1, NoticeIsPair DEF PostInv, Order
<1>3. relay'.at = "close" /\ relay' \in RelayStates /\ relay'.report \in Reports
  BY <1>1, GoesOn DEF Post!Steps
<1>4. Forms'
  BY <1>1, <1>2, <1>3 DEF PostInv, Forms, Sending, RelayStates
<1>5. Order'
  BY <1>3 DEF Order
<1>6. Spent'
  <2>1. \A n \in Post!Pairs : Allowed(n)' = Allowed(n)
    BY <1>1, <1>3 DEF Allowed
  <2> QED
    BY <1>1, <2>1 DEF PostInv, Spent
<1>7. Post!SeenIsDelivered' /\ Post!RpcNoticedOnce'
  BY <1>1, <1>2 DEF PostInv, Post!SeenIsDelivered, Post!RpcNoticedOnce
<1> QED
  BY <1>4, <1>5, <1>6, <1>7 DEF PostInv

-----------------------------------------------------------------------------
(* The theorems.                                                             *)

LEMMA PostNext == ASSUME PostInv, [Post!Next]_(Post!vars) PROVE PostInv'
<1>1. CASE Post!Next
  <2>1. CASE Post!Wake \/ Post!CloseMarker \/ Post!Sleep \/ Post!Die \/ Post!Respawn
             \/ \E r \in Reports : Post!PassOver(r) \/ Post!Deliver(r)
    BY <2>1, ScanSteps
  <2>2. CASE \E role \in Roles : Post!NextRecipient(role)
    BY <2>2, NextRecipientStep
  <2>3. CASE Post!SendRpc
    BY <2>3, SendRpcStep
  <2>4. CASE Post!TypeText
    BY <2>4, TypeTextStep
  <2>5. CASE Post!Enter
    BY <2>5, EnterStep
  <2>6. CASE Post!MarkRecipient
    BY <2>6, MarkRecipientStep
  <2>7. CASE \E r \in Reports : Post!WriteReport(r) \/ Post!RewriteReport(r) \/ Post!WriteMarker(r)
    BY <2>7, WorkerSteps
  <2>8. CASE \E role \in Roles : Post!LoseWorker(role)
    BY <2>8, LoseWorkerStep
  <2> QED
    BY <1>1, <2>1, <2>2, <2>3, <2>4, <2>5, <2>6, <2>7, <2>8 DEF Post!Next, Post!Relays
<1>2. CASE UNCHANGED Post!vars
  <2>1. faults \in Nat
    BY DEF PostInv, Forms
  <2> QED
    BY <1>2, <2>1, OwnFiles DEF Post!vars
<1> QED
  BY <1>1, <1>2

LEMMA PostInvariant == Post!Spec => []PostInv
<1>1. Post!Init => PostInv
  BY PostInit
<1>2. PostInv /\ [Post!Next]_(Post!vars) => PostInv'
  BY PostNext
<1> QED
  BY <1>1, <1>2, PTL DEF Post!Spec

-----------------------------------------------------------------------------
(* The types.                                                                *)

PostFiles ==
  /\ report \in [Reports -> {"none", "bad", "good"}] /\ marker \subseteq Reports
  /\ done \subseteq Reports /\ refused \subseteq Post!Pairs /\ faults \in 0 .. PostFaults

LEMMA FilesKept ==
  ASSUME PostFaults \in Nat, PostInv, PostFiles, [Post!Next]_(Post!vars)
  PROVE  PostFiles'
<1>1. report' \in [Reports -> {"none", "bad", "good"}]
  <2>1. CASE UNCHANGED report
    BY <2>1 DEF PostFiles
  <2>2. ASSUME NEW r \in Reports, NEW v \in {"bad", "good"}, report' = [report EXCEPT ![r] = v]
        PROVE  report' \in [Reports -> {"none", "bad", "good"}]
    BY <2>2 DEF PostFiles
  <2>3. UNCHANGED report \/ \E r \in Reports, v \in {"bad", "good"} : report' = [report EXCEPT ![r] = v]
    BY DEF Post!Next, Post!Relays, Post!vars, Post!files, Post!Wake, Post!PassOver, Post!Deliver, Post!NextRecipient, Post!SendRpc, Post!TypeText,
       Post!Enter, Post!MarkRecipient, Post!CloseMarker, Post!Sleep, Post!Die, Post!Respawn, Post!WriteReport, Post!RewriteReport, Post!WriteMarker,
       Post!LoseWorker, Post!Acknowledged, Post!RefusedAgain, Post!Unanswered, Post!RefusedForGood
  <2> QED
    BY <2>1, <2>2, <2>3
<1>2. marker' \subseteq Reports
  <2>1. UNCHANGED marker \/ \E r \in Reports : marker' = marker \cup {r}
    BY DEF Post!Next, Post!Relays, Post!vars, Post!files, Post!Wake, Post!PassOver, Post!Deliver, Post!NextRecipient, Post!SendRpc, Post!TypeText,
       Post!Enter, Post!MarkRecipient, Post!CloseMarker, Post!Sleep, Post!Die, Post!Respawn, Post!WriteReport, Post!RewriteReport, Post!WriteMarker,
       Post!LoseWorker, Post!Acknowledged, Post!RefusedAgain, Post!Unanswered, Post!RefusedForGood
  <2> QED
    BY <2>1 DEF PostFiles
<1>3. done' \subseteq Reports
  <2>1. UNCHANGED done \/ (relay.at = "close" /\ done' = done \cup {relay.report})
    BY DEF Post!Next, Post!Relays, Post!vars, Post!tokens, Post!Wake, Post!PassOver, Post!Deliver, Post!NextRecipient, Post!SendRpc, Post!TypeText,
       Post!Enter, Post!MarkRecipient, Post!CloseMarker, Post!Sleep, Post!Die, Post!Respawn, Post!WriteReport, Post!RewriteReport, Post!WriteMarker,
       Post!LoseWorker, Post!Acknowledged, Post!RefusedAgain, Post!Unanswered, Post!RefusedForGood
  <2>2. relay.at = "close" => relay.report \in Reports
    BY DEF PostInv, Forms
  <2> QED
    BY <2>1, <2>2 DEF PostFiles
<1>4. faults' \in 0 .. PostFaults
  <2>1. UNCHANGED faults \/ (faults < PostFaults /\ faults' = faults + 1)
    BY DEF Post!Next, Post!Relays, Post!vars, Post!Wake, Post!PassOver, Post!Deliver, Post!NextRecipient, Post!SendRpc, Post!TypeText,
       Post!Enter, Post!MarkRecipient, Post!CloseMarker, Post!Sleep, Post!Die, Post!Respawn, Post!WriteReport, Post!RewriteReport, Post!WriteMarker,
       Post!LoseWorker, Post!Acknowledged, Post!RefusedAgain, Post!Unanswered, Post!RefusedForGood
  <2>2. faults \in 0 .. PostFaults
    BY DEF PostFiles
  <2> QED
    BY <2>1, <2>2
<1>5. refused' \subseteq Post!Pairs
  <2>1. CASE Post!SendRpc
    <3>1. Post!Notice \in Post!Pairs
      BY <2>1, NoticeIsPair DEF Post!SendRpc, Sending
    <3>2. refused' = refused \/ refused' = refused \cup {Post!Notice}
      BY <2>1 DEF Post!SendRpc, Post!Acknowledged, Post!RefusedAgain, Post!Unanswered, Post!RefusedForGood
    <3> QED
      BY <3>1, <3>2 DEF PostFiles
  <2>2. CASE \E role \in Roles : Post!LoseWorker(role)
    BY <2>2 DEF Post!LoseWorker, PostFiles
  <2>3. CASE UNCHANGED refused
    BY <2>3 DEF PostFiles
  <2>4. Post!SendRpc \/ (\E role \in Roles : Post!LoseWorker(role)) \/ UNCHANGED refused
    BY DEF Post!Next, Post!Relays, Post!vars, Post!workers, Post!Wake, Post!PassOver, Post!Deliver, Post!NextRecipient, Post!TypeText,
       Post!Enter, Post!MarkRecipient, Post!CloseMarker, Post!Sleep, Post!Die, Post!Respawn, Post!WriteReport, Post!RewriteReport, Post!WriteMarker
  <2> QED
    BY <2>1, <2>2, <2>3, <2>4
<1> QED
  BY <1>1, <1>2, <1>3, <1>4, <1>5 DEF PostFiles

\* A notice beyond the first is paid for, so no count is above its bound.
LEMMA NoticesAreRight ==
  ASSUME PostFaults \in Nat, PostInv, PostFiles
  PROVE  Post!TypeOK /\ Post!SeenIsDelivered /\ Post!RpcNoticedOnce /\ Post!RepeatsAreFaults
<1>1. faults \in 0 .. PostFaults /\ copies \in [Post!Pairs -> Nat] /\ typed \in [Post!Pairs -> Nat]
  BY DEF PostInv, Forms, PostFiles
<1>2. ASSUME NEW n \in Post!Pairs
      PROVE  /\ copies[n] + typed[n] <= 1 + faults
             /\ copies[n] \in 0 .. PostFaults + 1 /\ typed[n] \in 0 .. PostFaults + 1
  <2>1. copies[n] \in Nat /\ typed[n] \in Nat /\ faults \in Nat /\ faults <= PostFaults
        /\ copies[n] + typed[n] <= faults + Allowed(n)
    BY <1>1 DEF PostInv, Spent
  <2>2. Allowed(n) \in {0, 1}
    BY DEF Allowed
  <2> QED
    BY <2>1, <2>2
<1>3. copies \in [Post!Pairs -> 0 .. PostFaults + 1] /\ typed \in [Post!Pairs -> 0 .. PostFaults + 1]
  BY <1>1, <1>2
<1>4. Post!TypeOK
  BY <1>3 DEF Post!TypeOK, PostInv, Forms, PostFiles, Sending
<1>5. Post!RepeatsAreFaults
  BY <1>2 DEF Post!RepeatsAreFaults
<1> QED
  BY <1>4, <1>5 DEF PostInv

\* The same from what is assumed of the constants.
LEMMA FilesInit == ASSUME Post!RelayAssumption, Post!Init PROVE PostFiles
  BY DEF Post!RelayAssumption, Post!Init, PostFiles

LEMMA PostKept == ASSUME Post!RelayAssumption, PostInv, PostFiles, [Post!Next]_(Post!vars) PROVE PostInv' /\ PostFiles'
<1>1. PostFaults \in Nat
  BY DEF Post!RelayAssumption
<1> QED
  BY <1>1, PostNext, FilesKept

LEMMA PostIsRight ==
  ASSUME Post!RelayAssumption, PostInv, PostFiles
  PROVE  Post!TypeOK /\ Post!SeenIsDelivered /\ Post!RpcNoticedOnce /\ Post!RepeatsAreFaults
<1>1. PostFaults \in Nat
  BY DEF Post!RelayAssumption
<1> QED
  BY <1>1, NoticesAreRight

LEMMA AllInvariant == Post!RelayAssumption => (Post!Spec => [](PostInv /\ PostFiles))
<1> SUFFICES ASSUME Post!RelayAssumption PROVE Post!Spec => [](PostInv /\ PostFiles)
  OBVIOUS
<1>1. Post!Init => PostInv /\ PostFiles
  BY PostInit, FilesInit
<1>2. PostInv /\ PostFiles /\ [Post!Next]_(Post!vars) => (PostInv /\ PostFiles)'
  BY PostKept
<1> QED
  BY <1>1, <1>2, PTL DEF Post!Spec

\* Every variable keeps its type, the counts of notices their bounds (Relay's TypeOK).
THEOREM RelayTypes == Post!RelayAssumption => (Post!Spec => []Post!TypeOK)
<1> SUFFICES ASSUME Post!RelayAssumption PROVE Post!Spec => []Post!TypeOK
  OBVIOUS
<1>1. PostInv /\ PostFiles => Post!TypeOK
  BY PostIsRight
<1>2. Post!Spec => [](PostInv /\ PostFiles)
  BY AllInvariant
<1> QED
  BY <1>1, <1>2, PTL

\* A token on disk, a recipient's or a marker's, is never ahead of the deliveries it
\* stands for, wherever relays die and whichever sends fail (relay.py's deliver_marker).
THEOREM TokensAreEarned == Post!Spec => []Post!SeenIsDelivered
<1>1. PostInv => Post!SeenIsDelivered
  BY DEF PostInv
<1> QED
  BY <1>1, PostInvariant, PTL

\* An RPC worker gets a report's notice once, for any number of scans, failed or
\* unanswered sends and deaths of the relay (the command id of relay.py's RPC notice).
THEOREM RpcOnce == Post!Spec => []Post!RpcNoticedOnce
<1>1. PostInv => Post!RpcNoticedOnce
  BY DEF PostInv
<1> QED
  BY <1>1, PostInvariant, PTL

\* What a tmux worker gets beyond the first notice is paid for, one fault each
\* (the order of typing, entering and marking in relay.py).
THEOREM RepeatsArePaid == Post!Spec => []Post!RepeatsAreFaults
<1>1. ASSUME PostInv PROVE Post!RepeatsAreFaults
  <2> SUFFICES ASSUME NEW n \in Post!Pairs PROVE copies[n] + typed[n] <= 1 + faults
    BY DEF Post!RepeatsAreFaults
  <2>1. copies[n] \in Nat /\ typed[n] \in Nat /\ faults \in Nat
        /\ copies[n] + typed[n] <= faults + Allowed(n)
    BY <1>1 DEF PostInv, Forms, Spent
  <2>2. Allowed(n) \in {0, 1}
    BY DEF Allowed
  <2> QED
    BY <2>1, <2>2
<1>2. PostInv => Post!RepeatsAreFaults
  BY <1>1
<1> QED
  BY <1>2, PostInvariant, PTL

-----------------------------------------------------------------------------
(* The pane: the inductive invariant.                                        *)

Panes == [snapshot : Looks \cup {Pane!None}, last : Pane!Image, summary : Looks \cup {Pane!None},
          turn : 0 .. Turns - 1, unavailable : BOOLEAN]
Lines == {"frame", "update", "unavailable", "torn"}

\* A signal is a resize that is no longer to come.
Counted == signals + left.resizes <= MaxResizes

\* A tick that failed turned the spinner, and no later one will.
Stale(p) == ticker # "on" /\ p.last.look \in Animated /\ p.last.turn # p.turn

\* What the frame on a terminal is: the cached metadata as the spinner stands.
Latest == pane.last # Pane!Nothing =>
  /\ pane.last.look = pane.snapshot
  /\ Stale(pane) \/ pane.last.turn = IF pane.last.look \in Animated THEN pane.turn ELSE 0

OfTerminal ==
  /\ Latest
  /\ pane.last # Pane!Nothing => screen = pane.last \/ (screen.kind = "torn" /\ Stale(pane))
  /\ tried = "ok" /\ ~missed =>
       pane.last # Pane!Nothing /\ screen = pane.last /\ (signals = 0 => pane.last.size = size)

\* The last line is of the summary that the next one is compared with.
OfLines ==
  /\ ticker = "off"
  /\ pane.last # Pane!Nothing =>
       /\ screen.kind \in {"frame", "update"} /\ screen.look = pane.summary
       /\ pane.summary = pane.snapshot
  /\ tried = "ok" /\ ~missed => pane.last # Pane!Nothing

\* PaneFacts a frame there is a notice, or a line that failed.
Apart ==
  /\ pane.last = Pane!Nothing =>
       printed = <<>> \/ printed[Len(printed)] \in {"unavailable", "torn"}
  /\ Pane!FramesAreRare

\* Once a notice is up nothing counts as shown; otherwise what was last read is true.
Fresh ==
  /\ pane.unavailable => pane.last = Pane!Nothing /\ pane.summary = Pane!None
  /\ pane.last = Pane!Nothing => pane.summary = Pane!None
  /\ pane.last # Pane!Nothing => pane.last.kind = "frame"
  /\ (\A h \in Handlers : handler[h] = "rest") /\ ~missed /\ tried = "ok" => pane.snapshot = store

PaneInv == /\ Pane!TypeOK /\ Counted /\ Fresh
           /\ IF Interactive THEN OfTerminal ELSE OfLines /\ Apart

LEMMA PaneInit == Pane!DashboardAssumption /\ Pane!Init => PaneInv
<1> SUFFICES ASSUME Pane!DashboardAssumption, Pane!Init PROVE PaneInv
  OBVIOUS
<1>1. Pane!Nothing \in Pane!Image /\ 0 \in 0 .. Turns - 1
  BY DEF Pane!DashboardAssumption, Pane!Nothing, Pane!Plain, Pane!Image, Pane!Kinds, Pane!Sizes
<1>2. Pane!TypeOK
  BY <1>1 DEF Pane!TypeOK, Pane!Init, Pane!DashboardAssumption, Pane!Sizes
<1>3. Counted /\ Fresh
  BY DEF Counted, Fresh, Pane!Init, Pane!DashboardAssumption
<1>4. Interactive => OfTerminal
  BY DEF OfTerminal, Latest, Pane!Init
<1>5. ~Interactive => OfLines /\ Apart
  BY DEF OfLines, Apart, Pane!Init, Pane!FramesAreRare
<1> QED
  BY <1>2, <1>3, <1>4, <1>5 DEF PaneInv

-----------------------------------------------------------------------------
(* What a refresh makes of the members.                                      *)

LEMMA LaidType ==
  ASSUME Pane!DashboardAssumption, Pane!TypeOK, NEW look \in Looks, NEW turn \in 0 .. Turns - 1
  PROVE  /\ Pane!Laid(look, turn) \in Pane!Image /\ Pane!Laid(look, turn) # Pane!Nothing
         /\ Pane!Laid(look, turn).kind = "frame" /\ Pane!Laid(look, turn).look = look
         /\ Pane!Laid(look, turn).size = size
         /\ Pane!Laid(look, turn).turn = IF look \in Animated THEN turn ELSE 0
<1> DEFINE spin == IF look \in Animated THEN turn ELSE 0
<1>a. size \in Pane!Sizes
  BY DEF Pane!TypeOK
<1>b. 0 \in 0 .. Turns - 1
  BY DEF Pane!DashboardAssumption
<1>0. size \in Pane!Sizes /\ 0 \in 0 .. Turns - 1
  BY <1>a, <1>b
<1>1. spin \in 0 .. Turns - 1
  BY <1>0
<1>2. Pane!Laid(look, turn) = [kind |-> "frame", look |-> look, size |-> size, turn |-> spin]
  BY DEF Pane!Laid
<1> HIDE DEF spin
<1>3. Pane!Laid(look, turn) \in Pane!Image
  BY <1>0, <1>1, <1>2 DEF Pane!Image, Pane!Kinds
<1> QED
  BY <1>2, <1>3 DEF Pane!Nothing, Pane!Plain, spin

\* On a terminal what is written is the new frame, unless it is the last one.
LEMMA PaintedIs ==
  ASSUME Interactive, NEW p \in Panes, NEW look
  PROVE  /\ Pane!Refreshed(p, look).pane =
              [p EXCEPT !.unavailable = FALSE, !.snapshot = look, !.last = Pane!Laid(look, p.turn)]
         /\ Pane!Refreshed(p, look).out =
              IF Pane!Laid(look, p.turn) = p.last THEN Pane!Nothing ELSE Pane!Laid(look, p.turn)
<1>1. CASE Pane!Laid(look, p.turn) = p.last
  BY <1>1 DEF Pane!Refreshed, Pane!Painted, Panes
<1>2. CASE Pane!Laid(look, p.turn) # p.last
  BY <1>2 DEF Pane!Refreshed, Pane!Painted, Panes
<1> QED
  BY <1>1, <1>2

\* Elsewhere it is the first frame, or a line if the summary changed.
LEMMA SummarizedIs ==
  ASSUME ~Interactive, NEW p \in Panes, NEW look
  PROVE  /\ Pane!Refreshed(p, look).pane =
              [p EXCEPT !.unavailable = FALSE, !.snapshot = look,
                        !.last = Pane!Laid(look, p.turn), !.summary = look]
         /\ Pane!Refreshed(p, look).out =
              IF p.last = Pane!Nothing THEN Pane!Laid(look, p.turn)
              ELSE IF p.summary # look THEN Pane!Plain("update", look) ELSE Pane!Nothing
  BY DEF Pane!Refreshed, Pane!Summarized

\* The members and the image keep their types.
Typed == pane \in Panes /\ screen \in Pane!Image /\ printed \in Seq(Lines)

LEMMA ImagesOf ==
  ASSUME Pane!DashboardAssumption
  PROVE  /\ Pane!Nothing \in Pane!Image /\ Pane!Unavailable \in Pane!Image /\ Pane!Plain("torn", Pane!None) \in Pane!Image
         /\ \A look \in Looks : Pane!Plain("update", look) \in Pane!Image /\ Pane!Plain("update", look) # Pane!Nothing
         /\ Pane!Unavailable # Pane!Nothing /\ Pane!Nothing.kind = "nothing"
         /\ Pane!Unavailable.kind = "unavailable" /\ Pane!Plain("torn", Pane!None).kind = "torn"
         /\ \A look : Pane!Plain("update", look).kind = "update" /\ Pane!Plain("update", look).look = look
  BY DEF Pane!DashboardAssumption, Pane!Nothing, Pane!Unavailable, Pane!Plain, Pane!Image, Pane!Kinds, Pane!Sizes

LEMMA RefreshedType ==
  ASSUME Pane!DashboardAssumption, Pane!TypeOK, NEW p \in Panes, NEW look \in Looks
  PROVE  /\ Pane!Refreshed(p, look).pane \in Panes /\ Pane!Refreshed(p, look).out \in Pane!Image
         /\ Pane!Refreshed(p, look).out # Pane!Nothing => Pane!Refreshed(p, look).out.kind \in {"frame", "update"}
<1>1. /\ Pane!Laid(look, p.turn) \in Pane!Image /\ Pane!Laid(look, p.turn).kind = "frame" /\ p.turn \in 0 .. Turns - 1
  BY LaidType DEF Panes
<1> DEFINE r == Pane!Refreshed(p, look)
<1>2. CASE Interactive
  <2>1. /\ r.pane = [p EXCEPT !.unavailable = FALSE, !.snapshot = look, !.last = Pane!Laid(look, p.turn)]
        /\ r.out = IF Pane!Laid(look, p.turn) = p.last THEN Pane!Nothing ELSE Pane!Laid(look, p.turn)
    BY <1>2, PaintedIs
  <2> HIDE DEF r
  <2>2. r.pane \in Panes
    BY <1>1, <2>1 DEF Panes
  <2>3. r.out \in Pane!Image /\ (r.out # Pane!Nothing => r.out.kind \in {"frame", "update"})
    BY <1>1, <2>1, ImagesOf
  <2> QED
    BY <2>2, <2>3 DEF r
<1>3. CASE ~Interactive
  <2>1. /\ r.pane = [p EXCEPT !.unavailable = FALSE, !.snapshot = look,
                               !.last = Pane!Laid(look, p.turn), !.summary = look]
        /\ r.out = IF p.last = Pane!Nothing THEN Pane!Laid(look, p.turn)
                    ELSE IF p.summary # look THEN Pane!Plain("update", look) ELSE Pane!Nothing
    BY <1>3, SummarizedIs
  <2> HIDE DEF r
  <2>2. r.pane \in Panes
    BY <1>1, <2>1 DEF Panes
  <2>3. r.out \in Pane!Image /\ (r.out # Pane!Nothing => r.out.kind \in {"frame", "update"})
    BY <1>1, <2>1, ImagesOf
  <2> QED
    BY <2>2, <2>3 DEF r
<1> QED
  BY <1>2, <1>3

LEMMA ShowType ==
  ASSUME Pane!TypeOK, NEW out \in Pane!Image, out # Pane!Nothing => out.kind \in Lines, Pane!Show(out)
  PROVE  screen' \in Pane!Image /\ printed' \in Seq(Lines)
<1>1. screen \in Pane!Image /\ printed \in Seq(Lines)
  BY DEF Pane!TypeOK, Lines
<1>2. CASE out = Pane!Nothing
  BY <1>1, <1>2 DEF Pane!Show
<1>3. CASE out # Pane!Nothing
  <2>1. screen' = out /\ printed' = IF Interactive THEN printed ELSE Append(printed, out.kind)
    BY <1>3 DEF Pane!Show
  <2> QED
    BY <1>1, <1>3, <2>1
<1> QED
  BY <1>2, <1>3

LEMMA TearType ==
  ASSUME Pane!DashboardAssumption, Pane!TypeOK, Pane!Tear
  PROVE  screen' \in Pane!Image /\ printed' \in Seq(Lines)
<1>1. printed \in Seq(Lines) /\ "torn" \in Lines
  BY DEF Pane!TypeOK, Lines
<1>2. printed' = IF Interactive THEN printed ELSE Append(printed, "torn")
  BY DEF Pane!Tear
<1>3. screen' \in Pane!Image
  BY ImagesOf DEF Pane!Tear
<1> QED
  BY <1>1, <1>2, <1>3

-----------------------------------------------------------------------------
(* A refresh gets through, or it leaves a notice.                            *)

Lefts == [writes : 0 .. MaxWrites, faults : 0 .. PaneFaults, resizes : 0 .. MaxResizes]

GetsThrough ==
  /\ tried' = "ok" /\ UNCHANGED left
  /\ pane' = Pane!Refreshed(pane, store).pane /\ Pane!Show(Pane!Refreshed(pane, store).out)

LeavesNotice ==
  /\ tried' \in {"not read", "not written"}
  /\ \/ pane.unavailable /\ UNCHANGED <<pane, screen, printed>>
     \/ /\ pane'.last = Pane!Nothing /\ pane'.summary = Pane!None
        /\ Pane!Show(Pane!Unavailable) \/ Pane!Tear

LEMMA RefreshIs ==
  ASSUME Pane!DashboardAssumption, Pane!TypeOK, Pane!Refresh, broker \in {"up", "stopping"}
  PROVE  /\ missed' = FALSE
         /\ GetsThrough \/ LeavesNotice
         /\ pane' \in Panes /\ left' \in Lefts /\ left'.resizes = left.resizes
<1>1. pane \in Panes /\ store \in Looks /\ left \in Lefts
  BY DEF Pane!TypeOK, Panes, Lefts
<1>2. Pane!Refreshed(pane, store).pane \in Panes
  BY <1>1, RefreshedType
<1>3. Pane!Unwritten(pane, store) \in Panes /\ Pane!Unwritten(pane, store).unavailable = FALSE
  <2>1. Pane!Laid(store, pane.turn) \in Pane!Image
    BY <1>1, LaidType DEF Panes
  <2> QED
    BY <1>1, <2>1 DEF Pane!Unwritten, Panes
<1>4. ASSUME NEW p \in Panes, Pane!ShowNotice(p), left.faults > 0
      PROVE  /\ pane' \in Panes /\ left' \in Lefts /\ left'.resizes = left.resizes
             /\ \/ p.unavailable /\ pane' = p /\ UNCHANGED <<screen, printed>>
                \/ /\ pane'.last = Pane!Nothing /\ pane'.summary = Pane!None
                   /\ Pane!Show(Pane!Unavailable) \/ Pane!Tear
  <2>1. left' \in Lefts /\ left'.resizes = left.resizes
    BY <1>1, <1>4 DEF Pane!ShowNotice, Pane!Spent, Lefts, Pane!DashboardAssumption
  <2>2. CASE p.unavailable
    BY <1>4, <2>1, <2>2 DEF Pane!ShowNotice, Pane!Show
  <2>3. CASE ~p.unavailable
    <3>1. pane' = Pane!Noticed(p) /\ (Pane!Show(Pane!Unavailable) \/ Pane!Tear)
      BY <1>4, <2>3 DEF Pane!ShowNotice
    <3>2. Pane!Noticed(p) \in Panes /\ Pane!Noticed(p).last = Pane!Nothing /\ Pane!Noticed(p).summary = Pane!None
      BY ImagesOf DEF Pane!Noticed, Panes
    <3> QED
      BY <2>1, <3>1, <3>2
  <2> QED
    BY <2>2, <2>3
<1>5. missed' = FALSE
  BY DEF Pane!Refresh
<1>6. CASE /\ pane' = Pane!Refreshed(pane, store).pane /\ Pane!Show(Pane!Refreshed(pane, store).out)
           /\ tried' = "ok" /\ UNCHANGED left
  BY <1>1, <1>2, <1>5, <1>6 DEF GetsThrough
<1>7. CASE left.faults > 0 /\ tried' = "not read" /\ Pane!ShowNotice(pane)
  BY <1>1, <1>4, <1>5, <1>7 DEF LeavesNotice
<1>8. CASE left.faults > 0 /\ tried' = "not written" /\ Pane!ShowNotice(Pane!Unwritten(pane, store))
  BY <1>3, <1>4, <1>5, <1>8 DEF LeavesNotice
<1> QED
  BY <1>6, <1>7, <1>8 DEF Pane!Refresh

\* The members' part of the invariant.
Shown == Fresh /\ IF Interactive THEN OfTerminal ELSE OfLines /\ Apart

LEMMA NoticeKeeps ==
  ASSUME Pane!DashboardAssumption, PaneInv, LeavesNotice, pane' \in Panes, missed' = FALSE,
         ticker' = ticker
  PROVE  Shown' /\ screen' \in Pane!Image /\ printed' \in Seq(Lines)
<1>1. screen' \in Pane!Image /\ printed' \in Seq(Lines)
  <2>1. Pane!TypeOK
    BY DEF PaneInv
  <2>2. Pane!Unavailable \in Pane!Image /\ Pane!Unavailable.kind \in Lines
    BY ImagesOf DEF Lines
  <2> QED
    BY <2>1, <2>2, ShowType, TearType DEF LeavesNotice, Pane!TypeOK, Lines
<1>2. pane'.last = Pane!Nothing /\ pane'.summary = Pane!None /\ tried' # "ok"
  BY DEF LeavesNotice, PaneInv, Fresh
<1>3. Fresh'
  BY <1>2 DEF Fresh
<1>4. CASE Interactive
  BY <1>1, <1>2, <1>3, <1>4 DEF OfTerminal, Latest, Shown
<1>5. CASE ~Interactive
  <2>1. OfLines'
    BY <1>2, <1>5 DEF OfLines, PaneInv
  <2>2. ASSUME UNCHANGED printed /\ pane.last = Pane!Nothing PROVE Apart'
    <3>1. Apart
      BY <1>5 DEF PaneInv
    <3>2. Pane!FramesAreRare'
      BY <2>2, <3>1 DEF Apart, Pane!FramesAreRare
    <3> QED
      BY <1>2, <2>2, <3>1, <3>2 DEF Apart
  <2>3. ASSUME \E k \in {"unavailable", "torn"} : printed' = Append(printed, k) PROVE Apart'
    <3>1. PICK k \in {"unavailable", "torn"} : printed' = Append(printed, k)
      BY <2>3
    <3>2. printed \in Seq(Lines) /\ Pane!FramesAreRare
      BY <1>5 DEF PaneInv, Pane!TypeOK, Lines, Apart
    <3>3. Pane!FramesAreRare'
      <4> SUFFICES ASSUME NEW i \in 1 .. Len(printed'), printed'[i] = "frame", i > 1
                   PROVE  printed'[i - 1] # "frame" /\ printed'[i - 1] # "update"
        BY DEF Pane!FramesAreRare
      <4>1. i \in 1 .. Len(printed) /\ i - 1 \in 1 .. Len(printed)
        BY <3>1, <3>2
      <4>2. printed'[i] = printed[i] /\ printed'[i - 1] = printed[i - 1]
        BY <3>1, <3>2, <4>1
      <4> QED
        BY <3>2, <4>1, <4>2 DEF Pane!FramesAreRare
    <3>4. printed'[Len(printed')] = k
      BY <3>1, <3>2
    <3>5. printed'[Len(printed')] \in {"unavailable", "torn"}
      BY <3>4
    <3> QED
      BY <3>3, <3>5 DEF Apart
  <2>4. \/ UNCHANGED printed /\ pane.last = Pane!Nothing
        \/ \E k \in {"unavailable", "torn"} : printed' = Append(printed, k)
    BY <1>5, ImagesOf DEF LeavesNotice, Pane!Show, Pane!Tear, PaneInv, Fresh
  <2> QED
    BY <1>1, <1>3, <1>5, <2>1, <2>2, <2>3, <2>4 DEF Shown
<1> QED
  BY <1>1, <1>4, <1>5

LEMMA ThroughKeeps ==
  ASSUME Pane!DashboardAssumption, PaneInv, GetsThrough, missed' = FALSE,
         UNCHANGED <<store, size, ticker>>
  PROVE  Shown' /\ screen' \in Pane!Image /\ printed' \in Seq(Lines)
<1> DEFINE f == Pane!Laid(store, pane.turn)
           out == Pane!Refreshed(pane, store).out
<1>1. pane \in Panes /\ store \in Looks /\ Pane!TypeOK /\ tried' = "ok"
  BY DEF PaneInv, Pane!TypeOK, Panes, GetsThrough
<1>2. /\ f \in Pane!Image /\ f # Pane!Nothing /\ f.kind = "frame" /\ f.look = store /\ f.size = size
      /\ f.turn = IF store \in Animated THEN pane.turn ELSE 0
  BY <1>1, LaidType DEF Panes
<1>3. /\ pane'.last = f /\ pane'.snapshot = store /\ pane'.turn = pane.turn
      /\ pane'.unavailable = FALSE
  <2>1. CASE Interactive
    <3>1. pane' = [pane EXCEPT !.unavailable = FALSE, !.snapshot = store, !.last = f]
      BY <1>1, <2>1, PaintedIs DEF GetsThrough
    <3> HIDE DEF f
    <3> QED
      BY <1>1, <3>1 DEF Panes
  <2>2. CASE ~Interactive
    <3>1. pane' = [pane EXCEPT !.unavailable = FALSE, !.snapshot = store, !.last = f, !.summary = store]
      BY <1>1, <2>2, SummarizedIs DEF GetsThrough
    <3> HIDE DEF f
    <3> QED
      BY <1>1, <3>1 DEF Panes
  <2> QED
    BY <2>1, <2>2
<1>4. screen' \in Pane!Image /\ printed' \in Seq(Lines)
  <2>1. out \in Pane!Image /\ (out # Pane!Nothing => out.kind \in Lines)
    BY <1>1, RefreshedType DEF Lines
  <2> QED
    BY <1>1, <2>1, ShowType DEF GetsThrough
<1> HIDE DEF f, out
<1>5. Fresh'
  BY <1>2, <1>3 DEF Fresh
<1>6. CASE Interactive
  <2>1. Latest'
    BY <1>2, <1>3 DEF Latest, Stale
  <2>2. screen' = f
    <3>1. CASE f = pane.last
      <4>1. screen' = screen
        BY <1>1, <1>6, <3>1, PaintedIs DEF GetsThrough, Pane!Show, f
      <4>2. ~Stale(pane)
        BY <1>2, <3>1 DEF Stale, Pane!DashboardAssumption
      <4> QED
        BY <1>2, <1>6, <3>1, <4>1, <4>2 DEF PaneInv, OfTerminal
    <3>2. CASE f # pane.last
      BY <1>1, <1>2, <1>6, <3>2, PaintedIs DEF GetsThrough, Pane!Show, f
    <3> QED
      BY <3>1, <3>2
  <2> QED
    BY <1>2, <1>3, <1>4, <1>5, <1>6, <2>1, <2>2 DEF OfTerminal, Shown
<1>7. CASE ~Interactive
  <2>1. pane'.summary = store /\ ticker = "off"
    <3>1. pane' = [pane EXCEPT !.unavailable = FALSE, !.snapshot = store, !.last = f, !.summary = store]
      BY <1>1, <1>7, SummarizedIs DEF GetsThrough, f
    <3> QED
      BY <1>1, <1>7, <3>1 DEF Panes, PaneInv, OfLines
  <2>2. out = IF pane.last = Pane!Nothing THEN f
              ELSE IF pane.summary # store THEN Pane!Plain("update", store) ELSE Pane!Nothing
    BY <1>1, <1>7, SummarizedIs DEF f, out
  <2>3. OfLines /\ Apart /\ Pane!Show(out) /\ printed \in Seq(Lines)
    BY <1>1, <1>7 DEF PaneInv, GetsThrough, Pane!TypeOK, Lines, out
  <2>4. screen'.kind \in {"frame", "update"} /\ screen'.look = store
    BY <1>1, <1>2, <2>2, <2>3, ImagesOf DEF OfLines, Pane!Show
  <2>5. OfLines'
    BY <1>2, <1>3, <2>1, <2>4 DEF OfLines
  <2>6. Pane!FramesAreRare'
    <3>1. CASE out = Pane!Nothing
      BY <2>3, <3>1 DEF Pane!Show, Apart, Pane!FramesAreRare
    <3>2. CASE out # Pane!Nothing
      <4>1. printed' = Append(printed, out.kind)
        BY <1>7, <2>3, <3>2 DEF Pane!Show
      <4>2. out.kind = "frame" => pane.last = Pane!Nothing
        BY <1>1, <2>2, <3>2, ImagesOf
      <4> SUFFICES ASSUME NEW i \in 1 .. Len(printed'), printed'[i] = "frame", i > 1
                   PROVE  printed'[i - 1] # "frame" /\ printed'[i - 1] # "update"
        BY DEF Pane!FramesAreRare
      <4>3. CASE i <= Len(printed)
        <5>1. i \in 1 .. Len(printed) /\ i - 1 \in 1 .. Len(printed)
          BY <2>3, <4>3
        <5>2. printed'[i] = printed[i] /\ printed'[i - 1] = printed[i - 1]
          BY <2>3, <4>1, <5>1
        <5> QED
          BY <2>3, <5>1, <5>2 DEF Apart, Pane!FramesAreRare
      <4>4. CASE i > Len(printed)
        <5>1. i = Len(printed) + 1 /\ i - 1 = Len(printed) /\ printed # <<>>
          BY <2>3, <4>1, <4>4
        <5>2. printed'[i] = out.kind
          BY <2>3, <4>1, <5>1
        <5>3. Len(printed) \in Nat /\ Len(printed) > 0
          BY <2>3, <5>1
        <5>4. printed'[i - 1] = printed[Len(printed)]
          <6>1. Len(printed) \in 1 .. Len(printed)
            BY <5>3
          <6>2. printed'[Len(printed)] = printed[Len(printed)]
            BY <2>3, <4>1, <6>1
          <6> QED
            BY <5>1, <6>2
        <5> QED
          BY <2>3, <4>2, <5>1, <5>2, <5>4 DEF Apart
      <4> QED
        BY <2>3, <4>1, <4>3, <4>4
    <3> QED
      BY <3>1, <3>2
  <2>7. Apart'
    BY <1>2, <1>3, <2>6 DEF Apart
  <2> QED
    BY <1>4, <1>5, <1>7, <2>5, <2>7 DEF Shown
<1> QED
  BY <1>4, <1>6, <1>7

LEMMA RefreshKeeps ==
  ASSUME Pane!DashboardAssumption, PaneInv, Pane!Refresh, broker \in {"up", "stopping"},
         UNCHANGED <<store, size, ticker>>
  PROVE  /\ Shown' /\ screen' \in Pane!Image /\ printed' \in Seq(Lines) /\ pane' \in Panes
         /\ left' \in Lefts /\ left'.resizes = left.resizes
         /\ missed' = FALSE /\ tried' \in {"ok", "not read", "not written"}
<1>1. Pane!TypeOK
  BY DEF PaneInv
<1>2. /\ missed' = FALSE
      /\ GetsThrough \/ LeavesNotice
      /\ pane' \in Panes /\ left' \in Lefts /\ left'.resizes = left.resizes
  BY <1>1, RefreshIs
<1>3. CASE GetsThrough
  <2>1. tried' = "ok"
    BY <1>3 DEF GetsThrough
  <2>2. Shown' /\ screen' \in Pane!Image /\ printed' \in Seq(Lines)
    BY <1>2, <1>3, ThroughKeeps
  <2> QED
    BY <1>2, <2>1, <2>2
<1>4. CASE LeavesNotice
  <2>1. tried' \in {"not read", "not written"}
    BY <1>4 DEF LeavesNotice
  <2>2. Shown' /\ screen' \in Pane!Image /\ printed' \in Seq(Lines)
    BY <1>2, <1>4, NoticeKeeps
  <2> QED
    BY <1>2, <2>1, <2>2
<1> QED
  BY <1>2, <1>3, <1>4

-----------------------------------------------------------------------------
(* The steps.                                                                *)

\* The types by name: what a step of several parts has to show.
Rest ==
  /\ store \in Looks
  /\ handler \in [Handlers -> {"rest", "working", "answering"}]
  /\ size \in Pane!Sizes /\ signals \in Nat
  /\ ticker \in {"on", "dead", "off"}
  /\ broker \in {"up", "stopping", "ended", "failed"}
  /\ left \in Lefts /\ missed \in BOOLEAN
  /\ tried \in {"ok", "not read", "not written"}

LEMMA Bounds ==
  ASSUME Pane!DashboardAssumption, Rest
  PROVE  /\ MaxWrites \in Nat /\ PaneFaults \in Nat /\ MaxResizes \in Nat
         /\ left.resizes \in Nat /\ signals \in Nat
         /\ left.writes > 0 => [left EXCEPT !.writes = @ - 1] \in Lefts
         /\ left.faults > 0 => [left EXCEPT !.faults = @ - 1] \in Lefts
         /\ left.resizes > 0 => [left EXCEPT !.resizes = @ - 1] \in Lefts
<1>1. MaxWrites \in Nat /\ PaneFaults \in Nat /\ MaxResizes \in Nat
  BY DEF Pane!DashboardAssumption
<1>2. left \in Lefts /\ signals \in Nat
  BY DEF Rest
<1>3. /\ left.writes \in 0 .. MaxWrites /\ left.faults \in 0 .. PaneFaults
      /\ left.resizes \in 0 .. MaxResizes
  BY <1>2 DEF Lefts
<1>4. left.writes > 0 => left.writes - 1 \in 0 .. MaxWrites
  BY <1>1, <1>3
<1>5. left.faults > 0 => left.faults - 1 \in 0 .. PaneFaults
  BY <1>1, <1>3
<1>6. left.resizes > 0 => left.resizes - 1 \in 0 .. MaxResizes
  BY <1>1, <1>3
<1> QED
  BY <1>1, <1>2, <1>3, <1>4, <1>5, <1>6 DEF Lefts

\* What has to be shown of a step.
LEMMA PaneParts ==
  ASSUME Pane!DashboardAssumption, Rest', Typed', Counted', Shown'
  PROVE  PaneInv'
<1>1. (Pane!TypeOK /\ Counted)'
  <2>1. MaxResizes \in Nat
    BY DEF Pane!DashboardAssumption
  <2>2. signals' \in 0 .. MaxResizes
    <3>1. signals' \in Nat /\ left'.resizes \in 0 .. MaxResizes
      BY DEF Rest, Lefts
    <3> QED
      BY <2>1, <3>1 DEF Counted
  <2> QED
    BY <2>2 DEF Pane!TypeOK, Rest, Typed, Panes, Lines, Lefts
<1> QED
  BY <1>1 DEF PaneInv, Shown

LEMMA PaneFacts ==
  ASSUME Pane!DashboardAssumption, PaneInv
  PROVE  Rest /\ Typed /\ Counted /\ Shown
<1>1. Pane!TypeOK /\ Counted /\ Shown
  BY DEF PaneInv, Shown
<1>2. MaxResizes \in Nat
  BY DEF Pane!DashboardAssumption
<1>3. signals \in Nat
  <2>1. signals \in 0 .. MaxResizes
    BY <1>1, Zenon DEF Pane!TypeOK
  <2> QED
    BY <1>2, <2>1
<1> QED
  BY <1>1, <1>3 DEF Pane!TypeOK, Rest, Typed, Panes, Lines, Lefts

\* The refreshes.
LEMMA RefreshSteps ==
  ASSUME Pane!DashboardAssumption, PaneInv,
         Pane!First \/ Pane!Resized \/ \E h \in Handlers : Pane!Finish(h) \/ Pane!Answered(h)
  PROVE  PaneInv'
<1>1. Rest /\ Typed /\ Counted /\ Shown
  BY PaneFacts
<1>2. /\ Pane!Refresh /\ broker \in {"up", "stopping"} /\ UNCHANGED <<store, size, ticker, broker>>
      /\ signals' = signals \/ signals' = 0
      /\ handler' = handler \/ \E h \in Handlers : handler' = [handler EXCEPT ![h] = "rest"]
  BY DEF Pane!First, Pane!Resized, Pane!Finish, Pane!Answered
<1>3. /\ Shown' /\ screen' \in Pane!Image /\ printed' \in Seq(Lines) /\ pane' \in Panes
      /\ left' \in Lefts /\ left'.resizes = left.resizes
      /\ missed' = FALSE /\ tried' \in {"ok", "not read", "not written"}
  BY <1>2, RefreshKeeps
<1>4. handler' \in [Handlers -> {"rest", "working", "answering"}]
  BY <1>1, <1>2 DEF Rest
<1>5. Rest' /\ Typed'
  <2>1. signals' \in Nat
    <3>1. signals \in Nat
      BY <1>1, Bounds
    <3> QED
      BY <1>2, <3>1
  <2>2. store' \in Looks /\ size' \in Pane!Sizes /\ ticker' = ticker /\ broker' = broker
    BY <1>1, <1>2 DEF Rest
  <2> QED
    BY <1>1, <1>3, <1>4, <2>1, <2>2 DEF Rest, Typed
<1>6. Counted'
  <2>1. left.resizes \in Nat /\ signals \in Nat /\ MaxResizes \in Nat
    BY <1>1, Bounds
  <2>2. signals + left.resizes <= MaxResizes /\ left'.resizes = left.resizes
    BY <1>1, <1>3 DEF Counted
  <2>3. signals' + left'.resizes <= MaxResizes
    BY <1>2, <2>1, <2>2
  <2> QED
    BY <2>3 DEF Counted
<1> QED
  BY <1>3, <1>5, <1>6, PaneParts

\* What a handler wrote is not shown before it refreshes.
LEMMA CommitStep ==
  ASSUME Pane!DashboardAssumption, PaneInv, NEW h \in Handlers, Pane!Commit(h)
  PROVE  PaneInv'
<1>1. Rest /\ Typed /\ Counted /\ Shown
  BY PaneFacts
<1>2. /\ store' \in Looks /\ UNCHANGED <<pane, screen, size, signals, ticker, broker, tried, missed, printed>>
      /\ left' = [left EXCEPT !.writes = @ - 1] /\ left.writes > 0
  BY DEF Pane!Commit, Pane!Spent
<1>3. PICK to \in {"working", "answering"} : handler' = [handler EXCEPT ![h] = to]
  BY DEF Pane!Commit
<1>4. left' \in Lefts /\ left'.resizes = left.resizes
  BY <1>1, <1>2, Bounds DEF Rest, Lefts
<1>5. Rest' /\ Typed'
  BY <1>1, <1>2, <1>3, <1>4 DEF Rest, Typed
<1>6. handler'[h] # "rest"
  BY <1>1, <1>3 DEF Rest
<1>7. Fresh'
  BY <1>1, <1>2, <1>6 DEF Shown, Fresh
<1>8. Counted' /\ Shown'
  BY <1>1, <1>2, <1>4, <1>7
  DEF Counted, Shown, OfTerminal, Latest, Stale, OfLines, Apart, Pane!FramesAreRare
<1> QED
  BY <1>5, <1>8, PaneParts

LEMMA OperatorGoneStep ==
  ASSUME Pane!DashboardAssumption, PaneInv, NEW h \in Handlers, Pane!OperatorGone(h)
  PROVE  PaneInv'
<1>1. Rest /\ Typed /\ Counted /\ Shown
  BY PaneFacts
<1>2. /\ UNCHANGED <<store, pane, screen, size, signals, ticker, broker, tried, printed>>
      /\ left' = [left EXCEPT !.faults = @ - 1] /\ left.faults > 0
      /\ handler' = [handler EXCEPT ![h] = "rest"] /\ missed' = TRUE
  BY DEF Pane!OperatorGone, Pane!Spent
<1>3. left' \in Lefts /\ left'.resizes = left.resizes
  BY <1>1, <1>2, Bounds DEF Rest, Lefts
<1>4. Rest' /\ Typed'
  BY <1>1, <1>2, <1>3 DEF Rest, Typed
<1>5. Fresh'
  BY <1>1, <1>2 DEF Shown, Fresh
<1>6. Counted' /\ Shown'
  BY <1>1, <1>2, <1>3, <1>5
  DEF Counted, Shown, OfTerminal, Latest, Stale, OfLines, Apart, Pane!FramesAreRare
<1> QED
  BY <1>4, <1>6, PaneParts

LEMMA ResizeStep ==
  ASSUME Pane!DashboardAssumption, PaneInv, Pane!Resize
  PROVE  PaneInv'
<1>1. Rest /\ Typed /\ Counted /\ Shown
  BY PaneFacts
<1>2. /\ UNCHANGED <<store, handler, pane, screen, ticker, broker, tried, missed, printed>>
      /\ left' = [left EXCEPT !.resizes = @ - 1] /\ left.resizes > 0
      /\ size' \in Pane!Sizes /\ signals' = signals + 1
  BY DEF Pane!Resize, Pane!Spent
<1>3. /\ left' \in Lefts /\ left'.resizes = left.resizes - 1 /\ left.resizes \in Nat
      /\ signals \in Nat /\ MaxResizes \in Nat
  BY <1>1, <1>2, Bounds DEF Rest, Lefts
<1>4. Rest' /\ Typed'
  <2>1. signals' \in Nat
    BY <1>2, <1>3
  <2>2. Typed'
    BY <1>1, <1>2 DEF Typed
  <2> QED
    BY <1>1, <1>2, <1>3, <2>1, <2>2 DEF Rest
<1>5. Counted' /\ signals' # 0
  BY <1>1, <1>2, <1>3 DEF Counted
<1>6. Shown'
  BY <1>1, <1>2, <1>5
  DEF Shown, Fresh, OfTerminal, Latest, Stale, OfLines, Apart, Pane!FramesAreRare
<1> QED
  BY <1>4, <1>5, <1>6, PaneParts

LEMMA EndingSteps ==
  ASSUME Pane!DashboardAssumption, PaneInv, Pane!Stop \/ Pane!End
  PROVE  PaneInv'
<1>1. Rest /\ Typed /\ Counted /\ Shown
  BY PaneFacts
<1>2. /\ UNCHANGED <<store, handler, pane, screen, size, signals, tried, missed, printed>>
      /\ broker' \in {"stopping", "ended", "failed"}
      /\ ticker' = ticker \/ ticker' = "off"
      /\ \/ left' = left
         \/ left' = [left EXCEPT !.faults = @ - 1] /\ left.faults > 0
  BY DEF Pane!Stop, Pane!End, Pane!Spent
<1>3. left' \in Lefts /\ left'.resizes = left.resizes
  BY <1>1, <1>2, Bounds DEF Rest, Lefts
<1>4. Rest' /\ Typed'
  <2>1. /\ UNCHANGED <<store, handler, size, signals, tried, missed>>
        /\ ticker' \in {"on", "dead", "off"}
    BY <1>1, <1>2 DEF Rest
  <2>2. Typed'
    BY <1>1, <1>2 DEF Typed
  <2> QED
    BY <1>1, <1>2, <1>3, <2>1, <2>2 DEF Rest
<1>5. Stale(pane) => Stale(pane)'
  BY <1>2 DEF Stale
<1>6. Latest => Latest'
  BY <1>2, <1>5 DEF Latest
<1>7. Counted' /\ Fresh'
  BY <1>1, <1>2, <1>3 DEF Counted, Fresh, Shown
<1>8. CASE Interactive
  <2>1. OfTerminal'
    BY <1>1, <1>2, <1>5, <1>6, <1>8 DEF OfTerminal, Shown
  <2> QED
    BY <1>4, <1>7, <1>8, <2>1, PaneParts DEF Shown
<1>9. CASE ~Interactive
  <2>1. OfLines' /\ Apart'
    BY <1>1, <1>2, <1>9 DEF OfLines, Apart, Pane!FramesAreRare, Shown
  <2> QED
    BY <1>4, <1>7, <1>9, <2>1, PaneParts DEF Shown
<1> QED
  BY <1>8, <1>9

-----------------------------------------------------------------------------
(* The presentation ticker.                                                  *)

LEMMA NextTurn ==
  ASSUME Pane!DashboardAssumption, NEW turn \in 0 .. Turns - 1
  PROVE  (turn + 1) % Turns \in 0 .. Turns - 1 /\ (turn + 1) % Turns # turn
<1>1. Turns \in Nat /\ Turns > 1
  BY DEF Pane!DashboardAssumption
<1>2. CASE turn + 1 < Turns
  <2>1. (turn + 1) % Turns = turn + 1
    BY <1>1, <1>2
  <2> QED
    BY <1>1, <1>2, <2>1
<1>3. CASE turn + 1 = Turns
  <2>1. (turn + 1) % Turns = 0
    BY <1>1, <1>3
  <2> QED
    BY <1>1, <1>3, <2>1
<1> QED
  BY <1>1, <1>2, <1>3

LEMMA TickStep ==
  ASSUME Pane!DashboardAssumption, PaneInv, Pane!Tick
  PROVE  PaneInv'
<1> DEFINE turn == (pane.turn + 1) % Turns
           p == [pane EXCEPT !.turn = (@ + 1) % Turns]
           f == Pane!Laid(pane.snapshot, turn)
<1>1. Rest /\ Typed /\ Counted /\ Shown /\ Pane!TypeOK
  BY PaneFacts DEF PaneInv
<1>2. /\ ticker = "on" /\ pane.snapshot \in Animated /\ pane.snapshot \in Looks
      /\ UNCHANGED <<store, handler, size, signals, broker, missed>>
  BY DEF Pane!Tick, Pane!DashboardAssumption
<1>3. Interactive
  BY <1>1, <1>2 DEF Shown, OfLines
<1>4. turn \in 0 .. Turns - 1 /\ turn # pane.turn
  BY <1>1, NextTurn DEF Typed, Panes
<1>5. /\ p \in Panes /\ p = [pane EXCEPT !.turn = turn] /\ p.snapshot = pane.snapshot
      /\ p.turn = turn /\ p.last = pane.last /\ p.summary = pane.summary
  BY <1>1, <1>4 DEF Typed, Panes
<1>6. /\ f \in Pane!Image /\ f # Pane!Nothing /\ f.kind = "frame" /\ f.look = pane.snapshot
      /\ f.size = size /\ f.turn = turn
  BY <1>1, <1>2, <1>4, LaidType
<1>7. \/ /\ pane' = Pane!Refreshed(p, p.snapshot).pane /\ Pane!Show(Pane!Refreshed(p, p.snapshot).out)
         /\ UNCHANGED <<ticker, left, tried>>
      \/ /\ left.faults > 0 /\ pane' = Pane!Unwritten(p, p.snapshot) /\ Pane!Tear
         /\ ticker' = "dead" /\ left' = [left EXCEPT !.faults = @ - 1] /\ tried' = "not written"
  BY DEF Pane!Tick, Pane!Spent
<1>8. /\ Pane!Refreshed(p, p.snapshot).pane =
           [p EXCEPT !.unavailable = FALSE, !.snapshot = pane.snapshot, !.last = f]
      /\ Pane!Refreshed(p, p.snapshot).out = IF f = pane.last THEN Pane!Nothing ELSE f
  <2>1. Pane!Laid(p.snapshot, p.turn) = f
    BY <1>5
  <2>2. /\ Pane!Refreshed(p, p.snapshot).pane =
             [p EXCEPT !.unavailable = FALSE, !.snapshot = p.snapshot, !.last = Pane!Laid(p.snapshot, p.turn)]
        /\ Pane!Refreshed(p, p.snapshot).out =
             IF Pane!Laid(p.snapshot, p.turn) = p.last THEN Pane!Nothing ELSE Pane!Laid(p.snapshot, p.turn)
    <3> HIDE DEF p
    <3> QED
      BY <1>3, <1>5, PaintedIs
  <2>3. p.snapshot = pane.snapshot /\ p.last = pane.last
    BY <1>5
  <2> HIDE DEF p, f, turn
  <2> QED
    BY <2>1, <2>2, <2>3
<1>9. Pane!Unwritten(p, p.snapshot) = [p EXCEPT !.unavailable = FALSE, !.snapshot = pane.snapshot]
  BY <1>3, <1>5 DEF Pane!Unwritten, Panes
<1> HIDE DEF turn, p, f
<1>10. CASE /\ pane' = Pane!Refreshed(p, p.snapshot).pane /\ Pane!Show(Pane!Refreshed(p, p.snapshot).out)
            /\ UNCHANGED <<ticker, left, tried>>
  <2>1. /\ pane' \in Panes /\ pane'.last = f /\ pane'.snapshot = pane.snapshot
        /\ pane'.turn = turn /\ pane'.unavailable = FALSE
    <3>1. pane' = [p EXCEPT !.unavailable = FALSE, !.snapshot = pane.snapshot, !.last = f]
      BY <1>8, <1>10
    <3> QED
      BY <1>2, <1>5, <1>6, <3>1 DEF Panes
  <2>2. screen' = f /\ printed' = printed
    <3>1. CASE f = pane.last
      <4>1. UNCHANGED <<screen, printed>>
        BY <1>8, <1>10, <3>1 DEF Pane!Show
      <4> QED
        BY <1>1, <1>2, <1>3, <1>6, <3>1, <4>1 DEF Shown, OfTerminal, Stale
    <3>2. CASE f # pane.last
      BY <1>3, <1>6, <1>8, <1>10, <3>2 DEF Pane!Show
    <3> QED
      BY <3>1, <3>2
  <2>3. Rest'
    BY <1>1, <1>2, <1>10 DEF Rest
  <2>4. Typed'
    BY <1>1, <1>6, <2>1, <2>2 DEF Typed
  <2>5. Counted'
    BY <1>1, <1>2, <1>10 DEF Counted
  <2>6. Fresh'
    BY <1>1, <1>2, <1>6, <1>10, <2>1 DEF Shown, Fresh
  <2>7. OfTerminal'
    BY <1>2, <1>6, <2>1, <2>2 DEF OfTerminal, Latest, Stale
  <2> QED
    BY <1>3, <2>3, <2>4, <2>5, <2>6, <2>7, PaneParts DEF Shown
<1>11. CASE /\ left.faults > 0 /\ pane' = Pane!Unwritten(p, p.snapshot) /\ Pane!Tear
            /\ ticker' = "dead" /\ left' = [left EXCEPT !.faults = @ - 1] /\ tried' = "not written"
  <2>1. /\ pane' \in Panes /\ pane'.last = pane.last /\ pane'.snapshot = pane.snapshot
        /\ pane'.turn = turn /\ pane'.unavailable = FALSE /\ pane'.summary = pane.summary
    <3>1. pane' = [p EXCEPT !.unavailable = FALSE, !.snapshot = pane.snapshot]
      BY <1>9, <1>11
    <3> QED
      BY <1>2, <1>5, <3>1 DEF Panes
  <2>2. screen'.kind = "torn" /\ screen' \in Pane!Image /\ printed' \in Seq(Lines)
    BY <1>1, <1>11, TearType, ImagesOf DEF Pane!Tear
  <2>3. left' \in Lefts /\ left'.resizes = left.resizes
    BY <1>1, <1>11, Bounds DEF Rest, Lefts
  <2>4. Rest'
    BY <1>1, <1>2, <1>11, <2>3 DEF Rest
  <2>5. Typed'
    BY <2>1, <2>2 DEF Typed
  <2>6. Counted'
    BY <1>1, <1>2, <2>3 DEF Counted
  <2>7. Fresh'
    BY <1>1, <1>11, <2>1 DEF Shown, Fresh
  <2>8. pane.last # Pane!Nothing => pane.last.look = pane.snapshot /\ pane.last.turn = pane.turn
    BY <1>1, <1>2, <1>3 DEF Shown, OfTerminal, Latest, Stale
  <2>9. pane.last # Pane!Nothing => Stale(pane)'
    BY <1>2, <1>4, <1>11, <2>1, <2>8 DEF Stale
  <2>10. OfTerminal'
    BY <1>11, <2>1, <2>2, <2>8, <2>9 DEF OfTerminal, Latest
  <2> QED
    BY <1>3, <2>4, <2>5, <2>6, <2>7, <2>10, PaneParts DEF Shown
<1> QED
  BY <1>7, <1>10, <1>11

LEMMA PaneNext == ASSUME Pane!DashboardAssumption, PaneInv, [Pane!Next]_(Pane!vars) PROVE PaneInv'
<1>1. CASE Pane!First \/ Pane!Resized \/ \E h \in Handlers : Pane!Finish(h) \/ Pane!Answered(h)
  BY <1>1, RefreshSteps
<1>2. CASE \E h \in Handlers : Pane!Commit(h)
  BY <1>2, CommitStep
<1>3. CASE \E h \in Handlers : Pane!OperatorGone(h)
  BY <1>3, OperatorGoneStep
<1>4. CASE Pane!Resize
  BY <1>4, ResizeStep
<1>5. CASE Pane!Tick
  BY <1>5, TickStep
<1>6. CASE Pane!Stop \/ Pane!End
  BY <1>6, EndingSteps
<1>7. CASE UNCHANGED Pane!vars
  BY <1>7 DEF Pane!vars, PaneInv, Pane!TypeOK, Counted, Fresh, OfTerminal, Latest, Stale, OfLines, Apart,
     Pane!FramesAreRare
<1> QED
  BY <1>1, <1>2, <1>3, <1>4, <1>5, <1>6, <1>7 DEF Pane!Next

LEMMA PaneIsRight ==
  ASSUME Pane!DashboardAssumption, PaneInv
  PROVE  Pane!TypeOK /\ Pane!PaneIsCurrent /\ Pane!LastIsShown /\ (~Interactive => Pane!FramesAreRare)
<1>1. Pane!TypeOK
  BY DEF PaneInv
<1>2. Pane!LastIsShown
  BY DEF PaneInv, OfTerminal, Pane!LastIsShown
<1>3. ~Interactive => Pane!FramesAreRare
  BY DEF PaneInv, Apart
<1>4. ASSUME Pane!Quiet, ~missed, tried = "ok" PROVE Pane!Shows(store)
  <2>1. pane.snapshot = store /\ (pane.last # Pane!Nothing => pane.last.kind = "frame")
    BY <1>4 DEF PaneInv, Fresh, Pane!Quiet
  <2>2. CASE Interactive
    BY <1>4, <2>1, <2>2 DEF PaneInv, OfTerminal, Latest, Pane!Quiet, Pane!Shows
  <2>3. CASE ~Interactive
    BY <1>4, <2>1, <2>3 DEF PaneInv, OfLines, Pane!Shows
  <2> QED
    BY <2>2, <2>3
<1> QED
  BY <1>1, <1>2, <1>3, <1>4 DEF Pane!PaneIsCurrent

LEMMA PaneInvariant == Pane!DashboardAssumption => (Pane!Spec => []PaneInv)
<1> SUFFICES ASSUME Pane!DashboardAssumption PROVE Pane!Spec => []PaneInv
  OBVIOUS
<1>1. Pane!Init => PaneInv
  BY PaneInit
<1>2. PaneInv /\ [Pane!Next]_(Pane!vars) => PaneInv'
  BY PaneNext
<1> QED
  BY <1>1, <1>2, PTL DEF Pane!Spec

\* With nothing under way and the last refresh through, the pane shows the
\* database as it is, at the size it has, whatever failed before
\* (dashboard.py's refresh, presentation_tick and render_unavailable).
THEOREM PaneCurrent == Pane!DashboardAssumption => (Pane!Spec => []Pane!PaneIsCurrent)
<1> SUFFICES ASSUME Pane!DashboardAssumption PROVE Pane!Spec => []Pane!PaneIsCurrent
  OBVIOUS
<1>1. PaneInv => Pane!PaneIsCurrent
  BY PaneIsRight
<1> QED
  BY <1>1, PaneInvariant, PTL

\* The frame that the next one is compared with is on the screen, or torn there
\* (dashboard.py's _paint and render_unavailable).
THEOREM PaneLast == Pane!DashboardAssumption => (Pane!Spec => []Pane!LastIsShown)
<1> SUFFICES ASSUME Pane!DashboardAssumption PROVE Pane!Spec => []Pane!LastIsShown
  OBVIOUS
<1>1. PaneInv => Pane!LastIsShown
  BY PaneIsRight
<1> QED
  BY <1>1, PaneInvariant, PTL

\* A pane that is no terminal repeats a whole frame only after a notice or a
\* line that failed (dashboard.py's refresh of a pane without a terminal).
THEOREM FramesRare ==
  Pane!DashboardAssumption => (Pane!Spec => [](~Interactive => Pane!FramesAreRare))
<1> SUFFICES ASSUME Pane!DashboardAssumption
             PROVE  Pane!Spec => [](~Interactive => Pane!FramesAreRare)
  OBVIOUS
<1>1. PaneInv => (~Interactive => Pane!FramesAreRare)
  BY PaneIsRight
<1> QED
  BY <1>1, PaneInvariant, PTL

-----------------------------------------------------------------------------
(* The pages of events: sets of numbers in order.                              *)

Ascending(s) == \A i, j \in DOMAIN s : i < j => s[i] < s[j]

Below(S, n) == {m \in S : m <= n}

LEMMA BelowFinite ==
  ASSUME NEW S \in SUBSET Nat, IsFiniteSet(S), NEW n
  PROVE  /\ IsFiniteSet(Below(S, n)) /\ Cardinality(Below(S, n)) \in Nat
         /\ Cardinality(Below(S, n)) <= Cardinality(S)
         /\ Cardinality(S) \in Nat
<1>1. Below(S, n) \in SUBSET S
  BY DEF Below
<1> QED
  BY <1>1, FS_Subset, FS_CardinalityType

\* A larger number has more below it.
LEMMA RankGrows ==
  ASSUME NEW S \in SUBSET Nat, IsFiniteSet(S), NEW x \in S, NEW y \in S, x < y
  PROVE  Cardinality(Below(S, x)) < Cardinality(Below(S, y))
<1>1. Below(S, x) \in SUBSET Below(S, y)
  <2>1. x \in Nat /\ y \in Nat /\ \A m \in S : m \in Nat
    OBVIOUS
  <2>2. \A m \in S : m <= x => m <= y
    BY <2>1
  <2> QED
    BY <2>2 DEF Below
<1>2. y \in Below(S, y) /\ y \notin Below(S, x)
  <2>1. x \in Nat /\ y \in Nat
    OBVIOUS
  <2>2. y <= y /\ ~(y <= x)
    BY <2>1
  <2> QED
    BY <2>2 DEF Below
<1>3. Below(S, x) # Below(S, y)
  BY <1>2
<1>4. /\ Cardinality(Below(S, x)) <= Cardinality(Below(S, y))
      /\ Cardinality(Below(S, x)) # Cardinality(Below(S, y))
  BY <1>1, <1>3, BelowFinite, FS_Subset
<1> QED
  BY <1>4, BelowFinite

LEMMA RankIsReached ==
  ASSUME NEW S \in SUBSET Nat, IsFiniteSet(S), NEW k \in 1 .. Cardinality(S)
  PROVE  \E n \in S : Cardinality(Below(S, n)) = k
<1> DEFINE rank == [n \in S |-> Cardinality(Below(S, n))]
<1>1. Cardinality(S) \in Nat
  BY FS_CardinalityType
<1>2. ASSUME NEW n \in S PROVE Cardinality(Below(S, n)) \in 1 .. Cardinality(S)
  <2>1. n \in Below(S, n)
    BY DEF Below
  <2>2. Cardinality(Below(S, n)) # 0
    BY <2>1, BelowFinite, FS_EmptySet
  <2> QED
    BY <2>2, BelowFinite, <1>1
<1>3. rank \in [S -> 1 .. Cardinality(S)]
  BY <1>2
<1>4. ASSUME NEW x \in S, NEW y \in S, rank[x] = rank[y] PROVE x = y
  <2>1. /\ x < y => rank[x] < rank[y]
        /\ y < x => rank[y] < rank[x]
    BY RankGrows
  <2>2. x \in Nat /\ y \in Nat /\ rank[x] \in Nat /\ rank[y] \in Nat
    BY <1>3, <1>1
  <2> HIDE DEF rank
  <2> QED
    BY <2>1, <2>2, <1>4
<1>5. rank \in Injection(S, 1 .. Cardinality(S))
  <2> HIDE DEF rank
  <2> QED
    BY <1>3, <1>4 DEF Injection, IsInjective
<1>6. /\ IsFiniteSet(1 .. Cardinality(S))
      /\ Cardinality(1 .. Cardinality(S)) = Cardinality(S)
  <2>1. /\ IsFiniteSet(1 .. Cardinality(S))
        /\ Cardinality(1 .. Cardinality(S)) =
             IF 1 > Cardinality(S) THEN 0 ELSE Cardinality(S) - 1 + 1
    BY <1>1, FS_Interval
  <2> QED
    BY <2>1, <1>1
<1>7. rank \in Surjection(S, 1 .. Cardinality(S))
  <2> HIDE DEF rank
  <2> QED
    BY <1>5, <1>6, FS_Injection
<1>8. \E n \in S : rank[n] = k
  <2> HIDE DEF rank
  <2> QED
    BY <1>7 DEF Surjection
<1> QED
  BY <1>8

\* The sizes of an instance are the sizes.
LEMMA FeedCounts == \A S : Feed!Cardinality(S) = Cardinality(S)
  BY DEF Feed!Cardinality, Cardinality

\* The numbers up to one of them are finitely many.
LEMMA SegmentIsFinite == \A n \in Nat : IsFiniteSet(1 .. n)
  BY FS_Interval

\* Ordered gives the set in ascending order, each of its numbers once.
LEMMA OrderedIs ==
  ASSUME NEW S \in SUBSET Nat, IsFiniteSet(S)
  PROVE  /\ Feed!Ordered(S) \in Seq(S) /\ Len(Feed!Ordered(S)) = Cardinality(S)
         /\ Cardinality(S) \in Nat
         /\ \A k \in 1 .. Cardinality(S) :
              /\ Feed!Ordered(S)[k] \in S /\ Cardinality(Below(S, Feed!Ordered(S)[k])) = k
         /\ Ascending(Feed!Ordered(S))
         /\ \A n \in S : \E k \in 1 .. Cardinality(S) : Feed!Ordered(S)[k] = n
<1>1. Cardinality(S) \in Nat
  BY FS_CardinalityType
<1>2. ASSUME NEW k \in 1 .. Cardinality(S)
      PROVE  Feed!Ordered(S)[k] \in S /\ Cardinality(Below(S, Feed!Ordered(S)[k])) = k
  <2> DEFINE n == Feed!Ordered(S)[k]
  <2>1. n = CHOOSE m \in S : Cardinality(Below(S, m)) = k
    <3>1. n = CHOOSE m \in S : Feed!Cardinality({x \in S : x <= m}) = k
      BY FeedCounts DEF Feed!Ordered
    <3>2. \A m \in S : Feed!Cardinality({x \in S : x <= m}) = Cardinality(Below(S, m))
      BY FeedCounts DEF Below
    <3> HIDE DEF n
    <3> QED
      BY <3>1, <3>2
  <2> HIDE DEF n
  <2>2. n \in S /\ Cardinality(Below(S, n)) = k
    BY <2>1, RankIsReached
  <2> QED
    BY <2>2 DEF n
<1>3. DOMAIN Feed!Ordered(S) = 1 .. Cardinality(S)
  BY FeedCounts DEF Feed!Ordered
<1>4. Feed!Ordered(S) \in [1 .. Cardinality(S) -> S]
  BY <1>2, <1>3 DEF Feed!Ordered
<1>5. Feed!Ordered(S) \in Seq(S) /\ Len(Feed!Ordered(S)) = Cardinality(S)
  BY <1>4, <1>1
<1>6. ASSUME NEW x \in S, NEW y \in S, Cardinality(Below(S, x)) = Cardinality(Below(S, y))
      PROVE  x = y
  <2>1. ~(x < y) /\ ~(y < x)
    BY <1>6, RankGrows, BelowFinite
  <2> QED
    BY <2>1
<1>7. ASSUME NEW i \in 1 .. Cardinality(S), NEW j \in 1 .. Cardinality(S), i < j
      PROVE  Feed!Ordered(S)[i] < Feed!Ordered(S)[j]
  <2> DEFINE x == Feed!Ordered(S)[i]
             y == Feed!Ordered(S)[j]
  <2>1. /\ x \in S /\ y \in S /\ Cardinality(Below(S, x)) = i
        /\ Cardinality(Below(S, y)) = j
    BY <1>2
  <2> HIDE DEF x, y
  <2>2. x # y /\ ~(y < x)
    BY <2>1, <1>1, <1>7, RankGrows
  <2>3. x < y
    BY <2>1, <2>2
  <2> QED
    BY <2>3 DEF x, y
<1>8. ASSUME NEW n \in S PROVE \E k \in 1 .. Cardinality(S) : Feed!Ordered(S)[k] = n
  <2> DEFINE k == Cardinality(Below(S, n))
  <2>1. n \in Below(S, n)
    BY DEF Below
  <2>2. k \in 1 .. Cardinality(S)
    BY <2>1, BelowFinite, FS_EmptySet
  <2> HIDE DEF k
  <2>3. Feed!Ordered(S)[k] \in S /\ Cardinality(Below(S, Feed!Ordered(S)[k])) = k
    BY <2>2, <1>2
  <2>4. Feed!Ordered(S)[k] = n
    BY <2>3, <1>6 DEF k
  <2> QED
    BY <2>2, <2>4
<1> QED
  BY <1>1, <1>2, <1>3, <1>5, <1>7, <1>8 DEF Ascending

\* And nothing else is its set in ascending order.
LEMMA OrderedIsAll ==
  ASSUME NEW n \in Nat, NEW S \in SUBSET Nat, NEW s \in [1 .. n -> S], Ascending(s),
         \A x \in S : \E k \in 1 .. n : s[k] = x
  PROVE  IsFiniteSet(S) /\ Cardinality(S) = n /\ Feed!Ordered(S) = s
<1>1. ASSUME NEW i \in 1 .. n, NEW j \in 1 .. n, s[i] = s[j] PROVE i = j
  <2>1. s[i] \in Nat /\ s[j] \in Nat
    OBVIOUS
  <2>2. ~(i < j) /\ ~(j < i)
    BY <2>1, <1>1 DEF Ascending
  <2> QED
    BY <2>2
<1>2. s \in Bijection(1 .. n, S)
  BY <1>1 DEF Bijection, Injection, Surjection, IsInjective
<1>3. IsFiniteSet(1 .. n) /\ Cardinality(1 .. n) = n
  <2>1. /\ IsFiniteSet(1 .. n)
        /\ Cardinality(1 .. n) = IF 1 > n THEN 0 ELSE n - 1 + 1
    BY FS_Interval
  <2> QED
    BY <2>1
<1>4. IsFiniteSet(S) /\ Cardinality(S) = n
  BY <1>2, <1>3, FS_Bijection DEF ExistsBijection
<1>5. ASSUME NEW k \in 1 .. n PROVE Cardinality(Below(S, s[k])) = k
  <2> DEFINE B == Below(S, s[k])
             t == [i \in 1 .. k |-> s[i]]
  <2>1. ASSUME NEW i \in 1 .. k PROVE s[i] \in B
    <3>1. i \in 1 .. n /\ (i = k \/ i < k)
      BY <1>4
    <3>2. s[i] \in S /\ s[i] <= s[k]
      <4>1. s[i] \in S /\ s[i] \in Nat /\ s[k] \in Nat
        BY <3>1
      <4>2. i < k => s[i] < s[k]
        BY <3>1 DEF Ascending
      <4> QED
        BY <3>1, <4>1, <4>2
    <3> QED
      BY <3>2 DEF Below
  <2>2. t \in [1 .. k -> B]
    BY <2>1
  <2>3. ASSUME NEW x \in B PROVE \E i \in 1 .. k : t[i] = x
    <3>1. PICK i \in 1 .. n : s[i] = x
      BY DEF Below
    <3>2. ~(k < i)
      <4>1. s[i] <= s[k] /\ s[i] \in Nat /\ s[k] \in Nat
        BY <3>1 DEF Below
      <4> QED
        BY <4>1 DEF Ascending
    <3>3. i \in 1 .. k
      BY <3>2
    <3> QED
      BY <3>1, <3>3
  <2>4. ASSUME NEW i \in 1 .. k, NEW j \in 1 .. k, t[i] = t[j] PROVE i = j
    <3>1. i \in 1 .. n /\ j \in 1 .. n /\ s[i] = s[j]
      BY <2>4
    <3> QED
      BY <3>1, <1>1
  <2>5. t \in Bijection(1 .. k, B)
    <3> HIDE DEF t, B
    <3> QED
      BY <2>2, <2>3, <2>4 DEF Bijection, Injection, Surjection, IsInjective
  <2>6. IsFiniteSet(1 .. k) /\ Cardinality(1 .. k) = k
    <3>1. /\ IsFiniteSet(1 .. k)
          /\ Cardinality(1 .. k) = IF 1 > k THEN 0 ELSE k - 1 + 1
      BY FS_Interval
    <3> QED
      BY <3>1
  <2> HIDE DEF t
  <2>7. Cardinality(B) = k
    BY <2>5, <2>6, FS_Bijection DEF ExistsBijection
  <2> QED
    BY <2>7
<1>6. ASSUME NEW k \in 1 .. n PROVE Feed!Ordered(S)[k] = s[k]
  <2> DEFINE x == Feed!Ordered(S)[k]
             y == s[k]
  <2>1. x \in S /\ y \in S /\ Cardinality(Below(S, x)) = Cardinality(Below(S, y))
    BY <1>4, <1>5, OrderedIs
  <2> HIDE DEF x, y
  <2>2. ~(x < y) /\ ~(y < x)
    BY <2>1, <1>4, RankGrows, BelowFinite
  <2>3. x = y
    BY <2>1, <2>2
  <2> QED
    BY <2>3 DEF x, y
<1>7. Feed!Ordered(S) \in [1 .. n -> S]
  BY <1>4, OrderedIs
<1> QED
  BY <1>4, <1>6, <1>7

LEMMA OrderedEmpty == Feed!Ordered({}) = <<>> /\ Cardinality({}) = 0
  BY FeedCounts, FS_EmptySet DEF Feed!Ordered

\* A set below another comes before it.
LEMMA OrderedInParts ==
  ASSUME NEW S \in SUBSET Nat, NEW T \in SUBSET Nat, IsFiniteSet(S), IsFiniteSet(T),
         \A x \in S, y \in T : x < y
  PROVE  Feed!Ordered(S \cup T) = Feed!Ordered(S) \o Feed!Ordered(T)
<1> DEFINE a == Feed!Ordered(S)
           b == Feed!Ordered(T)
           m == Cardinality(S)
           n == Cardinality(T)
           s == a \o b
<1>1. /\ a \in Seq(S) /\ Len(a) = m /\ m \in Nat /\ Ascending(a)
      /\ \A k \in 1 .. m : a[k] \in S
      /\ \A x \in S : \E k \in 1 .. m : a[k] = x
  BY OrderedIs
<1>2. /\ b \in Seq(T) /\ Len(b) = n /\ n \in Nat /\ Ascending(b)
      /\ \A k \in 1 .. n : b[k] \in T
      /\ \A x \in T : \E k \in 1 .. n : b[k] = x
  BY OrderedIs
<1> HIDE DEF a, b, m, n
<1>3. /\ DOMAIN s = 1 .. m + n /\ m + n \in Nat
      /\ \A k \in 1 .. m + n : s[k] = IF k <= m THEN a[k] ELSE b[k - m]
  BY <1>1, <1>2
<1>4. DOMAIN a = 1 .. m /\ DOMAIN b = 1 .. n
  BY <1>1, <1>2
<1> HIDE DEF s
<1>5. ASSUME NEW k \in 1 .. m + n PROVE /\ k <= m => k \in 1 .. m /\ s[k] = a[k] /\ s[k] \in S
                                        /\ ~(k <= m) => /\ k - m \in 1 .. n
                                                        /\ s[k] = b[k - m] /\ s[k] \in T
  <2>1. k <= m => k \in 1 .. m
    BY <1>1, <1>2
  <2>2. ~(k <= m) => k - m \in 1 .. n
    BY <1>1, <1>2
  <2> QED
    BY <2>1, <2>2, <1>1, <1>2, <1>3
<1>6. s \in [1 .. m + n -> S \cup T]
  <2>1. a \in Seq(S \cup T) /\ b \in Seq(S \cup T)
    BY <1>1, <1>2
  <2>2. s \in Seq(S \cup T)
    BY <2>1 DEF s
  <2> QED
    BY <2>2, <1>3
<1>7. ASSUME NEW i \in 1 .. m + n, NEW j \in 1 .. m + n, i < j PROVE s[i] < s[j]
  <2>1. CASE j <= m
    <3>1. i <= m
      BY <2>1, <1>7, <1>1, <1>2
    <3> QED
      BY <3>1, <2>1, <1>5, <1>7, <1>1, <1>4 DEF Ascending
  <2>2. CASE i <= m /\ ~(j <= m)
    BY <2>2, <1>5
  <2>3. CASE ~(i <= m)
    <3>1. ~(j <= m) /\ i - m < j - m
      BY <2>3, <1>7, <1>1, <1>2
    <3> QED
      BY <3>1, <2>3, <1>5, <1>2, <1>4 DEF Ascending
  <2> QED
    BY <2>1, <2>2, <2>3
<1>8. ASSUME NEW x \in S \cup T PROVE \E k \in 1 .. m + n : s[k] = x
  <2>1. CASE x \in S
    <3>1. PICK k \in 1 .. m : a[k] = x
      BY <2>1, <1>1
    <3>2. k \in 1 .. m + n /\ k <= m
      BY <1>1, <1>2
    <3> QED
      BY <3>1, <3>2, <1>3
  <2>2. CASE x \in T
    <3>1. PICK k \in 1 .. n : b[k] = x
      BY <2>2, <1>2
    <3>2. k + m \in 1 .. m + n /\ ~(k + m <= m) /\ (k + m) - m = k
      BY <1>1, <1>2
    <3> QED
      BY <3>1, <3>2, <1>3
  <2> QED
    BY <2>1, <2>2
<1>9. Ascending(s)
  BY <1>3, <1>7 DEF Ascending
<1>10. Feed!Ordered(S \cup T) = s
  BY <1>3, <1>6, <1>8, <1>9, OrderedIsAll
<1> QED
  BY <1>10 DEF s, a, b

-----------------------------------------------------------------------------
(* Pages.                                                                       *)

\* What is first of a set.
IsFirst(P, S) == P \in SUBSET S /\ \A p \in P, q \in S \ P : p < q

\* A page is the ordered first part of what was found, and all of it unless the
\* answer says that it is cut off.
LEMMA PageIsFirst ==
  ASSUME NEW S \in SUBSET Nat, IsFiniteSet(S), Limit \in Nat
  PROVE  \E P \in SUBSET S :
           /\ IsFirst(P, S) /\ IsFiniteSet(P) /\ Feed!FirstPage(S) = Feed!Ordered(P)
           /\ Feed!Truncated(S, Feed!FirstPage(S)) \/ P = S
<1> DEFINE all == Feed!Ordered(S)
           c == Cardinality(S)
<1>1. /\ all \in Seq(S) /\ Len(all) = c /\ c \in Nat /\ Ascending(all)
      /\ \A k \in 1 .. c : all[k] \in S
      /\ \A x \in S : \E k \in 1 .. c : all[k] = x
  BY OrderedIs
<1>2. Feed!FirstPage(S) = IF Len(all) <= Limit THEN all ELSE SubSeq(all, 1, Limit)
  BY DEF Feed!FirstPage
<1> HIDE DEF all, c
<1>3. CASE c <= Limit
  <2>1. Feed!FirstPage(S) = Feed!Ordered(S)
    BY <1>1, <1>2, <1>3 DEF all
  <2>2. S \in SUBSET S /\ IsFirst(S, S)
    BY DEF IsFirst
  <2> QED
    BY <2>1, <2>2
<1>4. CASE ~(c <= Limit)
  <2> DEFINE P == {all[k] : k \in 1 .. Limit}
             s == SubSeq(all, 1, Limit)
  <2>1. Limit < c /\ \A k \in 1 .. Limit : k \in 1 .. c
    BY <1>1, <1>4
  <2>2. P \in SUBSET S /\ P \in SUBSET Nat
    BY <1>1, <2>1
  <2>3. s \in Seq(S) /\ Len(s) = Limit /\ \A k \in 1 .. Limit : s[k] = all[k]
    BY <1>1, <2>1
  <2>4. s \in [1 .. Limit -> P]
    <3>1. \A k \in 1 .. Limit : all[k] \in P
      OBVIOUS
    <3> HIDE DEF P, s
    <3> QED
      BY <2>3, <3>1
  <2>5. ASSUME NEW x \in P PROVE \E k \in 1 .. Limit : s[k] = x
    <3>1. PICK k \in 1 .. Limit : all[k] = x
      OBVIOUS
    <3> HIDE DEF P, s
    <3> QED
      BY <2>3, <3>1
  <2>6. Ascending(s)
    <3>1. DOMAIN s = 1 .. Limit /\ DOMAIN all = 1 .. c
      BY <1>1, <2>3
    <3> QED
      BY <3>1, <1>1, <2>1, <2>3 DEF Ascending
  <2>7. IsFirst(P, S)
    <3> SUFFICES ASSUME NEW p \in P, NEW q \in S \ P PROVE p < q
      BY <2>2 DEF IsFirst
    <3>1. PICK k \in 1 .. Limit : all[k] = p
      OBVIOUS
    <3>2. PICK j \in 1 .. c : all[j] = q
      BY <1>1
    <3>3. j \notin 1 .. Limit
      BY <3>2
    <3>4. k < j /\ k \in 1 .. c
      BY <3>3, <2>1
    <3>5. DOMAIN all = 1 .. c
      BY <1>1
    <3> QED
      BY <3>1, <3>2, <3>4, <3>5, <1>1 DEF Ascending
  <2> HIDE DEF P, s
  <2>8. IsFiniteSet(P) /\ Cardinality(P) = Limit /\ Feed!Ordered(P) = s
    BY <2>2, <2>4, <2>5, <2>6, OrderedIsAll
  <2>9. Feed!FirstPage(S) = s
    BY <1>1, <1>2, <1>4 DEF s
  <2>10. Feed!Truncated(S, Feed!FirstPage(S))
    BY FeedCounts, <2>9, <2>3, <2>1 DEF Feed!Truncated, c
  <2> QED
    BY <2>2, <2>7, <2>8, <2>9, <2>10
<1> QED
  BY <1>3, <1>4

\* The cursor of the answer is the last number of the page.
LEMMA CursorIsLast ==
  ASSUME NEW P \in SUBSET Nat, IsFiniteSet(P), NEW after \in Nat,
         \A p \in P : p > after
  PROVE  LET next == Feed!NextCursor(after, Feed!Ordered(P))
         IN  /\ next \in Nat /\ next >= after /\ (next = after \/ next \in P)
             /\ \A p \in P : p <= next
<1> DEFINE s == Feed!Ordered(P)
           c == Cardinality(P)
           next == Feed!NextCursor(after, s)
<1>1. /\ s \in Seq(P) /\ Len(s) = c /\ c \in Nat /\ Ascending(s)
      /\ \A k \in 1 .. c : s[k] \in P
      /\ \A x \in P : \E k \in 1 .. c : s[k] = x
  BY OrderedIs
<1>2. next = IF s = <<>> THEN after ELSE s[Len(s)]
  BY DEF Feed!NextCursor
<1> HIDE DEF s, c, next
<1>3. CASE c = 0
  <2>1. P = {}
    BY <1>1, <1>3
  <2>2. s = <<>>
    BY <1>1, <1>3
  <2> QED
    BY <2>1, <2>2, <1>2 DEF next, s
<1>4. CASE c # 0
  <2>1. next = s[c] /\ c \in 1 .. c
    BY <1>1, <1>2, <1>4
  <2>2. next \in P /\ next \in Nat /\ next > after
    BY <2>1, <1>1
  <2>3. ASSUME NEW p \in P PROVE p <= next
    <3>1. PICK k \in 1 .. c : s[k] = p
      BY <1>1
    <3>2. DOMAIN s = 1 .. c
      BY <1>1
    <3>3. k < c => s[k] < s[c]
      BY <3>2, <2>1, <1>1 DEF Ascending
    <3>4. k = c \/ k < c
      BY <1>1
    <3>5. p \in Nat
      OBVIOUS
    <3> QED
      BY <3>1, <3>3, <3>4, <3>5, <2>1, <2>2
  <2>4. next >= after
    BY <2>2
  <2> QED
    BY <2>2, <2>3, <2>4 DEF next, s
<1> QED
  BY <1>3, <1>4

-----------------------------------------------------------------------------
(* The pages of events: the inductive invariant.                                *)

StreamsInv ==
  /\ history \in [Feed!Streams -> Seq(FeedRoles)]
  /\ lost \in [Feed!Streams -> Nat] /\ cut \in [Feed!Streams -> Nat]
  /\ \A s \in Feed!Streams :
       /\ Feed!Latest(s) <= MaxEvents
       /\ lost[s] <= cut[s] /\ cut[s] <= Feed!Latest(s)
       /\ lost[s] < Feed!Latest(s) \/ Feed!Latest(s) = 0
       /\ Brokered => cut[s] = lost[s] /\ lost[s] = Feed!Pruned(Feed!Latest(s))
       /\ ~Brokered => /\ cut[s] - lost[s] \in {0, Segment}
                       /\ Feed!Latest(s) - cut[s] <= Segment
                       /\ \A n \in 1 .. Feed!Latest(s) : history[s][n] = s
  /\ registry \in [FeedRoles -> 0 .. MaxEvents]

ClientInv ==
  /\ cursor \in [FeedRoles -> Nat] /\ received \in [FeedRoles -> Seq(Nat)]
  /\ told \in [FeedRoles -> BOOLEAN]
  /\ \A r \in FeedRoles :
       /\ cursor[r] <= Feed!Latest(Feed!Stream(r)) /\ Ascending(received[r])
       /\ \A i \in DOMAIN received[r] : received[r][i] \in 1 .. cursor[r]

\* The role's events after its cursor, of those numbered lo + 1 .. hi.
Span(r, lo, hi) ==
  {n \in lo + 1 .. hi : n > cursor[r] /\ history[Feed!Stream(r)][n] = r}

\* What was read is what the stream kept at some time since the request.
RowsRead(r, began, lo, hi) ==
  /\ lo <= lost[Feed!Stream(r)] /\ lo <= hi /\ began <= hi /\ hi <= Feed!Latest(Feed!Stream(r))

CallInv ==
  \/ call = Feed!Idle
  \/ \E r \in FeedRoles : \E began \in 0 .. Feed!Latest(Feed!Stream(r)) :
       call = [at |-> "asked", role |-> r, began |-> began]
  \/ \E r \in FeedRoles : \E began, lo, hi \in Nat :
       /\ Brokered /\ RowsRead(r, began, lo, hi)
       /\ call = [at |-> "rows", role |-> r, began |-> began, found |-> Span(r, lo, hi)]
  \/ \E r \in FeedRoles : \E began, lo, hi \in Nat :
       /\ ~Brokered /\ RowsRead(r, began, lo, hi) /\ (lo < hi \/ hi = 0) /\ cursor[r] <= hi
       /\ call = [at |-> "registry", role |-> r, began |-> began, found |-> Span(r, lo, hi),
                  bound |-> IF hi = 0 THEN 0 ELSE lo + 1, latest |-> hi]

AnswerInv ==
  \/ answer = Feed!NoAnswer
  \/ /\ answer.role \in FeedRoles /\ answer.began \in 0 .. Feed!Latest(Feed!Stream(answer.role))
     /\ answer.after \in Nat
     /\ Feed!GapIsReal /\ Feed!CompleteUnlessTruncated /\ Feed!SynchronizedRecord

FeedInv == StreamsInv /\ ClientInv /\ CallInv /\ AnswerInv /\ Feed!NoSilentLoss

LEMMA InitFeed == Feed!FeedAssumption /\ Feed!Init => FeedInv
<1> SUFFICES ASSUME Feed!FeedAssumption, Feed!Init PROVE FeedInv
  OBVIOUS
<1>1. StreamsInv
  BY DEF StreamsInv, Feed!Init, Feed!FeedAssumption, Feed!Latest, Feed!Pruned
<1>2. ClientInv
  <2>1. \A r \in FeedRoles : Feed!Stream(r) \in Feed!Streams
    BY DEF Feed!Stream, Feed!Streams
  <2> QED
    BY <2>1 DEF ClientInv, Feed!Init, Feed!Latest, Ascending
<1>3. CallInv /\ AnswerInv
  BY DEF CallInv, AnswerInv, Feed!Init
<1>4. Feed!NoSilentLoss
  <2> SUFFICES ASSUME NEW r \in FeedRoles PROVE received[r] = Feed!UpTo(r, cursor[r])
    BY DEF Feed!NoSilentLoss
  <2>1. received[r] = <<>> /\ cursor[r] = 0
    BY DEF Feed!Init
  <2>2. {k \in 1 .. 0 : k <= Feed!Latest(Feed!Stream(r)) /\ history[Feed!Stream(r)][k] = r} = {}
    OBVIOUS
  <2> QED
    BY <2>1, <2>2, OrderedEmpty DEF Feed!UpTo
<1> QED
  BY <1>1, <1>2, <1>3, <1>4 DEF FeedInv

LEMMA StreamType ==
  /\ \A r \in FeedRoles : Feed!Stream(r) \in Feed!Streams
  /\ Brokered => Feed!Streams = {"run"} /\ \A r \in FeedRoles : Feed!Stream(r) = "run"
  /\ ~Brokered => Feed!Streams = FeedRoles /\ \A r \in FeedRoles : Feed!Stream(r) = r
  BY DEF Feed!Stream, Feed!Streams

-----------------------------------------------------------------------------
(* The writers.  What was recorded stays, and what is lost stays lost.          *)

Grows ==
  \A s \in Feed!Streams :
    /\ Feed!Latest(s) <= Feed!Latest(s)' /\ lost[s] <= lost'[s]
    /\ \A n \in 1 .. Feed!Latest(s) : history'[s][n] = history[s][n]

Writes ==
  \/ \E r \in FeedRoles : Feed!Record(r) \/ Feed!AppendEvent(r) \/ Feed!SaveRegistry(r)

LEMMA WritesStore ==
  ASSUME Feed!FeedAssumption, StreamsInv, Writes
  PROVE  StreamsInv' /\ Grows /\ UNCHANGED <<call, answer, Feed!client>>
<1> USE StreamType
<1>1. \A s \in Feed!Streams : /\ Feed!Latest(s) \in Nat /\ history[s] \in Seq(FeedRoles)
                              /\ lost[s] \in Nat /\ cut[s] \in Nat
  BY DEF StreamsInv, Feed!Latest
<1>2. ASSUME NEW r \in FeedRoles, Feed!Record(r) PROVE StreamsInv' /\ Grows
  <2> DEFINE n == Feed!Latest("run")
  <2>1. /\ Brokered /\ Feed!Streams = {"run"} /\ n < MaxEvents
        /\ history' = [history EXCEPT !["run"] = Append(@, r)]
        /\ lost' = [lost EXCEPT !["run"] = Feed!Pruned(n + 1)] /\ cut' = lost'
        /\ registry' = registry
    BY <1>2 DEF Feed!Record
  <2>2. /\ history[("run")] \in Seq(FeedRoles) /\ n = Len(history["run"]) /\ n \in Nat
        /\ lost["run"] = Feed!Pruned(n)
    BY <1>1, <2>1 DEF Feed!Latest, StreamsInv
  <2>3. /\ history'["run"] = Append(history["run"], r) /\ history' \in [Feed!Streams -> Seq(FeedRoles)]
        /\ Feed!Latest("run")' = n + 1
        /\ \A k \in 1 .. n : history'["run"][k] = history["run"][k]
    BY <2>1, <2>2 DEF StreamsInv, Feed!Latest
  <2>4. Feed!Pruned(n + 1) \in Nat /\ Feed!Pruned(n) <= Feed!Pruned(n + 1) /\ Feed!Pruned(n + 1) < n + 1
    BY <2>2 DEF Feed!Pruned, Feed!FeedAssumption
  <2>5. lost'["run"] = Feed!Pruned(n + 1) /\ lost' \in [Feed!Streams -> Nat]
    BY <2>1, <2>4 DEF StreamsInv
  <2>6. MaxEvents \in Nat
    BY DEF Feed!FeedAssumption
  <2>7. Grows
    BY <2>1, <2>2, <2>3, <2>4, <2>5 DEF Grows
  <2>8. StreamsInv'
    <3>1. /\ Feed!Latest("run")' <= MaxEvents /\ lost'["run"] <= cut'["run"]
          /\ cut'["run"] <= Feed!Latest("run")' /\ lost'["run"] < Feed!Latest("run")'
          /\ cut'["run"] = lost'["run"] /\ lost'["run"] = Feed!Pruned(Feed!Latest("run"))'
      BY <2>1, <2>2, <2>3, <2>4, <2>5, <2>6 DEF Feed!Pruned
    <3> QED
      BY <3>1, <2>1, <2>3, <2>5 DEF StreamsInv
  <2> QED
    BY <2>7, <2>8
<1>3. ASSUME NEW r \in FeedRoles, Feed!AppendEvent(r) PROVE StreamsInv' /\ Grows
  <2> DEFINE n == Feed!Latest(r)
  <2>1. /\ ~Brokered /\ Feed!Streams = FeedRoles /\ n < MaxEvents
        /\ history' = [history EXCEPT ![r] = Append(@, r)]
        /\ registry' = registry
    BY <1>3 DEF Feed!AppendEvent
  <2>2. /\ history[r] \in Seq(FeedRoles) /\ n = Len(history[r]) /\ n \in Nat
        /\ lost[r] \in Nat /\ cut[r] \in Nat
    BY <1>1, <2>1 DEF Feed!Latest
  <2>3. /\ history'[r] = Append(history[r], r) /\ history' \in [Feed!Streams -> Seq(FeedRoles)]
        /\ Feed!Latest(r)' = n + 1 /\ history'[r][n + 1] = r
        /\ \A k \in 1 .. n : history'[r][k] = history[r][k]
        /\ \A s \in Feed!Streams \ {r} : history'[s] = history[s] /\ Feed!Latest(s)' = Feed!Latest(s)
    BY <2>1, <2>2 DEF StreamsInv, Feed!Latest
  <2>4. /\ lost[r] <= cut[r] /\ cut[r] <= n /\ cut[r] - lost[r] \in {0, Segment}
        /\ n - cut[r] <= Segment
        /\ \A k \in 1 .. n : history[r][k] = r
    BY <2>1 DEF StreamsInv
  <2>5. MaxEvents \in Nat /\ Segment \in Nat \ {0}
    BY DEF Feed!FeedAssumption
  <2>6. /\ lost' \in [Feed!Streams -> Nat] /\ cut' \in [Feed!Streams -> Nat]
        /\ \A s \in Feed!Streams \ {r} : lost'[s] = lost[s] /\ cut'[s] = cut[s]
        /\ \/ n - cut[r] < Segment /\ lost'[r] = lost[r] /\ cut'[r] = cut[r]
           \/ ~(n - cut[r] < Segment) /\ lost'[r] = cut[r] /\ cut'[r] = n
    BY <1>3, <2>1, <2>2 DEF Feed!AppendEvent, Feed!Rotate, StreamsInv
  <2>7. /\ lost[r] <= lost'[r] /\ lost'[r] <= cut'[r] /\ cut'[r] <= n + 1
        /\ lost'[r] < n + 1 /\ cut'[r] - lost'[r] \in {0, Segment}
        /\ (n + 1) - cut'[r] <= Segment
    <3>1. CASE n - cut[r] < Segment
      <4> HIDE DEF n
      <4>1. lost'[r] = lost[r] /\ cut'[r] = cut[r] /\ n - cut[r] < Segment
        BY <3>1, <2>6
      <4>2. lost[r] <= cut[r] /\ cut[r] <= n /\ cut[r] - lost[r] \in {0, Segment}
        BY <2>4
      <4>3. /\ n \in Nat /\ lost[r] \in Nat /\ cut[r] \in Nat /\ Segment \in Nat
            /\ (n + 1) - cut[r] <= Segment /\ lost[r] < n + 1 /\ cut[r] <= n + 1
        BY <2>2, <2>5, <4>1, <4>2
      <4> QED
        BY <4>1, <4>2, <4>3
    <3>2. CASE ~(n - cut[r] < Segment)
      <4>1. n - cut[r] = Segment
        BY <3>2, <2>2, <2>4, <2>5
      <4> QED
        <5> HIDE DEF n
        <5>1. lost'[r] = cut[r] /\ cut'[r] = n
          BY <3>2, <2>6
        <5>2. /\ lost[r] <= cut[r] /\ cut[r] <= n /\ n \in Nat /\ cut[r] \in Nat
              /\ Segment \in Nat \ {0}
          BY <2>2, <2>4, <2>5
        <5>3. (n + 1) - n = 1
          BY <5>2
        <5> QED
          BY <4>1, <5>1, <5>2, <5>3
    <3> QED
      BY <3>1, <3>2
  <2>8. \A k \in 1 .. n + 1 : history'[r][k] = r
    <3>1. \A k \in 1 .. n + 1 : k \in 1 .. n \/ k = n + 1
      BY <2>2
    <3> QED
      BY <3>1, <2>3, <2>4
  <2>9. Grows
    <3> SUFFICES ASSUME NEW s \in Feed!Streams
                 PROVE  /\ Feed!Latest(s) <= Feed!Latest(s)' /\ lost[s] <= lost'[s]
                        /\ \A k \in 1 .. Feed!Latest(s) : history'[s][k] = history[s][k]
      BY DEF Grows
    <3>1. CASE s = r
      BY <3>1, <2>2, <2>3, <2>7
    <3>2. CASE s # r
      <4>1. /\ history'[s] = history[s] /\ lost'[s] = lost[s]
            /\ history[s] \in Seq(FeedRoles) /\ lost[s] \in Nat
        BY <3>2, <1>1, <2>3, <2>6
      <4>2. Len(history[s]) \in Nat
        BY <4>1
      <4> QED
        BY <4>1, <4>2 DEF Feed!Latest
    <3> QED
      BY <3>1, <3>2
  <2>10. StreamsInv'
    <3>1. ASSUME NEW s \in Feed!Streams
          PROVE  /\ Feed!Latest(s)' <= MaxEvents
                 /\ lost'[s] <= cut'[s] /\ cut'[s] <= Feed!Latest(s)'
                 /\ lost'[s] < Feed!Latest(s)' \/ Feed!Latest(s)' = 0
                 /\ cut'[s] - lost'[s] \in {0, Segment}
                 /\ Feed!Latest(s)' - cut'[s] <= Segment
                 /\ \A k \in 1 .. Feed!Latest(s)' : history'[s][k] = s
      <4>1. CASE s = r
        <5>1. /\ n + 1 <= MaxEvents /\ lost'[s] <= cut'[s] /\ cut'[s] <= n + 1
              /\ lost'[s] < n + 1 /\ cut'[s] - lost'[s] \in {0, Segment}
              /\ (n + 1) - cut'[s] <= Segment
              /\ \A k \in 1 .. n + 1 : history'[s][k] = s
          BY <4>1, <2>1, <2>2, <2>5, <2>7, <2>8
        <5>2. Feed!Latest(s)' = n + 1
          BY <4>1, <2>3
        <5> HIDE DEF n
        <5> QED
          BY <5>1, <5>2, <2>2
      <4>2. CASE s # r
        BY <4>2, <2>1, <2>3, <2>6 DEF StreamsInv, Feed!Latest
      <4> QED
        BY <4>1, <4>2
    <3> QED
      BY <3>1, <2>1, <2>3, <2>6 DEF StreamsInv
  <2> QED
    BY <2>9, <2>10
<1>4. ASSUME NEW r \in FeedRoles, Feed!SaveRegistry(r) PROVE StreamsInv' /\ Grows
  <2>1. /\ UNCHANGED <<history, lost, cut>> /\ ~Brokered
        /\ registry' = [registry EXCEPT ![r] = Feed!Latest(r)]
    BY <1>4 DEF Feed!SaveRegistry
  <2>2. Feed!Latest(r) \in 0 .. MaxEvents
    BY <2>1, <1>1 DEF StreamsInv, Feed!FeedAssumption
  <2>3. registry' \in [FeedRoles -> 0 .. MaxEvents]
    BY <2>1, <2>2 DEF StreamsInv
  <2>4. \A s \in Feed!Streams : Feed!Latest(s)' = Feed!Latest(s)
    BY <2>1 DEF Feed!Latest
  <2>5. Grows
    BY <2>1, <2>4, <1>1 DEF Grows
  <2>6. StreamsInv'
    BY <2>1, <2>3, <2>4 DEF StreamsInv
  <2> QED
    BY <2>5, <2>6
<1>5. UNCHANGED <<call, answer, Feed!client>>
  BY DEF Writes, Feed!Record, Feed!AppendEvent, Feed!SaveRegistry, Feed!client
<1> QED
  BY <1>2, <1>3, <1>4, <1>5 DEF Writes

\* The rest of the invariant holds of a longer history as of the shorter.
LEMMA GrowsKeeps ==
  ASSUME Feed!FeedAssumption, FeedInv, StreamsInv', Grows, UNCHANGED <<call, answer, Feed!client>>
  PROVE  ClientInv' /\ CallInv' /\ AnswerInv' /\ Feed!NoSilentLoss'
<1> USE StreamType
<1>1. /\ call' = call /\ answer' = answer /\ cursor' = cursor /\ received' = received
      /\ told' = told
  BY DEF Feed!client
<1>2. ASSUME NEW r \in FeedRoles
      PROVE  /\ Feed!Stream(r) \in Feed!Streams /\ Feed!Latest(Feed!Stream(r)) \in Nat
             /\ Feed!Latest(Feed!Stream(r))' \in Nat
             /\ Feed!Latest(Feed!Stream(r)) <= Feed!Latest(Feed!Stream(r))'
             /\ lost[Feed!Stream(r)] \in Nat /\ lost'[Feed!Stream(r)] \in Nat
             /\ lost[Feed!Stream(r)] <= lost'[Feed!Stream(r)]
             /\ \A n \in 1 .. Feed!Latest(Feed!Stream(r)) :
                  history'[Feed!Stream(r)][n] = history[Feed!Stream(r)][n]
             /\ cursor[r] \in Nat /\ cursor[r] <= Feed!Latest(Feed!Stream(r))
  <2>1. Feed!Stream(r) \in Feed!Streams
    OBVIOUS
  <2>2. \A s \in Feed!Streams : Feed!Latest(s) \in Nat /\ Feed!Latest(s)' \in Nat
    <3>1. \A s \in Feed!Streams : history[s] \in Seq(FeedRoles) /\ history'[s] \in Seq(FeedRoles)
      BY DEF FeedInv, StreamsInv
    <3> QED
      BY <3>1 DEF Feed!Latest
  <2> QED
    BY <2>1, <2>2 DEF FeedInv, StreamsInv, ClientInv, Grows
<1>3. \A r \in FeedRoles : Feed!Stream(r)' = Feed!Stream(r)
  BY DEF Feed!Stream
<1>4. ClientInv'
  BY <1>1, <1>2 DEF FeedInv, ClientInv, Ascending, Feed!Stream
<1>5. ASSUME NEW r \in FeedRoles, NEW lo \in Nat, NEW hi \in Nat, hi <= Feed!Latest(Feed!Stream(r))
      PROVE  Span(r, lo, hi)' = Span(r, lo, hi)
  <2>1. \A n \in lo + 1 .. hi : n \in 1 .. Feed!Latest(Feed!Stream(r))
    BY <1>2, <1>5
  <2> QED
    BY <2>1, <1>1, <1>2 DEF Span, Feed!Stream
<1>6. CallInv'
  <2>1. CASE call = Feed!Idle
    BY <2>1, <1>1 DEF CallInv
  <2>2. ASSUME NEW r \in FeedRoles, NEW began \in 0 .. Feed!Latest(Feed!Stream(r)),
               call = [at |-> "asked", role |-> r, began |-> began]
        PROVE  CallInv'
    <3>1. began \in 0 .. Feed!Latest(Feed!Stream(r))'
      BY <1>2
    <3>2. Feed!Latest(Feed!Stream(r))' = (Feed!Latest(Feed!Stream(r)))'
      OBVIOUS
    <3> QED
      BY <3>1, <2>2, <1>1, <1>3 DEF CallInv
  <2>3. ASSUME NEW r \in FeedRoles, NEW began \in Nat, NEW lo \in Nat, NEW hi \in Nat,
               RowsRead(r, began, lo, hi)
        PROVE  RowsRead(r, began, lo, hi)' /\ Span(r, lo, hi)' = Span(r, lo, hi)
    <3>1. lo <= lost[Feed!Stream(r)] /\ lo <= hi /\ began <= hi /\ hi <= Feed!Latest(Feed!Stream(r))
      BY <2>3 DEF RowsRead
    <3>2. Span(r, lo, hi)' = Span(r, lo, hi)
      BY <3>1, <1>5
    <3> QED
      BY <3>1, <3>2, <1>2 DEF RowsRead, Feed!Stream
  <2>4. ASSUME NEW r \in FeedRoles, NEW began \in Nat, NEW lo \in Nat, NEW hi \in Nat,
               Brokered, RowsRead(r, began, lo, hi),
               call = [at |-> "rows", role |-> r, began |-> began, found |-> Span(r, lo, hi)]
        PROVE  CallInv'
    <3>1. RowsRead(r, began, lo, hi)' /\ Span(r, lo, hi)' = Span(r, lo, hi)
      BY <2>3, <2>4
    <3>2. call' = [at |-> "rows", role |-> r, began |-> began, found |-> Span(r, lo, hi)']
      BY <3>1, <2>4, <1>1
    <3> QED
      BY <3>1, <3>2, <2>4 DEF CallInv
  <2>5. ASSUME NEW r \in FeedRoles, NEW began \in Nat, NEW lo \in Nat, NEW hi \in Nat,
               ~Brokered, RowsRead(r, began, lo, hi), lo < hi \/ hi = 0, cursor[r] <= hi,
               call = [at |-> "registry", role |-> r, began |-> began,
                       found |-> Span(r, lo, hi),
                       bound |-> IF hi = 0 THEN 0 ELSE lo + 1, latest |-> hi]
        PROVE  CallInv'
    <3>1. RowsRead(r, began, lo, hi)' /\ Span(r, lo, hi)' = Span(r, lo, hi)
      BY <2>3, <2>5
    <3>2. call' = [at |-> "registry", role |-> r, began |-> began,
                   found |-> Span(r, lo, hi)',
                   bound |-> IF hi = 0 THEN 0 ELSE lo + 1, latest |-> hi]
      BY <3>1, <2>5, <1>1
    <3>3. cursor'[r] <= hi
      BY <2>5, <1>1
    <3> QED
      BY <3>1, <3>2, <3>3, <2>5 DEF CallInv
  <2> QED
    BY <2>1, <2>2, <2>4, <2>5 DEF FeedInv, CallInv
<1>7. AnswerInv'
  <2>1. CASE answer = Feed!NoAnswer
    BY <2>1, <1>1 DEF AnswerInv, Feed!NoAnswer
  <2>2. CASE answer # Feed!NoAnswer
    <3> DEFINE r == answer.role
               s == Feed!Stream(answer.role)
    <3>1. /\ r \in FeedRoles /\ answer.began \in 0 .. Feed!Latest(s) /\ answer.after \in Nat
          /\ Feed!GapIsReal /\ Feed!CompleteUnlessTruncated /\ Feed!SynchronizedRecord
      BY <2>2 DEF FeedInv, AnswerInv
    <3>2. answer'.began \in 0 .. Feed!Latest(s)' /\ answer'.role = r /\ answer'.after \in Nat
      BY <3>1, <1>1, <1>2
    <3>3. Feed!GapIsReal'
      <4>1. answer.gap => lost[s] > answer.after
        BY <2>2, <3>1 DEF Feed!GapIsReal
      <4>2. lost[s] <= lost'[s] /\ lost[s] \in Nat /\ lost'[s] \in Nat
        BY <3>1, <1>2
      <4>3. answer.gap => lost'[s] > answer.after
        BY <4>1, <4>2, <3>1
      <4> QED
        BY <4>3, <1>1 DEF Feed!GapIsReal, Feed!Stream
    <3>4. Feed!CompleteUnlessTruncated'
      <4>1. \/ answer.gap \/ answer.truncated
            \/ \A k \in 1 .. answer.began : history[s][k] = r => k <= cursor[r]
        BY <2>2, <3>1 DEF Feed!CompleteUnlessTruncated
      <4>2. \A k \in 1 .. answer.began : k \in 1 .. Feed!Latest(s)
        BY <3>1, <1>2
      <4>3. \A k \in 1 .. answer.began : history'[s][k] = history[s][k]
        BY <4>2, <3>1, <1>2
      <4> QED
        BY <4>1, <4>3, <1>1 DEF Feed!CompleteUnlessTruncated, Feed!Stream
    <3>5. Feed!SynchronizedRecord'
      BY <3>1, <1>1 DEF Feed!SynchronizedRecord, Feed!NoAnswer
    <3> QED
      BY <3>1, <3>2, <3>3, <3>4, <3>5, <1>1 DEF AnswerInv, Feed!Stream
  <2> QED
    BY <2>1, <2>2
<1>8. Feed!NoSilentLoss'
  <2> SUFFICES ASSUME NEW r \in FeedRoles PROVE told'[r] \/ received'[r] = Feed!UpTo(r, cursor[r])'
    BY DEF Feed!NoSilentLoss
  <2> DEFINE s == Feed!Stream(r)
  <2>1. told[r] \/ received[r] = Feed!UpTo(r, cursor[r])
    BY DEF FeedInv, Feed!NoSilentLoss
  <2>2. \A k \in 1 .. cursor[r] : k \in 1 .. Feed!Latest(s) /\ k <= Feed!Latest(s)'
    BY <1>2
  <2>3. {k \in 1 .. cursor[r] : k <= Feed!Latest(s)' /\ history'[s][k] = r}
          = {k \in 1 .. cursor[r] : k <= Feed!Latest(s) /\ history[s][k] = r}
    BY <2>2, <1>2
  <2>4. Feed!UpTo(r, cursor[r])' = Feed!UpTo(r, cursor[r])
    BY <2>3, <1>1 DEF Feed!UpTo, Feed!Stream
  <2> QED
    BY <2>1, <2>4, <1>1
<1> QED
  BY <1>4, <1>6, <1>7, <1>8

-----------------------------------------------------------------------------
(* A request.                                                                   *)

LEMMA AskKeeps ==
  ASSUME Feed!FeedAssumption, FeedInv, NEW r \in FeedRoles, Feed!Ask(r)
  PROVE  FeedInv'
<1>1. /\ call' = [at |-> "asked", role |-> r, began |-> Feed!Latest(Feed!Stream(r))]
      /\ UNCHANGED <<Feed!store, answer, Feed!client>>
  BY DEF Feed!Ask
<1>2. /\ UNCHANGED <<history, lost, cut, registry, answer, cursor, received, told>>
  BY <1>1 DEF Feed!store, Feed!client
<1>3. Feed!Latest(Feed!Stream(r)) \in 0 .. Feed!Latest(Feed!Stream(r))'
  <2>1. Feed!Stream(r) \in Feed!Streams /\ Feed!Latest(Feed!Stream(r))' = Feed!Latest(Feed!Stream(r))
    BY <1>2, StreamType DEF Feed!Latest, Feed!Stream
  <2>2. Feed!Latest(Feed!Stream(r)) \in Nat
    BY <2>1 DEF FeedInv, StreamsInv, Feed!Latest
  <2> QED
    BY <2>1, <2>2
<1>4. CallInv'
  BY <1>1, <1>3 DEF CallInv
<1>5. StreamsInv'
  BY <1>2 DEF FeedInv, StreamsInv, Feed!Latest
<1>6. ClientInv'
  BY <1>2 DEF FeedInv, ClientInv, Feed!Latest, Ascending, Feed!Stream
<1>7. Feed!NoSilentLoss'
  BY <1>2 DEF FeedInv, Feed!NoSilentLoss, Feed!UpTo, Feed!Latest, Feed!Stream
<1>8. AnswerInv'
  BY <1>2 DEF FeedInv, AnswerInv, Feed!GapIsReal, Feed!CompleteUnlessTruncated, Feed!SynchronizedRecord,
     Feed!Latest, Feed!Stream, Feed!NoAnswer
<1> QED
  BY <1>4, <1>5, <1>6, <1>7, <1>8 DEF FeedInv

\* What is read now is what the stream keeps now.
LEMMA AfterIsSpan ==
  ASSUME StreamsInv, NEW r \in FeedRoles
  PROVE  /\ Feed!Stream(r) \in Feed!Streams /\ lost[Feed!Stream(r)] \in Nat /\ Feed!Latest(Feed!Stream(r)) \in Nat
         /\ lost[Feed!Stream(r)] < Feed!Latest(Feed!Stream(r)) \/ Feed!Latest(Feed!Stream(r)) = 0
         /\ lost[Feed!Stream(r)] <= Feed!Latest(Feed!Stream(r))
         /\ Feed!After(r) = Span(r, lost[Feed!Stream(r)], Feed!Latest(Feed!Stream(r)))
         /\ Feed!Earliest(Feed!Stream(r)) = IF Feed!Latest(Feed!Stream(r)) = 0 THEN 0 ELSE lost[Feed!Stream(r)] + 1
<1> DEFINE s == Feed!Stream(r)
<1>1. s \in Feed!Streams
  BY StreamType
<1>2. /\ lost[s] \in Nat /\ Feed!Latest(s) \in Nat /\ lost[s] <= Feed!Latest(s)
      /\ lost[s] < Feed!Latest(s) \/ Feed!Latest(s) = 0
  <2>1. history[s] \in Seq(FeedRoles) /\ lost[s] \in Nat /\ cut[s] \in Nat
    BY <1>1 DEF StreamsInv
  <2>2. Feed!Latest(s) \in Nat
    BY <2>1 DEF Feed!Latest
  <2>3. /\ lost[s] <= cut[s] /\ cut[s] <= Feed!Latest(s)
        /\ lost[s] < Feed!Latest(s) \/ Feed!Latest(s) = 0
    BY <1>1 DEF StreamsInv
  <2> QED
    BY <2>1, <2>2, <2>3
<1>3. Feed!After(r) = Span(r, lost[s], Feed!Latest(s))
  BY DEF Feed!After, Span, Feed!Kept
<1>4. Feed!Kept(s) = {} <=> Feed!Latest(s) = 0
  <2>1. Feed!Kept(s) = lost[s] + 1 .. Feed!Latest(s)
    BY DEF Feed!Kept
  <2>2. CASE Feed!Latest(s) = 0
    BY <2>1, <2>2, <1>2
  <2>3. CASE lost[s] < Feed!Latest(s)
    <3>1. Feed!Latest(s) \in Feed!Kept(s) /\ Feed!Latest(s) # 0
      BY <2>1, <2>3, <1>2
    <3> QED
      BY <3>1
  <2> QED
    BY <2>2, <2>3, <1>2
<1> QED
  BY <1>1, <1>2, <1>3, <1>4 DEF Feed!Earliest

LEMMA ReadKeeps ==
  ASSUME Feed!FeedAssumption, FeedInv, NEW r \in FeedRoles, Feed!ReadRows(r) \/ Feed!ReadJournal(r)
  PROVE  FeedInv'
<1>1. /\ UNCHANGED <<history, lost, cut, registry, answer, cursor, received, told>>
  BY DEF Feed!ReadRows, Feed!ReadJournal, Feed!store, Feed!client
<1>2. call.role = r /\ call.at = "asked"
  BY DEF Feed!ReadRows, Feed!ReadJournal
<1>3. PICK began \in 0 .. Feed!Latest(Feed!Stream(r)) :
        call = [at |-> "asked", role |-> r, began |-> began]
  <2>1. PICK q \in FeedRoles : \E began \in 0 .. Feed!Latest(Feed!Stream(q)) :
           call = [at |-> "asked", role |-> q, began |-> began]
    BY <1>2 DEF FeedInv, CallInv, Feed!Idle
  <2> QED
    BY <2>1, <1>2
<1>4. PICK lo \in Nat, hi \in Nat : lo = lost[Feed!Stream(r)] /\ hi = Feed!Latest(Feed!Stream(r))
  BY AfterIsSpan DEF FeedInv
<1>5. /\ lo < hi \/ hi = 0
      /\ lo <= hi /\ began \in Nat /\ began <= hi /\ Feed!After(r) = Span(r, lo, hi)
      /\ Feed!Earliest(Feed!Stream(r)) = IF hi = 0 THEN 0 ELSE lo + 1
  BY <1>3, <1>4, AfterIsSpan DEF FeedInv
<1>6. cursor'[r] <= hi
  BY <1>1, <1>4 DEF FeedInv, ClientInv
<1>7. RowsRead(r, began, lo, hi)' /\ Span(r, lo, hi)' = Span(r, lo, hi)
  <2>1. RowsRead(r, began, lo, hi)
    BY <1>4, <1>5 DEF RowsRead
  <2> QED
    BY <2>1, <1>1 DEF RowsRead, Span, Feed!Stream, Feed!Latest
<1>8. CallInv'
  <2>1. CASE Feed!ReadRows(r)
    <3>1. /\ Brokered
          /\ call' = [at |-> "rows", role |-> r, began |-> call.began, found |-> Feed!After(r)]
      BY <2>1 DEF Feed!ReadRows
    <3>2. call' = [at |-> "rows", role |-> r, began |-> began,
                   found |-> Span(r, lo, hi)']
      BY <3>1, <1>3, <1>5, <1>7
    <3> QED
      BY <3>1, <3>2, <1>5, <1>7 DEF CallInv
  <2>2. CASE Feed!ReadJournal(r)
    <3>1. /\ ~Brokered
          /\ call' = [at |-> "registry", role |-> r, began |-> call.began,
                      found |-> Feed!After(r), bound |-> Feed!Earliest(r), latest |-> Feed!Latest(r)]
      BY <2>2 DEF Feed!ReadJournal
    <3>2. Feed!Stream(r) = r
      BY <3>1 DEF Feed!Stream
    <3>3. call' = [at |-> "registry", role |-> r, began |-> began,
                   found |-> Span(r, lo, hi)',
                   bound |-> IF hi = 0 THEN 0 ELSE lo + 1, latest |-> hi]
      BY <3>1, <3>2, <1>3, <1>4, <1>5, <1>7
    <3> QED
      BY <3>1, <3>3, <1>5, <1>6, <1>7 DEF CallInv
  <2> QED
    BY <2>1, <2>2
<1>10. StreamsInv'
  BY <1>1 DEF FeedInv, StreamsInv, Feed!Latest
<1>11. ClientInv'
  BY <1>1 DEF FeedInv, ClientInv, Feed!Latest, Ascending, Feed!Stream
<1>12. Feed!NoSilentLoss'
  BY <1>1 DEF FeedInv, Feed!NoSilentLoss, Feed!UpTo, Feed!Latest, Feed!Stream
<1>13. AnswerInv'
  BY <1>1 DEF FeedInv, AnswerInv, Feed!GapIsReal, Feed!CompleteUnlessTruncated, Feed!SynchronizedRecord,
     Feed!Latest, Feed!Stream, Feed!NoAnswer
<1> QED
  BY <1>8, <1>10, <1>11, <1>12, <1>13 DEF FeedInv

LEMMA BusyKeeps ==
  ASSUME Feed!FeedAssumption, FeedInv, Feed!Busy
  PROVE  FeedInv'
<1>1. /\ UNCHANGED <<history, lost, cut, registry, answer, cursor, received, told>>
      /\ call' = Feed!Idle
  BY DEF Feed!Busy, Feed!store, Feed!client
<1>2. CallInv'
  BY <1>1 DEF CallInv
<1>3. StreamsInv'
  BY <1>1 DEF FeedInv, StreamsInv, Feed!Latest
<1>4. ClientInv'
  BY <1>1 DEF FeedInv, ClientInv, Feed!Latest, Ascending, Feed!Stream
<1>5. Feed!NoSilentLoss'
  BY <1>1 DEF FeedInv, Feed!NoSilentLoss, Feed!UpTo, Feed!Latest, Feed!Stream
<1>6. AnswerInv'
  BY <1>1 DEF FeedInv, AnswerInv, Feed!GapIsReal, Feed!CompleteUnlessTruncated, Feed!SynchronizedRecord,
     Feed!Latest, Feed!Stream, Feed!NoAnswer
<1> QED
  BY <1>2, <1>3, <1>4, <1>5, <1>6 DEF FeedInv

-----------------------------------------------------------------------------
(* The reply.                                                                   *)

\* Numbers appended to a shorter ascending sequence keep it ascending.
LEMMA LongerAscends ==
  ASSUME NEW s \in Seq(Nat), NEW t \in Seq(Nat), NEW c \in Nat, Ascending(s), Ascending(t),
         \A i \in DOMAIN s : s[i] <= c, \A i \in DOMAIN t : t[i] > c
  PROVE  Ascending(s \o t)
<1> DEFINE m == Len(s)
           n == Len(t)
           u == s \o t
<1>1. m \in Nat /\ n \in Nat /\ DOMAIN s = 1 .. m /\ DOMAIN t = 1 .. n /\ DOMAIN u = 1 .. m + n
  OBVIOUS
<1>2. \A k \in 1 .. m + n : u[k] = IF k <= m THEN s[k] ELSE t[k - m]
  OBVIOUS
<1> SUFFICES ASSUME NEW i \in 1 .. m + n, NEW j \in 1 .. m + n, i < j
             PROVE  u[i] < u[j]
  BY <1>1 DEF Ascending
<1> HIDE DEF m, n, u
<1>3. CASE j <= m
  <2>1. i \in 1 .. m /\ j \in 1 .. m /\ i <= m
    BY <1>1, <1>3
  <2> QED
    BY <2>1, <1>1, <1>2, <1>3 DEF Ascending
<1>4. CASE i <= m /\ ~(j <= m)
  <2>1. i \in 1 .. m /\ j - m \in 1 .. n
    BY <1>1, <1>4
  <2>2. u[i] = s[i] /\ u[j] = t[j - m]
    BY <1>2, <1>4
  <2>3. s[i] \in Nat /\ t[j - m] \in Nat
    BY <2>1 DEF m, n
  <2>4. s[i] <= c /\ t[j - m] > c
    BY <2>1, <1>1
  <2> QED
    BY <2>2, <2>3, <2>4
<1>5. CASE ~(i <= m)
  <2>1. i - m \in 1 .. n /\ j - m \in 1 .. n /\ i - m < j - m /\ ~(j <= m)
    BY <1>1, <1>5
  <2> QED
    BY <2>1, <1>1, <1>2, <1>5 DEF Ascending
<1> QED
  BY <1>3, <1>4, <1>5

\* The reply with what was found between lo and hi, and the store's bounds since.
LEMMA ReplyKeeps ==
  ASSUME Feed!FeedAssumption, FeedInv, NEW r \in FeedRoles, NEW began \in Nat, NEW lo \in Nat,
         NEW hi \in Nat, NEW latest \in Nat, NEW earliest, NEW sync,
         RowsRead(r, began, lo, hi), call.began = began, call.found = Span(r, lo, hi),
         NEW late \in Nat, lo <= late, late <= lost[Feed!Stream(r)],
         Feed!Gap(cursor[r], earliest) <=> late > cursor[r],
         Feed!Gap(cursor[r], earliest) \in BOOLEAN,
         sync => /\ registry[r] = hi /\ cursor[r] <= hi /\ late = lo
                 /\ lo < hi \/ hi = 0
                 /\ ~Brokered,
         Feed!Reply(r, Feed!FirstPage(call.found), Feed!Truncated(call.found, Feed!FirstPage(call.found)),
               earliest, Feed!Gap(cursor[r], earliest), sync)
  PROVE  FeedInv'
<1> DEFINE s == Feed!Stream(r)
           c == cursor[r]
           found == Span(r, lo, hi)
<1>1. /\ s \in Feed!Streams /\ Feed!Latest(s) \in Nat /\ lost[s] \in Nat /\ c \in Nat
      /\ received[r] \in Seq(Nat) /\ c <= Feed!Latest(s) /\ told[r] \in BOOLEAN
      /\ lo <= lost[s] /\ began <= hi /\ hi <= Feed!Latest(s)
  <2>1. s \in Feed!Streams
    BY StreamType
  <2>2. history[s] \in Seq(FeedRoles) /\ lost[s] \in Nat
    BY <2>1 DEF FeedInv, StreamsInv
  <2> QED
    BY <2>1, <2>2 DEF FeedInv, ClientInv, RowsRead, Feed!Latest
<1>2. found \in SUBSET Nat /\ found \in SUBSET (1 .. hi) /\ IsFiniteSet(found)
  <2>1. found \in SUBSET (1 .. hi)
    BY DEF Span
  <2>2. IsFiniteSet(1 .. hi)
    BY SegmentIsFinite
  <2> QED
    BY <2>1, <2>2, FS_Subset
<1>3. PICK P \in SUBSET found :
         /\ IsFirst(P, found) /\ IsFiniteSet(P) /\ Feed!FirstPage(found) = Feed!Ordered(P)
         /\ Feed!Truncated(found, Feed!FirstPage(found)) \/ P = found
  <2>1. Limit \in Nat
    BY DEF Feed!FeedAssumption
  <2> HIDE DEF found
  <2> QED
    BY <1>2, <2>1, PageIsFirst
<1> DEFINE page == Feed!Ordered(P)
           next == Feed!NextCursor(c, page)
           gap == Feed!Gap(c, earliest)
           cutOff == Feed!Truncated(found, page)
<1>4. /\ P \in SUBSET Nat
      /\ \A p \in P : p > c /\ p \in 1 .. hi /\ history[s][p] = r
  BY <1>2 DEF Span
<1>5. /\ next \in Nat /\ next >= c /\ (next = c \/ next \in P) /\ \A p \in P : p <= next
  <2> HIDE DEF s, c
  <2> QED
    BY <1>1, <1>3, <1>4, CursorIsLast
<1>6. /\ page \in Seq(P) /\ Ascending(page) /\ page \in Seq(Nat)
      /\ \A i \in DOMAIN page : page[i] \in P
  <2>1. page \in Seq(P) /\ Ascending(page)
    BY <1>3, <1>4, OrderedIs
  <2> HIDE DEF page
  <2>2. P \subseteq Nat
    BY <1>4
  <2>3. page \in Seq(Nat)
    <3>1. page \in [1 .. Len(page) -> P] /\ Len(page) \in Nat
      BY <2>1
    <3>2. page \in [1 .. Len(page) -> Nat]
      BY <3>1, <2>2
    <3> QED
      BY <3>1, <3>2
  <2> QED
    BY <2>1, <2>3
<1>7. /\ UNCHANGED <<history, lost, cut, registry>> /\ call' = Feed!Idle
      /\ cursor' = [cursor EXCEPT ![r] = next]
      /\ received' = [received EXCEPT ![r] = @ \o page]
      /\ told' = [told EXCEPT ![r] = @ \/ gap]
      /\ answer' = [role |-> r, after |-> c, began |-> began, next |-> cursor'[r],
                    gap |-> gap, truncated |-> cutOff, record |-> registry[r],
                    synchronized |-> sync]
  BY <1>3 DEF Feed!Reply, Feed!store
<1>8. next <= Feed!Latest(s)
  BY <1>1, <1>4, <1>5
<1>9. /\ cursor' \in [FeedRoles -> Nat] /\ received' \in [FeedRoles -> Seq(Nat)]
      /\ told' \in [FeedRoles -> BOOLEAN]
      /\ cursor'[r] = next /\ received'[r] = received[r] \o page /\ told'[r] = (told[r] \/ gap)
      /\ \A q \in FeedRoles \ {r} : /\ cursor'[q] = cursor[q] /\ received'[q] = received[q]
                                    /\ told'[q] = told[q]
  <2>1. page \in Seq(Nat)
    BY <1>6
  <2>2. received[r] \o page \in Seq(Nat)
    BY <2>1, <1>1
  <2> HIDE DEF next, page, gap, s, c
  <2> QED
    BY <2>2, <1>1, <1>5, <1>7 DEF FeedInv, ClientInv
<1> HIDE DEF page, next, gap, cutOff, found, s, c
<1>10. StreamsInv'
  BY <1>7 DEF FeedInv, StreamsInv, Feed!Latest
<1>11. CallInv'
  BY <1>7 DEF CallInv
<1>12. \A q \in FeedRoles : Feed!Latest(Feed!Stream(q))' = Feed!Latest(Feed!Stream(q))
  BY <1>7 DEF Feed!Latest, Feed!Stream
<1>13. ClientInv'
  <2> SUFFICES ASSUME NEW q \in FeedRoles
               PROVE  /\ cursor'[q] <= Len(history'[Feed!Stream(q)]) /\ Ascending(received'[q])
                      /\ \A i \in DOMAIN received'[q] : received'[q][i] \in 1 .. cursor'[q]
    BY <1>9 DEF ClientInv, Feed!Latest, Feed!Stream, Ascending
  <2>1. CASE q # r
    BY <2>1, <1>7, <1>9 DEF FeedInv, ClientInv, Feed!Latest
  <2>2. CASE q = r
    <3>1. cursor'[r] <= Len(history'[Feed!Stream(r)])
      BY <1>7, <1>8, <1>9 DEF Feed!Latest, s
    <3>2. /\ received[r] \in Seq(Nat) /\ Ascending(received[r])
          /\ \A i \in DOMAIN received[r] : received[r][i] \in 1 .. c
      BY DEF FeedInv, ClientInv, c
    <3>3. /\ page \in Seq(Nat)
          /\ \A i \in DOMAIN page : page[i] \in 1 .. next /\ page[i] > c
      <4>1. page \in Seq(Nat)
        BY <1>6
      <4>2. ASSUME NEW p \in P PROVE p \in 1 .. next /\ p > c
        BY <1>4, <1>5
      <4> QED
        BY <4>1, <4>2, <1>6
    <3>4. \A i \in DOMAIN received[r] : received[r][i] <= c /\ received[r][i] \in 1 .. next
      BY <3>2, <1>1, <1>5
    <3>5. Ascending(received[r] \o page)
      BY <3>2, <3>3, <3>4, <1>1, <1>6, LongerAscends
    <3>6. \A i \in DOMAIN (received[r] \o page) : (received[r] \o page)[i] \in 1 .. next
      <4> DEFINE a == received[r]
      <4>1. a \in Seq(Nat) /\ page \in Seq(Nat)
        BY <3>2, <3>3
      <4>2. /\ \A i \in 1 .. Len(a) : a[i] \in 1 .. next
            /\ \A i \in 1 .. Len(page) : page[i] \in 1 .. next
        BY <4>1, <3>3, <3>4
      <4> HIDE DEF a
      <4>3. DOMAIN (a \o page) = 1 .. Len(a) + Len(page)
        BY <4>1
      <4>4. ASSUME NEW i \in 1 .. Len(a) + Len(page) PROVE (a \o page)[i] \in 1 .. next
        <5>1. CASE i <= Len(a)
          BY <5>1, <4>1, <4>2
        <5>2. CASE ~(i <= Len(a))
          <6>1. i - Len(a) \in 1 .. Len(page) /\ (a \o page)[i] = page[i - Len(a)]
            BY <5>2, <4>1
          <6> QED
            BY <6>1, <4>2
        <5> QED
          BY <5>1, <5>2
      <4> QED
        BY <4>3, <4>4 DEF a
    <3> QED
      BY <2>2, <3>1, <3>5, <3>6, <1>9
  <2> QED
    BY <2>1, <2>2
<1>14. ASSUME NEW q \in FeedRoles, NEW n \in Nat
       PROVE  Feed!UpTo(q, n)' = Feed!UpTo(q, n)
  BY <1>7 DEF Feed!UpTo, Feed!Latest, Feed!Stream
<1>15. Feed!NoSilentLoss'
  <2> SUFFICES ASSUME NEW q \in FeedRoles PROVE told'[q] \/ received'[q] = Feed!UpTo(q, cursor'[q])
    <3>1. \A q \in FeedRoles : Feed!UpTo(q, cursor[q])' = Feed!UpTo(q, cursor'[q])
      BY <1>7 DEF Feed!UpTo, Feed!Latest, Feed!Stream
    <3> QED
      BY <3>1 DEF Feed!NoSilentLoss
  <2>1. told[q] \/ received[q] = Feed!UpTo(q, cursor[q])
    BY DEF FeedInv, Feed!NoSilentLoss
  <2>2. CASE q # r
    BY <2>1, <2>2, <1>9
  <2>3. CASE q = r /\ ~told[r] /\ ~gap
    <3>1. received[r] = Feed!UpTo(r, c)
      BY <2>1, <2>3 DEF c
    <3>2. late <= c
      BY <2>3, <1>1 DEF gap, c
    <3> DEFINE Earlier == {k \in 1 .. c : k <= Feed!Latest(s) /\ history[s][k] = r}
               Since == {k \in 1 .. next : k <= Feed!Latest(s) /\ history[s][k] = r}
    <3>3. Since = Earlier \cup P
      <4>1. Earlier \subseteq Since
        BY <1>1, <1>5
      <4>2. P \subseteq Since
        BY <1>1, <1>4, <1>5
      <4>3. ASSUME NEW k \in Since, k \notin Earlier PROVE k \in P
        <5>1. /\ k > c /\ k <= next /\ k \in Nat /\ history[s][k] = r /\ next \in P
          BY <4>3, <1>1, <1>5
        <5>2. next \in 1 .. hi /\ lo <= c
          BY <5>1, <1>4, <3>2, <1>1
        <5>3. k \in lo + 1 .. hi
          BY <5>1, <5>2, <1>1
        <5>4. k \in found
          BY <5>1, <5>3 DEF found, Span, s, c
        <5>5. k \notin P => next < k
          BY <5>1, <5>4, <1>3 DEF IsFirst
        <5> QED
          BY <5>1, <5>5, <1>5
      <4> QED
        BY <4>1, <4>2, <4>3
    <3>4. IsFiniteSet(Earlier) /\ Earlier \in SUBSET Nat
      <4>1. IsFiniteSet(1 .. c) /\ Earlier \in SUBSET (1 .. c)
        <5>1. IsFiniteSet(1 .. c)
          BY <1>1, SegmentIsFinite
        <5>2. Earlier \in SUBSET (1 .. c)
          BY <1>1
        <5> QED
          BY <5>1, <5>2
      <4> HIDE DEF Earlier
      <4>2. IsFiniteSet(Earlier)
        BY <4>1, FS_Subset
      <4>3. 1 .. c \subseteq Nat
        BY <1>1
      <4> QED
        BY <4>1, <4>2, <4>3
    <3>5. \A x \in Earlier, y \in P : x < y
      <4>1. ASSUME NEW x \in 1 .. c, NEW y \in P PROVE x < y
        <5>1. c \in Nat
          BY <1>1
        <5>2. y \in Nat /\ y > c
          BY <1>4
        <5> HIDE DEF c
        <5>3. x \in Nat /\ x <= c
          BY <5>1
        <5> QED
          BY <5>1, <5>2, <5>3
      <4> QED
        BY <4>1
    <3>6. Feed!UpTo(r, c) = Feed!Ordered(Earlier) /\ Feed!UpTo(r, next) = Feed!Ordered(Since)
      BY DEF Feed!UpTo, s
    <3> HIDE DEF Earlier, Since
    <3>7. Feed!Ordered(Since) = Feed!Ordered(Earlier) \o page
      BY <3>3, <3>4, <3>5, <1>3, <1>4, OrderedInParts DEF page
    <3> QED
      BY <2>3, <3>1, <3>6, <3>7, <1>9
  <2>4. CASE q = r /\ (told[r] \/ gap)
    BY <2>4, <1>9
  <2> QED
    BY <2>2, <2>3, <2>4
<1>16. AnswerInv'
  <2>1. answer' # Feed!NoAnswer
    BY <1>7 DEF Feed!NoAnswer
  <2>2. /\ answer'.role = r /\ answer'.began = began /\ answer'.after = c /\ answer'.gap = gap
        /\ answer'.truncated = cutOff /\ answer'.next = next /\ answer'.synchronized = sync
        /\ answer'.record = registry[r]
    BY <1>7, <1>9
  <2>3. Feed!Stream(r)' = s /\ lost' = lost /\ history' = history
    BY <1>7 DEF Feed!Stream, s
  <2>4. (answer.began \in 0 .. Feed!Latest(Feed!Stream(answer.role)))'
    <3>2. began \in 0 .. Feed!Latest(s)
      BY <1>1
    <3> QED
      BY <2>2, <2>3, <3>2 DEF Feed!Latest, Feed!Stream, s
  <2>5. Feed!GapIsReal'
    <3>1. gap => lost[s] > c
      <4>1. gap => late > c
        BY DEF gap, c
      <4>2. late <= lost[s]
        BY DEF s
      <4> QED
        BY <4>1, <4>2, <1>1
    <3> QED
      BY <3>1, <2>1, <2>2, <2>3 DEF Feed!GapIsReal, Feed!Stream, s
  <2>6. Feed!CompleteUnlessTruncated'
    <3>1. ASSUME ~gap, ~cutOff, NEW k \in 1 .. began, history[s][k] = r
          PROVE  k <= next
      <4>1. P = found
        BY <3>1, <1>3 DEF cutOff, page
      <4>2. lo <= c
        BY <3>1, <1>1 DEF gap, c
      <4>3. k > c => k \in found
        <5>1. k > c => k \in lo + 1 .. hi
          BY <4>2, <1>1
        <5> QED
          BY <5>1, <3>1 DEF found, Span, s, c
      <4> QED
        BY <4>1, <4>3, <1>1, <1>5
    <3>2. gap \/ cutOff \/ \A k \in 1 .. began : history[s][k] = r => k <= next
      BY <3>1
    <3> QED
      BY <3>2, <2>2, <1>7, <1>9 DEF Feed!CompleteUnlessTruncated, Feed!Stream, s
  <2>7. Feed!SynchronizedRecord'
    <3>1. ASSUME sync, ~cutOff PROVE registry[r] = next
      <4>1. /\ registry[r] = hi /\ c <= hi /\ ~Brokered
            /\ lo < hi \/ hi = 0
        BY <3>1 DEF c
      <4>2. P = found
        BY <3>1, <1>3 DEF cutOff, page
      <4>3. CASE c = hi
        <5>1. next \in P => next > c /\ next <= hi
          <6>1. next \in P => next > c /\ next \in 1 .. hi
            BY <1>4
          <6> QED
            BY <6>1, <1>5
        <5> QED
          BY <5>1, <4>1, <4>3, <1>1, <1>5
      <4>4. CASE c < hi
        <5>1. lo < hi /\ hi \in 1 .. Feed!Latest(s) /\ s = r
          BY <4>1, <4>4, <1>1 DEF s, Feed!Stream
        <5>2. history[s][hi] = r
          BY <5>1, <4>1, <1>1 DEF FeedInv, StreamsInv
        <5>3. hi \in found
          BY <5>1, <5>2, <4>4 DEF found, Span, s, c
        <5> QED
          BY <5>3, <4>1, <4>2, <4>4, <1>1, <1>4, <1>5
      <4> QED
        BY <4>1, <4>3, <4>4, <1>1
    <3> QED
      BY <3>1, <2>2 DEF Feed!SynchronizedRecord
  <2>8. answer'.role \in FeedRoles /\ answer'.after \in Nat
    BY <2>2, <1>1
  <2> QED
    <3>1. /\ answer'.role \in FeedRoles /\ answer'.after \in Nat
          /\ answer'.began \in 0 .. Len(history'[IF Brokered THEN "run" ELSE answer'.role])
      BY <2>4, <2>8 DEF Feed!Latest, Feed!Stream
    <3> QED
      BY <3>1, <2>5, <2>6, <2>7 DEF AnswerInv, Feed!Latest, Feed!Stream
<1> QED
  BY <1>10, <1>11, <1>13, <1>15, <1>16 DEF FeedInv

\* The stream the tables' bounds are read of may have lost more than the rows.
LEMMA BoundsKeeps ==
  ASSUME Feed!FeedAssumption, FeedInv, NEW r \in FeedRoles, Feed!ReadBounds(r)
  PROVE  FeedInv'
<1>1. call.at = "rows" /\ call.role = r
  BY DEF Feed!ReadBounds
<1>2. PICK began \in Nat, lo \in Nat, hi \in Nat :
        /\ Brokered /\ RowsRead(r, began, lo, hi)
        /\ call = [at |-> "rows", role |-> r, began |-> began, found |-> Span(r, lo, hi)]
  <2>1. PICK q \in FeedRoles : \E began, lo, hi \in Nat :
          /\ Brokered /\ RowsRead(q, began, lo, hi)
          /\ call = [at |-> "rows", role |-> q, began |-> began, found |-> Span(q, lo, hi)]
    BY <1>1 DEF FeedInv, CallInv, Feed!Idle
  <2>2. q = r
    BY <2>1, <1>1
  <2> QED
    BY <2>1, <2>2
<1>3. call.began = began /\ call.found = Span(r, lo, hi)
  BY <1>2
<1>4. PICK late \in Nat, n \in Nat : late = lost["run"] /\ n = Feed!Latest("run")
  BY <1>2, AfterIsSpan, StreamType DEF FeedInv
<1>5. /\ Feed!Stream(r) = "run" /\ late <= n
      /\ Feed!Earliest("run") = IF n = 0 THEN 0 ELSE late + 1
  BY <1>2, <1>4, AfterIsSpan, StreamType DEF FeedInv
<1>6. lo <= late /\ cursor[r] \in Nat
  BY <1>2, <1>4, <1>5 DEF RowsRead, FeedInv, ClientInv
<1>7. Feed!Gap(cursor[r], Feed!Earliest("run")) <=> late > cursor[r]
  <2>1. CASE n = 0
    BY <2>1, <1>5, <1>6 DEF Feed!Gap
  <2>2. CASE n # 0
    BY <2>2, <1>5, <1>6 DEF Feed!Gap
  <2> QED
    BY <2>1, <2>2
<1>8. Feed!Gap(cursor[r], Feed!Earliest("run")) \in BOOLEAN
  BY DEF Feed!Gap
<1>9. Feed!Reply(r, Feed!FirstPage(call.found), Feed!Truncated(call.found, Feed!FirstPage(call.found)),
            Feed!Earliest("run"), Feed!Gap(cursor[r], Feed!Earliest("run")), FALSE)
  BY DEF Feed!ReadBounds
<1>10. late <= lost[Feed!Stream(r)]
  BY <1>4, <1>5
<1> QED
  BY <1>2, <1>3, <1>6, <1>7, <1>8, <1>9, <1>10, ReplyKeeps

LEMMA RegistryKeeps ==
  ASSUME Feed!FeedAssumption, FeedInv, NEW r \in FeedRoles, Feed!ReadRegistry(r)
  PROVE  FeedInv'
<1>1. call.at = "registry" /\ call.role = r
  BY DEF Feed!ReadRegistry
<1>2. PICK began \in Nat, lo \in Nat, hi \in Nat :
        /\ ~Brokered /\ RowsRead(r, began, lo, hi) /\ cursor[r] <= hi
        /\ lo < hi \/ hi = 0
        /\ call = [at |-> "registry", role |-> r, began |-> began, found |-> Span(r, lo, hi),
                   bound |-> IF hi = 0 THEN 0 ELSE lo + 1, latest |-> hi]
  <2>1. PICK q \in FeedRoles : \E began, lo, hi \in Nat :
          /\ ~Brokered /\ RowsRead(q, began, lo, hi) /\ (lo < hi \/ hi = 0) /\ cursor[q] <= hi
          /\ call = [at |-> "registry", role |-> q, began |-> began,
                     found |-> Span(q, lo, hi),
                     bound |-> IF hi = 0 THEN 0 ELSE lo + 1, latest |-> hi]
    BY <1>1 DEF FeedInv, CallInv, Feed!Idle
  <2>2. q = r
    BY <2>1, <1>1
  <2> QED
    BY <2>1, <2>2
<1>3. /\ call.began = began /\ call.found = Span(r, lo, hi) /\ call.latest = hi
      /\ call.bound = IF hi = 0 THEN 0 ELSE lo + 1
  BY <1>2
<1>4. /\ lo <= lost[Feed!Stream(r)] /\ lo <= hi /\ cursor[r] \in Nat
  BY <1>2 DEF RowsRead, FeedInv, ClientInv
<1>5. Feed!Gap(cursor[r], call.bound) <=> lo > cursor[r]
  <2>1. CASE hi = 0
    BY <2>1, <1>3, <1>4 DEF Feed!Gap
  <2>2. CASE hi # 0
    BY <2>2, <1>3, <1>4 DEF Feed!Gap
  <2> QED
    BY <2>1, <2>2
<1>6. Feed!Gap(cursor[r], call.bound) \in BOOLEAN
  BY DEF Feed!Gap
<1>7. Feed!Reply(r, Feed!FirstPage(call.found), Feed!Truncated(call.found, Feed!FirstPage(call.found)),
            call.bound, Feed!Gap(cursor[r], call.bound), Feed!Synchronized(registry[r], call.latest))
  BY DEF Feed!ReadRegistry
<1>8. Feed!Synchronized(registry[r], call.latest) =>
        /\ registry[r] = hi /\ cursor[r] <= hi /\ lo = lo
        /\ lo < hi \/ hi = 0
        /\ ~Brokered
  BY <1>2, <1>3 DEF Feed!Synchronized
<1> DEFINE earliest == call.bound
           sync == Feed!Synchronized(registry[r], call.latest)
<1>9. lo <= lo
  OBVIOUS
<1> HIDE DEF earliest, sync
<1> QED
  BY <1>2, <1>3, <1>4, <1>5, <1>6, <1>7, <1>8, <1>9, ReplyKeeps DEF earliest, sync

LEMMA NextFeed == Feed!FeedAssumption /\ FeedInv /\ [Feed!Next]_(Feed!vars) => FeedInv'
<1> SUFFICES ASSUME Feed!FeedAssumption, FeedInv, [Feed!Next]_(Feed!vars) PROVE FeedInv'
  OBVIOUS
<1>1. CASE Writes
  <2>1. StreamsInv' /\ Grows /\ UNCHANGED <<call, answer, Feed!client>>
    BY <1>1, WritesStore DEF FeedInv
  <2> QED
    BY <2>1, GrowsKeeps DEF FeedInv
<1>2. CASE \E r \in FeedRoles : Feed!Ask(r)
  BY <1>2, AskKeeps
<1>3. CASE \E r \in FeedRoles : Feed!ReadRows(r) \/ Feed!ReadJournal(r)
  BY <1>3, ReadKeeps
<1>4. CASE \E r \in FeedRoles : Feed!ReadBounds(r)
  BY <1>4, BoundsKeeps
<1>5. CASE \E r \in FeedRoles : Feed!ReadRegistry(r)
  BY <1>5, RegistryKeeps
<1>6. CASE Feed!Busy
  BY <1>6, BusyKeeps
<1>7. CASE UNCHANGED Feed!vars
  <2>1. UNCHANGED <<history, lost, cut, registry, call, answer, cursor, received, told>>
    BY <1>7 DEF Feed!vars, Feed!store, Feed!client
  <2>2. StreamsInv'
    BY <2>1 DEF FeedInv, StreamsInv, Feed!Latest
  <2>3. Grows /\ UNCHANGED <<call, answer, Feed!client>>
    <3>1. \A s \in Feed!Streams : history[s] \in Seq(FeedRoles) /\ lost[s] \in Nat
      BY DEF FeedInv, StreamsInv
    <3>2. \A s \in Feed!Streams : Len(history[s]) \in Nat /\ lost[s] \in Nat
      BY <3>1
    <3> QED
      BY <2>1, <3>2 DEF Grows, Feed!Latest, Feed!client
  <2> QED
    BY <2>2, <2>3, GrowsKeeps DEF FeedInv
<1> QED
  BY <1>1, <1>2, <1>3, <1>4, <1>5, <1>6, <1>7 DEF Feed!Next, Writes, Feed!Serve

LEMMA FeedInvariant == Feed!FeedAssumption /\ Feed!Spec => []FeedInv
<1> SUFFICES ASSUME Feed!FeedAssumption PROVE Feed!Spec => []FeedInv
  OBVIOUS
<1>1. Feed!Init => FeedInv
  BY InitFeed
<1>2. FeedInv /\ [Feed!Next]_(Feed!vars) => FeedInv'
  BY NextFeed
<1> QED
  BY <1>1, <1>2, PTL DEF Feed!Spec

-----------------------------------------------------------------------------
(* What follows.                                                                *)

LEMMA FeedTypes == Feed!FeedAssumption /\ FeedInv => Feed!TypeOK
<1> SUFFICES ASSUME Feed!FeedAssumption, FeedInv PROVE Feed!TypeOK
  OBVIOUS
<1>1. MaxEvents \in Nat /\ Retained \in Nat \ {0} /\ Segment \in Nat \ {0}
  BY DEF Feed!FeedAssumption
<1>2. \A s \in Feed!Streams : history[s] \in Seq(FeedRoles) /\ lost[s] \in Nat /\ cut[s] \in Nat
  BY DEF FeedInv, StreamsInv
<1>3. \A s \in Feed!Streams : Feed!Latest(s) \in Nat
  BY <1>2 DEF Feed!Latest
<1>4. history \in [Feed!Streams -> UNION {[1 .. n -> FeedRoles] : n \in 0 .. MaxEvents}]
  <2>1. ASSUME NEW s \in Feed!Streams
        PROVE  history[s] \in UNION {[1 .. n -> FeedRoles] : n \in 0 .. MaxEvents}
    <3>1. Len(history[s]) \in 0 .. MaxEvents
      BY <1>1, <1>2, <1>3 DEF FeedInv, StreamsInv, Feed!Latest
    <3>2. history[s] \in [1 .. Len(history[s]) -> FeedRoles]
      BY <1>2
    <3> QED
      BY <3>1, <3>2
  <2> QED
    BY <2>1 DEF FeedInv, StreamsInv
<1>5. ASSUME NEW s \in Feed!Streams
      PROVE  /\ 0 <= lost[s] /\ lost[s] <= cut[s] /\ cut[s] <= Feed!Latest(s)
             /\ IF Brokered
                THEN Cardinality(Feed!Kept(s)) <= Retained
                ELSE /\ cut[s] - lost[s] \in {0, Segment}
                     /\ Feed!Latest(s) - cut[s] \in 0 .. Segment
  <2>1. /\ 0 <= lost[s] /\ lost[s] <= cut[s] /\ cut[s] <= Feed!Latest(s)
        /\ lost[s] \in Nat /\ cut[s] \in Nat /\ Feed!Latest(s) \in Nat
    BY <1>2, <1>3 DEF FeedInv, StreamsInv
  <2>2. CASE Brokered
    <3>1. lost[s] = Feed!Pruned(Feed!Latest(s))
      BY <2>2 DEF FeedInv, StreamsInv
    <3>2. Cardinality(Feed!Kept(s)) = IF lost[s] + 1 > Feed!Latest(s) THEN 0
                                 ELSE Feed!Latest(s) - (lost[s] + 1) + 1
      <4> DEFINE a == lost[s] + 1
                 b == Feed!Latest(s)
      <4>1. a \in Int /\ b \in Int
        BY <2>1
      <4> HIDE DEF a, b
      <4>2. Cardinality(a .. b) = IF a > b THEN 0 ELSE b - a + 1
        BY <4>1, FS_Interval
      <4> QED
        BY <4>2 DEF a, b, Feed!Kept
    <3>3. Feed!Latest(s) - lost[s] <= Retained
      BY <3>1, <2>1, <1>1 DEF Feed!Pruned
    <3>4. Cardinality(Feed!Kept(s)) <= Retained
      <4>1. CASE lost[s] + 1 > Feed!Latest(s)
        BY <4>1, <3>2, <1>1
      <4>2. CASE ~(lost[s] + 1 > Feed!Latest(s))
        <5>1. Cardinality(Feed!Kept(s)) = Feed!Latest(s) - lost[s]
          BY <4>2, <3>2, <2>1
        <5> QED
          BY <5>1, <3>3
      <4> QED
        BY <4>1, <4>2
    <3> QED
      BY <2>1, <2>2, <3>4
  <2>3. CASE ~Brokered
    <3>1. cut[s] - lost[s] \in {0, Segment} /\ Feed!Latest(s) - cut[s] <= Segment
      BY <2>3 DEF FeedInv, StreamsInv
    <3>2. Feed!Latest(s) - cut[s] \in 0 .. Segment
      BY <3>1, <2>1, <1>1
    <3> QED
      BY <2>1, <2>3, <3>1, <3>2
  <2> QED
    BY <2>2, <2>3
<1>6. registry \in [FeedRoles -> 0 .. MaxEvents] /\ told \in [FeedRoles -> BOOLEAN]
  BY DEF FeedInv, StreamsInv, ClientInv
<1>7. call.at \in {"idle", "asked", "rows", "registry"}
  BY DEF FeedInv, CallInv, Feed!Idle
<1>8. ASSUME NEW r \in FeedRoles PROVE cursor[r] \in 0 .. MaxEvents /\ received[r] \in Seq(Feed!Events)
  <2>1. Feed!Stream(r) \in Feed!Streams
    BY StreamType
  <2>2. /\ cursor[r] \in Nat /\ cursor[r] <= Feed!Latest(Feed!Stream(r))
        /\ Feed!Latest(Feed!Stream(r)) <= MaxEvents
    BY <2>1 DEF FeedInv, ClientInv, StreamsInv
  <2>3. cursor[r] \in 0 .. MaxEvents
    BY <2>1, <2>2, <1>1, <1>3
  <2> DEFINE s == received[r]
  <2>4. s \in Seq(Nat) /\ \A i \in DOMAIN s : s[i] \in 1 .. cursor[r]
    BY DEF FeedInv, ClientInv
  <2> HIDE DEF s
  <2>5. \A i \in 1 .. Len(s) : s[i] \in Feed!Events
    <3>1. ASSUME NEW i \in 1 .. Len(s) PROVE s[i] \in Feed!Events
      <4>1. s[i] \in 1 .. cursor[r]
        BY <2>4
      <4> QED
        BY <4>1, <2>3, <1>1 DEF Feed!Events
    <3> QED
      BY <3>1
  <2>6. s \in Seq(Feed!Events)
    BY <2>4, <2>5
  <2> QED
    BY <2>3, <2>6 DEF s
<1>9. /\ cursor \in [FeedRoles -> 0 .. MaxEvents]
      /\ received \in [FeedRoles -> Seq(Feed!Events)]
  BY <1>8 DEF FeedInv, ClientInv
<1> QED
  BY FeedCounts, <1>4, <1>5, <1>6, <1>7, <1>9 DEF Feed!TypeOK

LEMMA FeedIsRight ==
  ASSUME Feed!FeedAssumption, FeedInv
  PROVE  /\ Feed!TypeOK /\ Feed!OnceInOrder /\ Feed!NoSilentLoss /\ Feed!CompleteUnlessTruncated
         /\ Feed!GapIsReal /\ Feed!SynchronizedRecord
<1>1. Feed!TypeOK
  BY FeedTypes
<1>2. Feed!OnceInOrder
  <2> SUFFICES ASSUME NEW r \in FeedRoles, NEW i \in 1 .. Len(received[r]) - 1
               PROVE  received[r][i] < received[r][i + 1]
    BY DEF Feed!OnceInOrder
  <2> DEFINE s == received[r]
  <2>1. s \in Seq(Nat) /\ Ascending(s)
    BY DEF FeedInv, ClientInv
  <2> HIDE DEF s
  <2>2. i \in 1 .. Len(s) - 1
    BY DEF s
  <2>3. i \in DOMAIN s /\ i + 1 \in DOMAIN s /\ i < i + 1
    BY <2>1, <2>2
  <2>4. s[i] < s[i + 1]
    BY <2>1, <2>3 DEF Ascending
  <2> QED
    BY <2>4 DEF s
<1>3. Feed!CompleteUnlessTruncated /\ Feed!GapIsReal /\ Feed!SynchronizedRecord
  BY DEF FeedInv, AnswerInv, Feed!CompleteUnlessTruncated, Feed!GapIsReal, Feed!SynchronizedRecord
<1> QED
  BY <1>1, <1>2, <1>3 DEF FeedInv

\* A client that is not told of a gap has every event of a role up to its cursor,
\* each once and in order, whatever is recorded, pruned or rotated between the
\* reads of a page (rpc_event_page and public_broker_events).
THEOREM NothingIsLost ==
  Feed!FeedAssumption => (Feed!Spec => [](Feed!NoSilentLoss /\ Feed!OnceInOrder))
<1> SUFFICES ASSUME Feed!FeedAssumption
             PROVE  Feed!Spec => [](Feed!NoSilentLoss /\ Feed!OnceInOrder)
  OBVIOUS
<1>1. FeedInv => Feed!NoSilentLoss /\ Feed!OnceInOrder
  BY FeedIsRight
<1> QED
  BY <1>1, FeedInvariant, PTL

\* What an answer says of its page is so: one that is not cut off leaves nothing
\* out, a gap is never a false alarm, and a worker record called synchronized
\* agrees with the page (supervisor_api.py's two reads of a feed).
THEOREM AnswersAreTrue ==
  Feed!FeedAssumption =>
    (Feed!Spec => [](/\ Feed!CompleteUnlessTruncated /\ Feed!GapIsReal
                     /\ Feed!SynchronizedRecord))
<1> SUFFICES ASSUME Feed!FeedAssumption
             PROVE  Feed!Spec => [](/\ Feed!CompleteUnlessTruncated /\ Feed!GapIsReal
                                    /\ Feed!SynchronizedRecord)
  OBVIOUS
<1>1. FeedInv => /\ Feed!CompleteUnlessTruncated /\ Feed!GapIsReal
                 /\ Feed!SynchronizedRecord
  BY FeedIsRight
<1> QED
  BY <1>1, FeedInvariant, PTL

-----------------------------------------------------------------------------
(* Retained runs: the newest of some, and the invariant.                        *)

LEMMA DirCounts ==
  /\ \A S : Dir!Cardinality(S) = Cardinality(S)
  /\ \A S : Dir!IsFiniteSet(S) <=> IsFiniteSet(S)
  BY DEF Dir!Cardinality, Cardinality, Dir!IsFiniteSet, IsFiniteSet

LEMMA NewestIs ==
  ASSUME NEW S \in SUBSET Nat, IsFiniteSet(S), S # {}
  PROVE  Dir!Newest(S) \in S /\ \A q \in S : Dir!Newest(S) >= q
<1>1. Cardinality(S) \in Nat /\ Cardinality(S) # 0
  BY FS_CardinalityType, FS_EmptySet
<1>2. PICK n \in S : Cardinality(Below(S, n)) = Cardinality(S)
  BY <1>1, RankIsReached
<1>3. Below(S, n) = S
  <2>1. Below(S, n) \in SUBSET S
    BY DEF Below
  <2> QED
    BY <2>1, <1>2, FS_Subset
<1>4. \A q \in S : n >= q
  BY <1>3 DEF Below
<1> QED
  BY <1>4 DEF Dir!Newest

LEMMA OldestIs ==
  ASSUME NEW S \in SUBSET Nat, IsFiniteSet(S), S # {}
  PROVE  Dir!Oldest(S) \in S
<1>1. Cardinality(S) \in Nat /\ Cardinality(S) # 0
  BY FS_CardinalityType, FS_EmptySet
<1>2. PICK n \in S : Cardinality(Below(S, n)) = 1
  BY <1>1, RankIsReached
<1>3. ASSUME NEW q \in S PROVE n <= q
  <2>1. CASE q < n
    <3>1. Cardinality(Below(S, q)) < 1 /\ Cardinality(Below(S, q)) \in Nat
      BY <2>1, <1>2, RankGrows, BelowFinite
    <3>2. q \in Below(S, q)
      BY DEF Below
    <3>3. Cardinality(Below(S, q)) # 0
      BY <3>2, BelowFinite, FS_EmptySet
    <3> QED
      BY <3>1, <3>3
  <2> QED
    BY <2>1
<1> QED
  BY <1>3 DEF Dir!Oldest

States == {"absent", "starting", "valid", "damaged", "removed"}
Requests == [kind : {"none", "runs", "sessions", "resolve"},
             at : {"idle", "root", "pick", "scan", "load", "reload", "answer"},
             sessions : SUBSET Sessions, session : Sessions \cup {0},
             left : SUBSET Dir!Runs, page : SUBSET (Sessions \X Dir!Runs),
             issues : SUBSET (Sessions \X (Dir!Runs \cup {0})), cut : BOOLEAN]

\* A directory never holds more runs than a scan looks at.
Fits == MaxRuns <= ScanLimit /\ MaxRuns <= SessionScan

DiskInv ==
  /\ run \in [Sessions \X Dir!Runs -> States]
  /\ throughout \in SUBSET (Sessions \X Dir!Runs)
  /\ \A x \in throughout : run[x] = "valid"

\* What a request can look like at each of its steps.
ShapeInv ==
  /\ request \in Requests
  /\ request.at \in {"root", "pick"} => request.kind = "sessions"
  /\ request.at = "reload" => request.kind = "resolve"
  /\ request.at \in {"scan", "load"} => request.session \in Sessions /\ request.kind # "none"
  /\ Cardinality(request.page) <= PageLimit
  /\ request.at \in {"scan", "load"} =>
       \/ request.kind = "sessions" /\ Cardinality(request.page) < PageLimit
       \/ request.kind = "runs" /\ (request.at = "load" \/ request.page = {})
       \/ request.kind = "resolve" /\ request.page = {}
  /\ request.kind = "runs" => \A x \in request.page : x[1] = request.session
  /\ request.kind = "sessions" =>
       /\ \A x \in request.page : x[1] \notin request.sessions
       /\ request.at \in {"scan", "load"} =>
            /\ request.session \notin request.sessions
            /\ \A x \in request.page : x[1] # request.session
  /\ request.at = "root" => request.page = {}

\* No steady run is lost between the directory and the answer.
SteadyIsLeft ==
  \A r \in Dir!Steady(request.session) :
    r \in request.left \/ <<request.session, r>> \in request.page

LeftInv ==
  /\ request.kind = "runs" /\ request.at \in {"load", "answer"} =>
       /\ ~request.cut \/ Fits => SteadyIsLeft
       /\ \A x \in request.page, q \in request.left : q < x[2]
       /\ request.at = "answer" /\ ~request.cut => request.left = {}
  /\ request.kind = "sessions" /\ Fits =>
       /\ request.at = "load" => SteadyIsLeft
       /\ \A x \in request.page : \A r \in Dir!Steady(x[1]) : r <= x[2]
  /\ request.kind = "resolve" =>
       /\ request.at = "load" => SteadyIsLeft
       /\ request.at \in {"reload", "answer"} =>
            \A r \in Dir!Steady(request.session) : \E x \in request.page : r <= x[2]

Mentioned(s) == \E r \in Dir!Runs \cup {0} : <<s, r>> \in request.page \cup request.issues

\* No session with a steady run is lost between the root and the answer.
SessionInv ==
  request.kind = "sessions" /\ request.at \in {"pick", "scan", "load", "answer"}
      /\ ~request.cut =>
    /\ \A s \in Sessions : Dir!Steady(s) # {} =>
         \/ s \in request.sessions \/ Mentioned(s)
         \/ request.at \in {"scan", "load"} /\ s = request.session
    /\ request.at = "answer" => request.sessions = {}

RunsInv == DiskInv /\ ShapeInv /\ LeftInv /\ SessionInv

LEMMA InitRuns == Dir!RetainedRunsAssumption /\ Dir!Init => RunsInv
<1> SUFFICES ASSUME Dir!RetainedRunsAssumption, Dir!Init PROVE RunsInv
  OBVIOUS
<1>1. PageLimit \in Nat /\ Cardinality({}) = 0
  BY FS_EmptySet DEF Dir!RetainedRunsAssumption
<1>2. /\ request.kind = "none" /\ request.at = "idle" /\ request.page = {}
      /\ request \in Requests
  BY DEF Dir!Init, Dir!None, Requests
<1>3. DiskInv
  BY DEF Dir!Init, DiskInv, States
<1>4. ShapeInv
  BY <1>1, <1>2 DEF ShapeInv
<1>5. LeftInv /\ SessionInv
  BY <1>2 DEF LeftInv, SessionInv
<1> QED
  BY <1>3, <1>4, <1>5 DEF RunsInv

\* Runs that come and go take nothing from what an answer must hold.
LEMMA DiskKeeps ==
  ASSUME RunsInv, Dir!Disk
  PROVE  RunsInv'
<1>1. PICK s \in Sessions, r \in Dir!Runs : \E state \in {"starting", "valid", "damaged", "removed"} :
        Dir!Becomes(s, r, state)
  BY DEF Dir!Disk, Dir!Begin, Dir!Publish, Dir!Damage, Dir!Remove
<1>2. PICK state \in {"starting", "valid", "damaged", "removed"} : Dir!Becomes(s, r, state)
  BY <1>1
<1>3. /\ run' = [run EXCEPT ![<<s, r>>] = state] /\ throughout' = throughout \ {<<s, r>>}
      /\ request' = request
  BY <1>2 DEF Dir!Becomes
<1>4. DiskInv'
  BY <1>3 DEF RunsInv, DiskInv, States
<1>5. \A q \in Sessions \cup {0} : Dir!Steady(q)' \subseteq Dir!Steady(q)
  BY <1>3 DEF Dir!Steady
<1>6. \A x \in request.page : x[1] \in Sessions
  BY DEF RunsInv, ShapeInv, Requests
<1>7. request.session \in Sessions \cup {0}
  BY DEF RunsInv, ShapeInv, Requests
<1>8. ShapeInv'
  BY <1>3 DEF RunsInv, ShapeInv
<1>9. LeftInv'
  BY <1>3 DEF RunsInv, LeftInv, SteadyIsLeft, Dir!Steady
<1>10. SessionInv'
  BY <1>3 DEF RunsInv, SessionInv, Mentioned, Dir!Steady
<1> QED
  BY <1>4, <1>8, <1>9, <1>10 DEF RunsInv

LEMMA AsksKeeps ==
  ASSUME Dir!RetainedRunsAssumption, RunsInv, NEW s \in Sessions \cup {0},
         NEW kind \in {"runs", "sessions", "resolve"}, NEW at \in {"root", "scan"},
         at = "root" <=> kind = "sessions", at = "scan" => s \in Sessions,
         Dir!Asks(kind, at, s)
  PROVE  RunsInv'
<1>1. /\ request' = [Dir!None EXCEPT !.kind = kind, !.at = at, !.session = s]
      /\ throughout' = {x \in Sessions \X Dir!Runs : run[x] = "valid"} /\ run' = run
  BY DEF Dir!Asks
<1>2. /\ request'.kind = kind /\ request'.at = at /\ request'.session = s
      /\ request'.page = {} /\ request'.sessions = {} /\ request' \in Requests
  BY <1>1 DEF Dir!None, Requests
<1>3. PageLimit \in Nat /\ Cardinality({}) = 0
  BY FS_EmptySet DEF Dir!RetainedRunsAssumption
<1>4. DiskInv'
  BY <1>1 DEF RunsInv, DiskInv
<1>5. ShapeInv'
  BY <1>2, <1>3 DEF ShapeInv
<1>6. LeftInv' /\ SessionInv'
  BY <1>2 DEF LeftInv, SessionInv
<1> QED
  BY <1>4, <1>5, <1>6 DEF RunsInv

LEMMA SizesAreFinite ==
  ASSUME Dir!RetainedRunsAssumption, ShapeInv
  PROVE  /\ IsFiniteSet(request.page) /\ Cardinality(request.page) \in Nat
         /\ IsFiniteSet(request.issues) /\ Cardinality(request.issues) \in Nat
         /\ IsFiniteSet(request.left) /\ IsFiniteSet(request.sessions)
         /\ request.left \in SUBSET Nat /\ request.sessions \in SUBSET Nat
         /\ PageLimit \in Nat \ {0} /\ request \in Requests
<1>1. /\ request.page \in SUBSET (Sessions \X Dir!Runs) /\ request.left \in SUBSET Dir!Runs
      /\ request.issues \in SUBSET (Sessions \X (Dir!Runs \cup {0}))
      /\ request.sessions \in SUBSET Sessions
  BY DEF ShapeInv, Requests
<1>2. /\ IsFiniteSet(Sessions) /\ Sessions \subseteq Nat /\ PageLimit \in Nat \ {0}
      /\ IsFiniteSet(Dir!Runs) /\ Dir!Runs \subseteq Nat
  BY DirCounts, FS_Interval DEF Dir!RetainedRunsAssumption, Dir!Runs
<1>3. IsFiniteSet(Sessions \X Dir!Runs) /\ IsFiniteSet(Sessions \X (Dir!Runs \cup {0}))
  BY <1>2, FS_Product, FS_AddElement
<1> QED
  BY <1>1, <1>2, <1>3, FS_Subset, FS_CardinalityType DEF ShapeInv

LEMMA RootKeeps ==
  ASSUME Dir!RetainedRunsAssumption, RunsInv, NEW S \in SUBSET Sessions, Dir!ScanRoot(S)
  PROVE  RunsInv'
<1>1. /\ request.at = "root" /\ Dir!Bounded(S, Dir!Known, ScanLimit)
      /\ request' = [request EXCEPT !.at = "pick", !.sessions = S,
                                    !.cut = Cardinality(Dir!Known) > ScanLimit]
      /\ run' = run /\ throughout' = throughout
  BY DirCounts DEF Dir!ScanRoot, Dir!Goes
<1>2. /\ request \in Requests /\ request.kind = "sessions" /\ request.page = {}
      /\ PageLimit \in Nat
  BY <1>1, SizesAreFinite DEF RunsInv, ShapeInv
<1>3. /\ request'.at = "pick" /\ request'.sessions = S /\ request'.kind = "sessions"
      /\ request'.page = {} /\ request'.cut = (Cardinality(Dir!Known) > ScanLimit)
      /\ request' \in Requests
  <2>1. (Cardinality(Dir!Known) > ScanLimit) \in BOOLEAN
    OBVIOUS
  <2> QED
    BY <1>1, <1>2, <2>1 DEF Requests
<1>4. DiskInv'
  BY <1>1 DEF RunsInv, DiskInv
<1>5. ShapeInv'
  BY <1>3, <1>2, FS_EmptySet DEF ShapeInv
<1>6. LeftInv'
  BY <1>3 DEF LeftInv
<1>7. SessionInv'
  <2>1. ASSUME ~request'.cut, NEW s \in Sessions, Dir!Steady(s) # {} PROVE s \in S
    <3>1. Dir!Known \subseteq Sessions /\ IsFiniteSet(Dir!Known) /\ Cardinality(Dir!Known) \in Nat
      BY DirCounts, FS_Subset, FS_CardinalityType DEF Dir!Known, Dir!RetainedRunsAssumption
    <3>2. ScanLimit \in Nat /\ ~(Cardinality(Dir!Known) > ScanLimit)
      BY <2>1, <1>3 DEF Dir!RetainedRunsAssumption
    <3>4. Cardinality(Dir!Known) <= ScanLimit
      BY <3>1, <3>2
    <3>5. S = Dir!Known
      BY DirCounts, <3>4, <1>1 DEF Dir!Bounded
    <3>3. PICK r \in Dir!Runs : run[<<s, r>>] = "valid"
      BY <2>1 DEF Dir!Steady, RunsInv, DiskInv
    <3> QED
      BY <3>5, <3>3 DEF Dir!Known
  <2>2. \A s \in Sessions : Dir!Steady(s)' = Dir!Steady(s)
    BY <1>1 DEF Dir!Steady
  <2> QED
    BY <2>1, <1>1, <1>3 DEF SessionInv, Dir!Steady
<1> QED
  BY <1>4, <1>5, <1>6, <1>7 DEF RunsInv

LEMMA PickKeeps ==
  ASSUME Dir!RetainedRunsAssumption, RunsInv, Dir!PickSession \/ Dir!LastSession
  PROVE  RunsInv'
<1>1. request.at = "pick" /\ run' = run /\ throughout' = throughout
  BY DEF Dir!PickSession, Dir!LastSession, Dir!Goes
<1>2. /\ request \in Requests /\ request.kind = "sessions"
      /\ Cardinality(request.page) \in Nat /\ Cardinality(request.issues) \in Nat
      /\ PageLimit \in Nat
      /\ \A x \in request.page : x[1] \notin request.sessions
      /\ Cardinality(request.page) <= PageLimit
  BY <1>1, SizesAreFinite DEF RunsInv, ShapeInv
<1>3. DiskInv'
  BY <1>1 DEF RunsInv, DiskInv
<1>4. CASE request' = [request EXCEPT !.at = "answer", !.cut = TRUE]
           \/ Dir!LastSession
  <2>1. /\ request'.at = "answer" /\ request'.kind = "sessions"
        /\ request'.page = request.page /\ request'.sessions = request.sessions
        /\ request'.issues = request.issues
        /\ request' \in Requests
        /\ request'.cut \/ (request'.cut = request.cut /\ request.sessions = {})
    <3>1. CASE request' = [request EXCEPT !.at = "answer", !.cut = TRUE]
      BY <1>2, <3>1 DEF Requests
    <3>2. CASE Dir!LastSession
      <4>1. request' = [request EXCEPT !.at = "answer"] /\ request.sessions = {}
        BY <3>2 DEF Dir!LastSession, Dir!Goes
      <4> QED
        BY <1>2, <4>1 DEF Requests
    <3> QED
      BY <1>4, <3>1, <3>2
  <2>2. ShapeInv'
    BY <1>2, <2>1 DEF ShapeInv
  <2>3. LeftInv'
    BY <1>1, <1>2, <2>1 DEF RunsInv, LeftInv, Dir!Steady
  <2>4. SessionInv'
    BY <1>1, <1>2, <2>1 DEF RunsInv, SessionInv, Dir!Steady, Mentioned
  <2> QED
    BY <1>3, <2>2, <2>3, <2>4 DEF RunsInv
<1>5. CASE Dir!PickSession /\ ~(request' = [request EXCEPT !.at = "answer", !.cut = TRUE])
  <2> DEFINE s == Dir!Oldest(request.sessions)
  <2>1. s \in request.sessions
    BY <1>5, SizesAreFinite, OldestIs DEF Dir!PickSession, RunsInv
  <2>2. /\ request' = [request EXCEPT !.at = "scan", !.session = s, !.sessions = @ \ {s}]
        /\ ~(Cardinality(request.page) + Cardinality(request.issues) >= PageLimit)
    BY DirCounts, <1>5 DEF Dir!PickSession, Dir!Goes
  <2> HIDE DEF s
  <2>3. s \in Sessions
    BY <2>1, <1>2 DEF Requests
  <2>4. /\ request'.at = "scan" /\ request'.kind = "sessions" /\ request'.session = s
        /\ request'.page = request.page /\ request'.sessions = request.sessions \ {s}
        /\ request'.issues = request.issues /\ request'.cut = request.cut
        /\ request' \in Requests
    BY <1>2, <2>2, <2>3 DEF Requests
  <2>5. Cardinality(request.page) < PageLimit
    BY <1>2, <2>2
  <2>6. ShapeInv'
    BY <1>2, <2>1, <2>3, <2>4, <2>5 DEF ShapeInv
  <2>7. LeftInv'
    BY <1>1, <1>2, <2>4 DEF RunsInv, LeftInv, Dir!Steady
  <2>8. SessionInv'
    BY <1>1, <1>2, <2>4 DEF RunsInv, SessionInv, Dir!Steady, Mentioned
  <2> QED
    BY <1>3, <2>6, <2>7, <2>8 DEF RunsInv
<1> QED
  BY <1>4, <1>5

LEMMA ScanKeeps ==
  ASSUME Dir!RetainedRunsAssumption, RunsInv, NEW S \in SUBSET Dir!Runs, Dir!Scan(S)
  PROVE  RunsInv'
<1> DEFINE s == request.session
           all == Dir!Present(s)
           limit == CASE request.kind = "runs" -> ScanLimit
                      [] request.kind = "sessions" -> SessionScan
                      [] OTHER -> MaxRuns
<1>1. /\ request.at = "scan" /\ Dir!Bounded(S, all, limit)
      /\ request' = [request EXCEPT !.at = "load", !.left = S,
                      !.cut = @ \/ (request.kind = "runs" /\ Dir!CutScan(all, limit))]
      /\ run' = run /\ throughout' = throughout
  BY DEF Dir!Scan, Dir!Goes
<1>2. /\ request \in Requests /\ s \in Sessions
      /\ request.kind \in {"runs", "sessions", "resolve"}
      /\ request.kind # "sessions" => request.page = {}
  BY <1>1, SizesAreFinite DEF RunsInv, ShapeInv, Requests
<1>3. /\ request'.at = "load" /\ request'.kind = request.kind /\ request'.session = s
      /\ request'.page = request.page /\ request'.sessions = request.sessions
      /\ request'.issues = request.issues /\ request'.left = S
      /\ request'.cut = (request.cut \/ (request.kind = "runs" /\ Dir!CutScan(all, limit)))
      /\ request' \in Requests
  BY <1>1, <1>2 DEF Requests
<1>4. DiskInv'
  BY <1>1 DEF RunsInv, DiskInv
<1> HIDE DEF limit
<1>5. ShapeInv'
  BY <1>1, <1>2, <1>3 DEF RunsInv, ShapeInv
<1>6. /\ all \in SUBSET Dir!Runs /\ Cardinality(all) \in Nat /\ Cardinality(all) <= MaxRuns
      /\ ScanLimit \in Nat /\ SessionScan \in Nat /\ MaxRuns \in Nat
  <2>1. IsFiniteSet(Dir!Runs) /\ Cardinality(Dir!Runs) = IF 1 > MaxRuns THEN 0 ELSE MaxRuns - 1 + 1
    BY FS_Interval DEF Dir!Runs, Dir!RetainedRunsAssumption
  <2>2. all \in SUBSET Dir!Runs
    BY DEF Dir!Present
  <2>3. Cardinality(all) \in Nat /\ Cardinality(all) <= Cardinality(Dir!Runs)
    BY <2>1, <2>2, FS_Subset, FS_CardinalityType
  <2> QED
    BY <2>1, <2>2, <2>3 DEF Dir!RetainedRunsAssumption
<1>7. ASSUME Cardinality(all) <= limit
      PROVE  \A r \in Dir!Steady(s) : r \in S
  BY DirCounts, <1>7, <1>1 DEF Dir!Bounded, Dir!Steady, Dir!Present, RunsInv, DiskInv
<1>8. LeftInv'
  <2>1. Dir!Steady(s)' = Dir!Steady(s) /\ \A q \in Sessions : Dir!Steady(q)' = Dir!Steady(q)
    BY <1>1, <1>3 DEF Dir!Steady
  <2>2. CASE request.kind = "runs"
    <3>1. limit = ScanLimit
      BY <2>2 DEF limit
    <3>2. ~request'.cut \/ Fits => Cardinality(all) <= limit
      <4>1. ~request'.cut => ~(Cardinality(all) > limit)
        BY DirCounts, <2>2, <1>3 DEF Dir!CutScan
      <4>2. ~(Cardinality(all) > limit) => Cardinality(all) <= limit
        BY <3>1, <1>6
      <4>3. Fits => Cardinality(all) <= limit
        BY <3>1, <1>6 DEF Fits
      <4> QED
        BY <4>1, <4>2, <4>3
    <3> QED
      BY <3>2, <2>2, <1>1, <1>2, <1>3, <1>7 DEF LeftInv, SteadyIsLeft, Dir!Steady
  <2>3. CASE request.kind = "sessions"
    <3>1. limit = SessionScan
      BY <2>3 DEF limit
    <3>2. Fits => Cardinality(all) <= limit
      BY <3>1, <1>6 DEF Fits
    <3>3. Fits => \A x \in request.page : \A r \in Dir!Steady(x[1]) : r <= x[2]
      BY <2>3 DEF RunsInv, LeftInv
    <3> QED
      BY <3>2, <3>3, <2>3, <1>1, <1>3, <1>7 DEF LeftInv, SteadyIsLeft, Dir!Steady
  <2>4. CASE request.kind = "resolve"
    <3>1. limit = MaxRuns
      BY <2>4 DEF limit
    <3>2. Cardinality(all) <= limit
      BY <3>1, <1>6
    <3> QED
      BY <3>2, <2>4, <1>1, <1>3, <1>7 DEF LeftInv, SteadyIsLeft, Dir!Steady
  <2> QED
    BY <2>2, <2>3, <2>4, <1>2
<1>9. SessionInv'
  BY <1>1, <1>3 DEF RunsInv, SessionInv, Dir!Steady, Mentioned
<1> QED
  BY <1>4, <1>5, <1>8, <1>9 DEF RunsInv

LEMMA ValidKeeps ==
  ASSUME Dir!RetainedRunsAssumption, RunsInv, Dir!LoadValid
  PROVE  RunsInv'
<1> DEFINE s == request.session
           c == Dir!Candidate
           x == <<s, c>>
           taken == [request EXCEPT !.left = @ \ {c}, !.page = @ \cup {x}]
<1>1. /\ request.at = "load" /\ request.left # {} /\ run' = run /\ throughout' = throughout
      /\ request' = CASE request.kind = "sessions" -> [taken EXCEPT !.at = "pick"]
                      [] request.kind = "resolve" -> [taken EXCEPT !.at = "reload"]
                      [] request.kind = "runs" /\ Dir!HasRoom -> taken
                      [] OTHER -> [request EXCEPT !.at = "answer", !.cut = TRUE]
  BY DEF Dir!LoadValid, Dir!Goes
<1>2. /\ request \in Requests /\ s \in Sessions /\ PageLimit \in Nat \ {0}
      /\ request.kind \in {"runs", "sessions", "resolve"}
      /\ IsFiniteSet(request.page) /\ Cardinality(request.page) \in Nat
      /\ request.left \subseteq Dir!Runs
  BY <1>1, SizesAreFinite DEF RunsInv, ShapeInv, Requests
<1>3. c \in request.left /\ c \in Dir!Runs /\ \A q \in request.left : q <= c
  <2>1. c \in request.left /\ \A q \in request.left : c >= q
    BY <1>1, SizesAreFinite, NewestIs DEF Dir!Candidate, RunsInv
  <2> QED
    BY <2>1, <1>2
<1> HIDE DEF c
<1>4. DiskInv'
  BY <1>1 DEF RunsInv, DiskInv
<1>5. x \in Sessions \X Dir!Runs /\ x[1] = s /\ x[2] = c
  BY <1>2, <1>3
<1>6. /\ taken \in Requests /\ taken.page = request.page \cup {x}
      /\ taken.left = request.left \ {c} /\ taken.kind = request.kind /\ taken.at = request.at
      /\ taken.session = s /\ taken.sessions = request.sessions
      /\ taken.issues = request.issues /\ taken.cut = request.cut
  BY <1>2, <1>5 DEF Requests
<1> HIDE DEF x, taken
<1>7. /\ Cardinality(request.page \cup {x}) <= Cardinality(request.page) + 1
      /\ Cardinality(request.page \cup {x}) \in Nat
  <2>1. Cardinality(request.page \cup {x}) =
          IF x \in request.page THEN Cardinality(request.page) ELSE Cardinality(request.page) + 1
    BY <1>2, FS_AddElement
  <2> QED
    BY <2>1, <1>2
<1>8. CASE request.kind = "sessions"
  <2>1. /\ request'.at = "pick" /\ request'.kind = "sessions" /\ request' \in Requests
        /\ request'.page = request.page \cup {x} /\ request'.left = request.left \ {c}
        /\ request'.session = s /\ request'.sessions = request.sessions
        /\ request'.issues = request.issues /\ request'.cut = request.cut
    <3>1. request' = [taken EXCEPT !.at = "pick"]
      BY <1>1, <1>8
    <3> QED
      BY <3>1, <1>6, <1>8 DEF Requests
  <2>2. /\ Cardinality(request.page) < PageLimit /\ s \notin request.sessions
        /\ \A y \in request.page : y[1] \notin request.sessions /\ y[1] # s
    BY <1>1, <1>8 DEF RunsInv, ShapeInv
  <2>3. Cardinality(request'.page) <= PageLimit
    BY <2>1, <2>2, <1>2, <1>7
  <2>4. ShapeInv'
    BY <2>1, <2>2, <2>3, <1>5 DEF ShapeInv
  <2>5. LeftInv'
    <3>1. ASSUME Fits, NEW r \in Dir!Steady(s) PROVE r <= c
      <4>1. r \in request.left \/ <<s, r>> \in request.page
        BY <3>1, <1>1, <1>8 DEF RunsInv, LeftInv, SteadyIsLeft
      <4>2. <<s, r>> \notin request.page
        BY <2>2
      <4> QED
        BY <4>1, <4>2, <1>3
    <3>2. ASSUME Fits, NEW y \in request.page, NEW r \in Dir!Steady(y[1]) PROVE r <= y[2]
      BY <3>2, <1>8 DEF RunsInv, LeftInv
    <3>3. ASSUME Fits, NEW y \in request'.page, NEW r \in Dir!Steady(y[1]) PROVE r <= y[2]
      BY <3>1, <3>2, <3>3, <2>1, <1>5
    <3> QED
      BY <3>3, <2>1, <1>1 DEF LeftInv, Dir!Steady
  <2>6. SessionInv'
    <3>1. Mentioned(s)'
      BY <2>1, <1>3 DEF Mentioned, x
    <3> QED
      BY <3>1, <2>1, <1>1, <1>8 DEF RunsInv, SessionInv, Dir!Steady, Mentioned
  <2> QED
    BY <1>4, <2>4, <2>5, <2>6 DEF RunsInv
<1>9. CASE request.kind = "resolve"
  <2>1. /\ request'.at = "reload" /\ request'.kind = "resolve" /\ request' \in Requests
        /\ request'.page = request.page \cup {x} /\ request'.left = request.left \ {c}
        /\ request'.session = s
    <3>1. request' = [taken EXCEPT !.at = "reload"]
      BY <1>1, <1>9
    <3> QED
      BY <3>1, <1>6, <1>9 DEF Requests
  <2>2. request.page = {} /\ Cardinality(request.page) = 0
    BY <1>1, <1>9, FS_EmptySet DEF RunsInv, ShapeInv
  <2>3. Cardinality(request'.page) <= PageLimit
    BY <2>1, <2>2, <1>2, <1>7
  <2>4. ShapeInv'
    BY <2>1, <2>3 DEF ShapeInv
  <2>5. LeftInv'
    <3>1. ASSUME NEW r \in Dir!Steady(s) PROVE r <= x[2]
      BY <2>2, <1>1, <1>3, <1>5, <1>9 DEF RunsInv, LeftInv, SteadyIsLeft
    <3> QED
      BY <3>1, <2>1, <1>1 DEF LeftInv, Dir!Steady
  <2>6. SessionInv'
    BY <2>1 DEF SessionInv
  <2> QED
    BY <1>4, <2>4, <2>5, <2>6 DEF RunsInv
<1>10. CASE request.kind = "runs" /\ Dir!HasRoom
  <2>1. request' = taken
    BY <1>1, <1>10
  <2>2. Cardinality(request'.page) <= PageLimit
    <3>1. Cardinality(request.page) < PageLimit
      BY DirCounts, <1>10 DEF Dir!HasRoom
    <3> QED
      BY <3>1, <2>1, <1>2, <1>6, <1>7
  <2>3. ShapeInv'
    BY <2>1, <2>2, <1>1, <1>5, <1>6, <1>10 DEF RunsInv, ShapeInv
  <2>4. LeftInv'
    <3>1. ~request.cut \/ Fits => SteadyIsLeft
      BY <1>1, <1>10 DEF RunsInv, LeftInv
    <3>2. ASSUME SteadyIsLeft, NEW r \in Dir!Steady(s)
          PROVE  r \in request.left \ {c} \/ <<s, r>> \in request.page \cup {x}
      BY <3>2 DEF SteadyIsLeft, x
    <3>3. ASSUME NEW y \in request.page \cup {x}, NEW q \in request.left \ {c}
          PROVE  q < y[2]
      <4>1. CASE y = x
        <5>1. q <= c /\ q # c /\ q \in Nat /\ c \in Nat
          BY <1>2, <1>3 DEF Dir!Runs
        <5> QED
          BY <4>1, <5>1, <1>5
      <4>2. CASE y \in request.page
        BY <4>2, <1>1, <1>10 DEF RunsInv, LeftInv
      <4> QED
        BY <4>1, <4>2
    <3>4. /\ request'.page = request.page \cup {x} /\ request'.left = request.left \ {c}
          /\ request'.at = "load" /\ request'.kind = "runs" /\ request'.session = s
          /\ request'.cut = request.cut
      BY <2>1, <1>1, <1>6, <1>10
    <3> QED
      BY <3>1, <3>2, <3>3, <3>4, <1>1 DEF LeftInv, SteadyIsLeft, Dir!Steady
  <2>5. SessionInv'
    BY <2>1, <1>6, <1>10 DEF SessionInv
  <2> QED
    BY <1>4, <2>3, <2>4, <2>5 DEF RunsInv
<1>11. CASE request.kind = "runs" /\ ~Dir!HasRoom
  <2>1. /\ request' = [request EXCEPT !.at = "answer", !.cut = TRUE]
    BY <1>1, <1>11
  <2>2. /\ request'.at = "answer" /\ request'.kind = "runs" /\ request' \in Requests
        /\ request'.page = request.page /\ request'.left = request.left
        /\ request'.session = s /\ request'.cut
    BY <2>1, <1>2, <1>11 DEF Requests
  <2>3. ShapeInv'
    BY <2>2, <1>11 DEF RunsInv, ShapeInv
  <2>4. LeftInv'
    BY <2>2, <1>1, <1>11 DEF RunsInv, LeftInv, SteadyIsLeft, Dir!Steady
  <2>5. SessionInv'
    BY <2>2 DEF SessionInv
  <2> QED
    BY <1>4, <2>3, <2>4, <2>5 DEF RunsInv
<1> QED
  BY <1>2, <1>8, <1>9, <1>10, <1>11

LEMMA InvalidKeeps ==
  ASSUME Dir!RetainedRunsAssumption, RunsInv, Dir!LoadInvalid
  PROVE  RunsInv'
<1> DEFINE s == request.session
           c == Dir!Candidate
<1>1. /\ request.at = "load" /\ request.left # {} /\ run' = run /\ throughout' = throughout
      /\ run[<<s, c>>] # "valid"
      /\ request' = [request EXCEPT !.left = @ \ {c},
                       !.issues = IF request.kind = "runs" THEN @ \cup {<<s, c>>} ELSE @]
  BY DEF Dir!LoadInvalid, Dir!Goes, Dir!GoesOn, Dir!Valid
<1>2. /\ request \in Requests /\ s \in Sessions
      /\ request.kind \in {"runs", "sessions", "resolve"} /\ request.left \subseteq Dir!Runs
  BY <1>1, SizesAreFinite DEF RunsInv, ShapeInv, Requests
<1>3. c \in Dir!Runs
  BY <1>1, <1>2, SizesAreFinite, NewestIs DEF Dir!Candidate, RunsInv
<1> HIDE DEF c
<1>4. c \notin Dir!Steady(s)
  BY <1>1 DEF RunsInv, DiskInv, Dir!Steady
<1>5. <<s, c>> \in Sessions \X (Dir!Runs \cup {0})
  BY <1>2, <1>3
<1>6. /\ request'.at = "load" /\ request'.kind = request.kind /\ request'.session = s
      /\ request'.page = request.page /\ request'.sessions = request.sessions
      /\ request'.left = request.left \ {c} /\ request'.cut = request.cut
      /\ request.issues \subseteq request'.issues /\ request' \in Requests
  BY <1>1, <1>2, <1>5 DEF Requests
<1>7. DiskInv'
  BY <1>1 DEF RunsInv, DiskInv
<1>8. ShapeInv'
  BY <1>1, <1>6 DEF RunsInv, ShapeInv
<1>9. LeftInv'
  <2>1. SteadyIsLeft => SteadyIsLeft'
    BY <1>1, <1>4, <1>6 DEF SteadyIsLeft, Dir!Steady
  <2>2. Dir!Steady(s)' = Dir!Steady(s) /\ \A q \in Sessions : Dir!Steady(q)' = Dir!Steady(q)
    BY <1>1 DEF Dir!Steady
  <2> QED
    BY <2>1, <1>1, <1>6 DEF RunsInv, LeftInv, Dir!Steady
<1>10. SessionInv'
  BY <1>1, <1>6 DEF RunsInv, SessionInv, Dir!Steady, Mentioned
<1> QED
  BY <1>7, <1>8, <1>9, <1>10 DEF RunsInv

LEMMA NothingKeeps ==
  ASSUME Dir!RetainedRunsAssumption, RunsInv, Dir!NothingLeft
  PROVE  RunsInv'
<1> DEFINE s == request.session
<1>1. /\ request.at = "load" /\ request.left = {} /\ run' = run /\ throughout' = throughout
      /\ request' = IF request.kind = "sessions"
                    THEN [request EXCEPT !.at = "pick", !.issues = @ \cup {<<s, 0>>}]
                    ELSE [request EXCEPT !.at = "answer"]
  BY DEF Dir!NothingLeft, Dir!Goes
<1>2. /\ request \in Requests /\ s \in Sessions
      /\ request.kind \in {"runs", "sessions", "resolve"}
  BY <1>1, SizesAreFinite DEF RunsInv, ShapeInv, Requests
<1>3. DiskInv'
  BY <1>1 DEF RunsInv, DiskInv
<1>4. CASE request.kind = "sessions"
  <2>1. <<s, 0>> \in Sessions \X (Dir!Runs \cup {0})
    BY <1>2
  <2>2. /\ request'.at = "pick" /\ request'.kind = "sessions" /\ request'.session = s
        /\ request'.page = request.page /\ request'.sessions = request.sessions
        /\ request'.issues = request.issues \cup {<<s, 0>>} /\ request'.cut = request.cut
        /\ request' \in Requests
    BY <2>1, <1>1, <1>2, <1>4 DEF Requests
  <2>3. ShapeInv'
    BY <2>2, <1>4 DEF RunsInv, ShapeInv
  <2>4. LeftInv'
    BY <2>2, <1>1, <1>4 DEF RunsInv, LeftInv, Dir!Steady
  <2>5. SessionInv'
    <3>1. Mentioned(s)'
      BY <2>2 DEF Mentioned
    <3> QED
      BY <3>1, <2>2, <1>1, <1>4 DEF RunsInv, SessionInv, Dir!Steady, Mentioned
  <2> QED
    BY <1>3, <2>3, <2>4, <2>5 DEF RunsInv
<1>5. CASE request.kind # "sessions"
  <2>1. /\ request'.at = "answer" /\ request'.kind = request.kind /\ request'.session = s
        /\ request'.page = request.page /\ request'.left = {} /\ request'.cut = request.cut
        /\ request' \in Requests
    BY <1>1, <1>2, <1>5 DEF Requests
  <2>2. ShapeInv'
    BY <2>1, <1>5 DEF RunsInv, ShapeInv
  <2>3. LeftInv'
    <3>1. CASE request.kind = "runs"
      BY <3>1, <2>1, <1>1 DEF RunsInv, LeftInv, SteadyIsLeft, Dir!Steady
    <3>2. CASE request.kind = "resolve"
      <4>1. Dir!Steady(s) = {}
        BY <3>2, <1>1 DEF RunsInv, LeftInv, SteadyIsLeft, ShapeInv
      <4> QED
        BY <4>1, <3>2, <2>1, <1>1 DEF LeftInv, Dir!Steady
    <3> QED
      BY <3>1, <3>2, <1>2, <1>5
  <2>4. SessionInv'
    BY <2>1, <1>5 DEF SessionInv
  <2> QED
    BY <1>3, <2>2, <2>3, <2>4 DEF RunsInv
<1> QED
  BY <1>4, <1>5

LEMMA ReloadKeeps ==
  ASSUME Dir!RetainedRunsAssumption, RunsInv, Dir!Reload
  PROVE  RunsInv'
<1>1. /\ request.at = "reload" /\ run' = run /\ throughout' = throughout
      /\ \/ request' = [request EXCEPT !.at = "answer"]
         \/ request' = [Dir!None EXCEPT !.at = "idle"]
  BY DEF Dir!Reload, Dir!Goes
<1>2. /\ request \in Requests /\ request.kind = "resolve"
  BY <1>1, SizesAreFinite DEF RunsInv, ShapeInv
<1>3. DiskInv'
  BY <1>1 DEF RunsInv, DiskInv
<1>4. CASE request' = [request EXCEPT !.at = "answer"]
  <2>1. /\ request'.at = "answer" /\ request'.kind = "resolve"
        /\ request'.session = request.session
        /\ request'.page = request.page /\ request' \in Requests
    BY <1>2, <1>4 DEF Requests
  <2>2. ShapeInv'
    BY <2>1 DEF RunsInv, ShapeInv
  <2>3. LeftInv'
    BY <2>1, <1>1, <1>2 DEF RunsInv, LeftInv, Dir!Steady
  <2>4. SessionInv'
    BY <2>1 DEF SessionInv
  <2> QED
    BY <1>3, <2>2, <2>3, <2>4 DEF RunsInv
<1>5. CASE request' = [Dir!None EXCEPT !.at = "idle"]
  <2>1. /\ request'.at = "idle" /\ request'.kind = "none" /\ request'.page = {}
        /\ request' \in Requests
    BY <1>5 DEF Requests, Dir!None
  <2>2. PageLimit \in Nat /\ Cardinality({}) = 0
    BY FS_EmptySet DEF Dir!RetainedRunsAssumption
  <2>3. ShapeInv' /\ LeftInv' /\ SessionInv'
    BY <2>1, <2>2 DEF ShapeInv, LeftInv, SessionInv
  <2> QED
    BY <1>3, <2>3 DEF RunsInv
<1> QED
  BY <1>1, <1>4, <1>5

LEMMA NextRuns == Dir!RetainedRunsAssumption /\ RunsInv /\ [Dir!Next]_(Dir!vars) => RunsInv'
<1> SUFFICES ASSUME Dir!RetainedRunsAssumption, RunsInv, [Dir!Next]_(Dir!vars) PROVE RunsInv'
  OBVIOUS
<1>1. CASE Dir!Disk
  BY <1>1, DiskKeeps
<1>2. CASE Dir!AskSessions
  BY <1>2, AsksKeeps DEF Dir!AskSessions
<1>3. CASE \E s \in Sessions : Dir!AskRuns(s) \/ Dir!AskResolve(s)
  <2>1. PICK s \in Sessions : Dir!Asks("runs", "scan", s) \/ Dir!Asks("resolve", "scan", s)
    BY <1>3 DEF Dir!AskRuns, Dir!AskResolve
  <2>2. s \in Sessions \cup {0}
    OBVIOUS
  <2> QED
    BY <2>1, <2>2, AsksKeeps
<1>4. CASE \E S \in SUBSET Sessions : Dir!ScanRoot(S)
  BY <1>4, RootKeeps
<1>5. CASE Dir!PickSession \/ Dir!LastSession
  BY <1>5, PickKeeps
<1>6. CASE \E S \in SUBSET Dir!Runs : Dir!Scan(S)
  BY <1>6, ScanKeeps
<1>7. CASE Dir!LoadValid
  BY <1>7, ValidKeeps
<1>8. CASE Dir!LoadInvalid
  BY <1>8, InvalidKeeps
<1>9. CASE Dir!NothingLeft
  BY <1>9, NothingKeeps
<1>10. CASE Dir!Reload
  BY <1>10, ReloadKeeps
<1>11. CASE UNCHANGED Dir!vars
  BY <1>11 DEF Dir!vars, RunsInv, DiskInv, ShapeInv, LeftInv, SessionInv, SteadyIsLeft, Dir!Steady,
     Mentioned
<1> QED
  BY <1>1, <1>2, <1>3, <1>4, <1>5, <1>6, <1>7, <1>8, <1>9, <1>10, <1>11 DEF Dir!Next, Dir!Request

LEMMA RunsAreRight ==
  ASSUME RunsInv
  PROVE  Dir!TypeOK /\ Dir!HonestPage /\ Dir!ResolvedIsNewest /\ (Fits => Dir!NewestIsListed)
<1>1. Dir!TypeOK
  BY DirCounts DEF RunsInv, DiskInv, ShapeInv, Dir!TypeOK, States, Requests
<1>2. Dir!HonestPage
  <2>1. ASSUME Dir!Answered("runs"), ~request.cut, NEW r \in Dir!Steady(request.session)
        PROVE  <<request.session, r>> \in request.page
    BY <2>1 DEF Dir!Answered, RunsInv, LeftInv, SteadyIsLeft
  <2>2. ASSUME Dir!Answered("sessions"), ~request.cut, NEW s \in Sessions, Dir!Steady(s) # {}
        PROVE  Mentioned(s)
    BY <2>2 DEF Dir!Answered, RunsInv, SessionInv
  <2> QED
    BY <2>1, <2>2 DEF Dir!HonestPage, Mentioned
<1>3. Dir!ResolvedIsNewest
  BY DEF Dir!ResolvedIsNewest, Dir!Answered, RunsInv, LeftInv
<1>4. ASSUME Fits PROVE Dir!NewestIsListed
  <2>1. ASSUME Dir!Answered("runs"), NEW x \in request.page, NEW r \in Dir!Steady(x[1]), r > x[2]
        PROVE  <<x[1], r>> \in request.page
    <3>1. x[1] = request.session
      BY <2>1 DEF RunsInv, ShapeInv, Dir!Answered
    <3>2. r \in request.left \/ <<x[1], r>> \in request.page
      BY <1>4, <2>1, <3>1 DEF RunsInv, LeftInv, SteadyIsLeft, Dir!Answered
    <3>3. r \in request.left => r < x[2]
      BY <2>1 DEF RunsInv, LeftInv, Dir!Answered
    <3>4. x[2] \in Nat /\ r \in Nat
      BY DEF Dir!Steady, Dir!Runs, RunsInv, ShapeInv, Requests
    <3> QED
      BY <2>1, <3>2, <3>3, <3>4
  <2>2. ASSUME Dir!Answered("sessions"), NEW x \in request.page, NEW r \in Dir!Steady(x[1]), r > x[2]
        PROVE  FALSE
    <3>1. r <= x[2]
      BY <1>4, <2>2 DEF RunsInv, LeftInv, Dir!Answered
    <3>2. x[2] \in Nat /\ r \in Nat
      BY DEF Dir!Steady, Dir!Runs, RunsInv, ShapeInv, Requests
    <3> QED
      BY <2>2, <3>1, <3>2
  <2> QED
    BY <2>1, <2>2 DEF Dir!NewestIsListed
<1> QED
  BY <1>1, <1>2, <1>3, <1>4

LEMMA RunsInvariant == Dir!RetainedRunsAssumption /\ Dir!Spec => []RunsInv
<1> SUFFICES ASSUME Dir!RetainedRunsAssumption PROVE Dir!Spec => []RunsInv
  OBVIOUS
<1>1. Dir!Init => RunsInv
  BY InitRuns
<1>2. RunsInv /\ [Dir!Next]_(Dir!vars) => RunsInv'
  BY NextRuns
<1> QED
  BY <1>1, <1>2, PTL DEF Dir!Spec

\* An answer that does not call itself truncated misses no run that was there all
\* the time and leaves no session with one unmentioned, and a command without a
\* run id acts on no older run than the newest of them, while runs come, break
\* and go under the scan (_retained_runs and retained_sessions of supervisor_api.py,
\* retained_coordination of storage.py).
THEOREM ScansAreHonest ==
  Dir!RetainedRunsAssumption => (Dir!Spec => [](Dir!HonestPage /\ Dir!ResolvedIsNewest))
<1> SUFFICES ASSUME Dir!RetainedRunsAssumption
             PROVE  Dir!Spec => [](Dir!HonestPage /\ Dir!ResolvedIsNewest)
  OBVIOUS
<1>1. RunsInv => Dir!HonestPage /\ Dir!ResolvedIsNewest
  BY RunsAreRight
<1> QED
  BY <1>1, RunsInvariant, PTL

\* Where a scan looks at all the runs of a session, a listing passes over no run
\* that was there all the time for an older one (the sort of supervisor_api.py's
\* _retained_runs before the page is filled).
THEOREM NewestFirst ==
  Dir!RetainedRunsAssumption => (Dir!Spec => [](Fits => Dir!NewestIsListed))
<1> SUFFICES ASSUME Dir!RetainedRunsAssumption
             PROVE  Dir!Spec => [](Fits => Dir!NewestIsListed)
  OBVIOUS
<1>1. RunsInv => (Fits => Dir!NewestIsListed)
  BY RunsAreRight
<1> QED
  BY <1>1, RunsInvariant, PTL
=============================================================================
