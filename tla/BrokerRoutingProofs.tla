-------------------------- MODULE BrokerRoutingProofs --------------------------
EXTENDS BrokerRouting, TLAPS, FiniteSetTheorems, WellFoundedInduction

\* The work a step may name.
Doings == {"baseline", "inform", "evidence", "planned", "implemented", "approved",
           "rejected", "begin", "advance", "insert", "reopen", "resume", "initial",
           "probe", "assign", "gate", "confirm", "started", "answer", "decide"}

LEMMA DoingsRanked == Doings = UNION {Ranked[k] : k \in DOMAIN Ranked}
<1>1. DOMAIN Ranked = 1..7
  BY DEF Ranked
<1>2. UNION {Ranked[k] : k \in DOMAIN Ranked} =
        Ranked[1] \cup Ranked[2] \cup Ranked[3] \cup Ranked[4] \cup Ranked[5] \cup Ranked[6]
        \cup Ranked[7]
  BY <1>1
<1>3. QED
  BY <1>2 DEF Ranked, Doings

LEMMA StepType ==
  ASSUME NEW do \in Doings, NEW to \in Roles, NEW q \in Rounds
  PROVE  Step(do, to, q) \in Steps /\ Step(do, to, q).do = do
         /\ Step(do, to, q).to = to /\ Step(do, to, q).round = q
  BY DoingsRanked DEF Step, Steps

LEMMA RowType ==
  ASSUME NEW s \in Seq(Assignment), NEW n \in 1..Len(s), NEW e \in Assignment
  PROVE  /\ [s EXCEPT ![n] = e] \in Seq(Assignment)
         /\ Len([s EXCEPT ![n] = e]) = Len(s)
         /\ \A j \in 1..Len(s) : [s EXCEPT ![n] = e][j] = IF j = n THEN e ELSE s[j]
  OBVIOUS

LEMMA AdmittedType == RepairsAdmitted \in Nat /\ IsFiniteSet(RepairRounds)
<1>1. IsFiniteSet(2..MaxRounds)
  BY FS_Interval, ConstantAssumption
<1>2. IsFiniteSet(RepairRounds)
  BY <1>1, FS_Subset DEF RepairRounds
<1>3. QED
  BY <1>2, FS_CardinalityType DEF RepairsAdmitted

-----------------------------------------------------------------------------
(* Type correctness.  A step that will open the next round is only queued  *)
(* while there is one: that bound makes the type of round inductive.       *)

NextRoundExists ==
  \A t \in Tasks : \A x \in todo[t] : x.do \in {"rejected", "advance"} => x.round < MaxRounds

Typing == TypeOK /\ NextRoundExists

\* What a task may be left with.
Queue(S) == /\ S \subseteq Steps
            /\ \A x \in S : x.do \in {"rejected", "advance"} => x.round < MaxRounds

LEMMA QueueRest ==
  ASSUME Typing, NEW t \in Tasks, NEW x \in todo[t]
  PROVE  Queue(Rest(t, x)) /\ x \in Steps /\ x.to \in Roles /\ x.round \in Rounds
  BY DEF Typing, TypeOK, NextRoundExists, Queue, Rest, Steps

LEMMA QueuePause ==
  ASSUME Typing, NEW t \in Tasks, NEW S, Queue(S), Pause(t, S)
  PROVE  /\ todo' \in [Tasks -> SUBSET Steps]
         /\ waits' \in [Tasks -> Roles \cup {Nothing, Running}]
         /\ NextRoundExists'
  BY DEF Typing, TypeOK, NextRoundExists, Queue, Pause

LEMMA QueueRun ==
  ASSUME Typing, NEW t \in Tasks, NEW S, Queue(S), Run(t, S)
  PROVE  /\ todo' \in [Tasks -> SUBSET Steps]
         /\ waits' \in [Tasks -> Roles \cup {Nothing, Running}]
         /\ NextRoundExists'
  BY DEF Typing, TypeOK, NextRoundExists, Queue, Run

LEMMA QueueDrain ==
  ASSUME Typing, NEW t \in Tasks, NEW r \in Roles, NEW S, Queue(S), Drain(t, r, S)
  PROVE  /\ todo' \in [Tasks -> SUBSET Steps]
         /\ waits' \in [Tasks -> Roles \cup {Nothing, Running}]
         /\ NextRoundExists'
  BY DEF Typing, TypeOK, NextRoundExists, Queue, Drain

LEMMA AbandonType ==
  ASSUME Typing, NEW t \in Tasks, Abandon(t)
  PROVE  /\ todo' \in [Tasks -> SUBSET Steps]
         /\ waits' \in [Tasks -> Roles \cup {Nothing, Running}]
         /\ NextRoundExists'
         /\ conn' \in [Roles -> {"down", "up", "lost"}]
<1>1. Run(t, {}) /\ Queue({})
  BY DEF Abandon, Queue
<1>2. conn' \in [Roles -> {"down", "up", "lost"}]
  BY DEF Abandon, Typing, TypeOK
<1>3. QED
  BY <1>1, <1>2, QueueRun

\* What the handlers write into a row keeps it a row.
LEMMA RowEdit ==
  ASSUME TypeOK, NEW r \in Roles, NEW n \in Ids(r)
  PROVE  /\ asg[r][n] \in Assignment
         /\ \A st \in {"delivering", "accepted", "uncertain", "completed"} :
              [asg[r][n] EXCEPT !.state = st] \in Assignment
         /\ \A owes \in {"report", "reminder", "retry", "attention", "resumed", "nothing"} :
              [asg[r][n] EXCEPT !.owes = owes] \in Assignment
<1>1. asg[r][n] \in Assignment
  BY DEF TypeOK, Ids
<1>2. QED
  BY <1>1 DEF Assignment

\* One row of one role changes: nothing else about the tables does.
LEMMA RowChange ==
  ASSUME TypeOK, NEW r \in Roles, NEW n \in Ids(r), NEW e \in Assignment,
         asg' = [asg EXCEPT ![r] = [asg[r] EXCEPT ![n] = e]]
  PROVE  /\ asg' \in [Roles -> Seq(Assignment)]
         /\ \A x \in Roles : Len(asg'[x]) = Len(asg[x])
         /\ \A x \in Roles : \A j \in Ids(x) :
              asg'[x][j] = IF x = r /\ j = n THEN e ELSE asg[x][j]
<1>1. asg[r] \in Seq(Assignment) /\ n \in 1..Len(asg[r])
  BY DEF TypeOK, Ids
<1>2. QED
  BY <1>1, RowType DEF TypeOK, Ids

LEMMA OutcomeType ==
  ASSUME NEW t, NEW state \in WorkflowStates
  PROVE  Outcome(t, state) \in WorkflowStates
  BY DEF Outcome, WorkflowStates

LEMMA PublishedType ==
  ASSUME NEW state \in WorkflowStates
  PROVE  Published(state) \in WorkflowStates
  BY DEF Published, WorkflowStates

LEMMA InsertType ==
  ASSUME Typing, NEW t \in Tasks, NEW r \in Roles, NEW q \in Rounds, NEW S, Queue(S),
         Insert(t, r, q, S),
         UNCHANGED <<round, limit, paused, decision, baselined>>
  PROVE  /\ workflow' \in WorkflowStates /\ pending' \in 0..MaxRounds
         /\ asg' \in [Roles -> Seq(Assignment)]
         /\ active' \in [Roles -> Nat]
         /\ \A x \in Roles : active'[x] \in 0..Len(asg'[x])
         /\ rstate' \in [Roles -> RoleStates]
         /\ conn' \in [Roles -> {"down", "up", "lost"}]
         /\ todo' \in [Tasks -> SUBSET Steps]
         /\ waits' \in [Tasks -> Roles \cup {Nothing, Running}]
         /\ NextRoundExists'
<1>1. CASE RepairLimitReached(r, q)
  <2>1. /\ workflow' = "needs_attention" /\ pending' = q /\ Pause(t, S)
        /\ UNCHANGED <<asg, active, rstate, conn>>
    BY <1>1 DEF Insert
  <2>2. QED
    BY <2>1, QueuePause DEF Typing, TypeOK, WorkflowStates, Rounds
<1>2. CASE ~RepairLimitReached(r, q)
  <2>1. Create(r, q, KindFor(t, r))
    BY <1>2 DEF Insert
  <2>2. New(q, KindFor(t, r)) \in Assignment
    BY DEF New, KindFor, Assignment
  <2>3. asg[r] \in Seq(Assignment)
    BY DEF Typing, TypeOK
  <2>4. /\ Append(asg[r], New(q, KindFor(t, r))) \in Seq(Assignment)
        /\ Len(Append(asg[r], New(q, KindFor(t, r)))) = Len(asg[r]) + 1
        /\ Len(asg[r]) \in Nat
    BY <2>2, <2>3
  <2>5. /\ asg' \in [Roles -> Seq(Assignment)]
        /\ active' \in [Roles -> Nat]
        /\ \A x \in Roles : active'[x] \in 0..Len(asg'[x])
        /\ rstate' \in [Roles -> RoleStates]
    BY <2>1, <2>4 DEF Create, Typing, TypeOK, RoleStates
  <2>6. PICK state \in WorkflowStates :
          /\ pending' = IF SettlesRepair(r, q) THEN 0 ELSE pending
          /\ \/ Alive(r) /\ Drain(t, r, S) /\ workflow' = state /\ UNCHANGED conn
             \/ ~Alive(r) /\ Abandon(t) /\ workflow' = Outcome(t, state)
    <3>1. (IF SettlesRepair(r, q) THEN Published("active") ELSE workflow) \in WorkflowStates
      BY PublishedType DEF WorkflowStates, Typing, TypeOK
    <3>2. QED
      BY <1>2, <3>1 DEF Insert
  <2>7. pending' \in 0..MaxRounds
    BY <2>6, ConstantAssumption DEF Typing, TypeOK
  <2>8. CASE Drain(t, r, S) /\ workflow' = state /\ UNCHANGED conn
    BY <2>5, <2>7, <2>8, QueueDrain DEF Typing, TypeOK
  <2>9. CASE Abandon(t) /\ workflow' = Outcome(t, state)
    BY <2>5, <2>7, <2>9, AbandonType, OutcomeType
  <2>10. QED
    BY <2>6, <2>8, <2>9
<1>3. QED
  BY <1>1, <1>2

LEMMA AssignType ==
  ASSUME Typing, NEW t \in Tasks, NEW r \in Roles, NEW q \in Rounds, NEW S, Queue(S),
         Assign(t, r, q, S),
         UNCHANGED <<round, limit, paused, decision, baselined>>
  PROVE  Typing'
<1>1. CASE ~Known(r)
  <2>1. Run(t, S) /\ UNCHANGED <<workflow, pending, asg, active, rstate, conn, owed>>
    BY <1>1 DEF Assign
  <2>2. QED
    BY <2>1, QueueRun DEF Typing, TypeOK
<1>2. CASE Known(r) /\ r \in owed \cup Retained
  <2>1. Queue(S \cup {Step("insert", r, q)})
    <3>1. Step("insert", r, q) \in Steps /\ Step("insert", r, q).do = "insert"
      BY StepType DEF Doings
    <3>2. QED
      BY <3>1 DEF Queue
  <2>2. owed' = owed \ {r} /\ UNCHANGED <<pending, asg, active, rstate>>
    BY <1>2 DEF Assign
  <2>3. CASE /\ Drain(t, r, S \cup {Step("insert", r, q)})
             /\ UNCHANGED <<workflow, conn>>
    BY <2>1, <2>2, <2>3, QueueDrain DEF Typing, TypeOK
  <2>4. CASE Abandon(t) /\ workflow' = Outcome(t, workflow)
    BY <2>2, <2>4, AbandonType, OutcomeType DEF Typing, TypeOK
  <2>5. QED
    BY <1>2, <2>3, <2>4 DEF Assign
<1>3. CASE Known(r) /\ r \notin owed \cup Retained
  <2>1. Insert(t, r, q, S) /\ UNCHANGED owed
    BY <1>3 DEF Assign
  <2>2. QED
    BY <2>1, InsertType DEF Typing, TypeOK
<1>4. QED
  BY <1>1, <1>2, <1>3

LEMMA SendOnlyType ==
  ASSUME Typing, NEW t \in Tasks, NEW x \in todo[t], SendOnly(t, x),
         owed' \subseteq Roles
  PROVE  Typing'
<1>1. Queue(Rest(t, x)) /\ x.to \in Roles
  BY QueueRest
<1>2. CASE Run(t, Rest(t, x)) /\ UNCHANGED <<workflow, conn>>
  BY <1>1, <1>2, QueueRun DEF SendOnly, Typing, TypeOK
<1>3. CASE Drain(t, x.to, Rest(t, x)) /\ UNCHANGED <<workflow, conn>>
  BY <1>1, <1>3, QueueDrain DEF SendOnly, Typing, TypeOK
<1>4. CASE Abandon(t) /\ workflow' = Outcome(t, workflow)
  BY <1>1, <1>4, AbandonType, OutcomeType DEF SendOnly, Typing, TypeOK
<1>5. QED
  BY <1>2, <1>3, <1>4 DEF SendOnly

LEMMA OpenRoundType ==
  ASSUME Typing, NEW t \in Tasks, NEW q \in Rounds, OpenRound(t, q)
  PROVE  Typing'
<1>1. Implementer \in Roles
  BY DEF Roles
<1>2. Queue({Step("assign", Implementer, q)})
  BY <1>1, StepType DEF Queue, Doings
<1>3. Published("active") \in WorkflowStates
  BY PublishedType DEF WorkflowStates
<1>4. Pause(t, {Step("assign", Implementer, q)})
  BY DEF OpenRound
<1>5. QED
  BY <1>2, <1>3, <1>4, QueuePause DEF OpenRound, Typing, TypeOK

\* Rows of a worker's current assignment.
LEMMA CurrentRow ==
  ASSUME TypeOK, NEW r \in Roles, Working(r)
  PROVE  /\ active[r] \in Ids(r) /\ Current(r) = asg[r][active[r]]
         /\ Current(r) \in Assignment /\ Current(r).round \in Rounds
<1>1. active[r] \in 1..Len(asg[r]) /\ asg[r] \in Seq(Assignment)
  BY DEF TypeOK, Working
<1>2. asg[r][active[r]] \in Assignment
  BY <1>1
<1>3. QED
  BY <1>1, <1>2 DEF Ids, Current, Assignment

LEMMA LeastNatural ==
  ASSUME NEW S \in SUBSET Nat, S # {}
  PROVE  \E n \in S : \A m \in S : n <= m
<1>1. PICK n \in S : \A m \in S : ~(<<m, n>> \in OpToRel(<, Nat))
  BY NatLessThanWellFounded, WFMin
<1>2. ASSUME NEW m \in S, m < n
      PROVE  FALSE
  <2>1. <<m, n>> \in {ss \in Nat \X Nat : ss[1] < ss[2]}
    BY <1>2
  <2>2. QED
    BY <1>1, <2>1 DEF OpToRel
<1>3. QED
  BY <1>2

\* The newest unfinished row is a row.
LEMMA NewestRow ==
  ASSUME TypeOK, NEW r \in Roles, Newest(r) # 0
  PROVE  Newest(r) \in Ids(r) /\ asg[r][Newest(r)].state # "completed"
<1> DEFINE open == {i \in Ids(r) : asg[r][i].state # "completed"}
<1>1. open # {} /\ open \subseteq 1..Len(asg[r]) /\ Len(asg[r]) \in Nat
  BY DEF Newest, Ids, TypeOK
<1> DEFINE below == {k \in Nat : Len(asg[r]) - k \in open}
<1>2. PICK k \in below : \A m \in below : k <= m
  <2>1. PICK i \in open : TRUE
    BY <1>1
  <2>2. Len(asg[r]) - i \in below
    BY <1>1, <2>1
  <2>3. below \in SUBSET Nat /\ below # {}
    BY <2>2
  <2>4. QED
    BY <2>3, LeastNatural
<1>3. \E i \in open : \A j \in open : j <= i
  <2>1. ASSUME NEW j \in open
        PROVE  j <= Len(asg[r]) - k
    <3>1. Len(asg[r]) - j \in below /\ j \in Nat /\ k \in Nat /\ Len(asg[r]) \in Nat
      BY <1>1, <2>1
    <3>2. k <= Len(asg[r]) - j
      BY <1>2, <3>1
    <3>3. QED
      BY <3>1, <3>2
  <2>2. QED
    BY <1>2, <2>1
<1>4. Newest(r) = CHOOSE i \in open : \A j \in open : j <= i
  BY <1>1 DEF Newest
<1>5. Newest(r) \in open
  BY <1>3, <1>4
<1>6. QED
  BY <1>5

\* A change to a row that leaves its round alone keeps the tables well typed.
LEMMA AwaitType ==
  ASSUME TypeOK, NEW r \in Roles, NEW n \in Ids(r),
         NEW owes \in {"report", "reminder", "retry", "attention", "resumed", "nothing"},
         Await(r, n, owes), UNCHANGED active
  PROVE  /\ asg' \in [Roles -> Seq(Assignment)]
         /\ \A x \in Roles : active'[x] \in 0..Len(asg'[x])
         /\ rstate' \in [Roles -> RoleStates]
         /\ workflow' \in WorkflowStates
<1>1. asg[r][n] \in Assignment
  BY DEF TypeOK, Ids
<1>2. [asg[r][n] EXCEPT !.owes = owes] \in Assignment
  BY <1>1 DEF Assignment
<1>3. asg' = [asg EXCEPT ![r] = [asg[r] EXCEPT ![n] = [asg[r][n] EXCEPT !.owes = owes]]]
  BY DEF Await
<1>4. QED
  BY <1>2, <1>3, RowChange DEF Await, TypeOK, RoleStates, WorkflowStates

LEMMA GreetType ==
  ASSUME Typing, NEW r \in Roles, Greet(r)
  PROVE  conn' \in [Roles -> {"down", "up", "lost"}]
  BY DEF Greet, Typing, TypeOK

LEMMA ConnectionsType ==
  ASSUME Typing, Connections
  PROVE  Typing'
<1> USE DEF Typing
<1>1. ASSUME NEW r \in Roles, Connect(r)
      PROVE  Typing'
  BY <1>1, GreetType DEF Connect, TypeOK, RoleStates, NextRoundExists
<1>2. ASSUME NEW r \in Roles, StartWorkflow(r)
      PROVE  Typing'
  <2>1. 1 \in Rounds /\ Implementer \in Roles /\ r \in Tasks
    BY ConstantAssumption DEF Rounds, Roles, Tasks
  <2>2. Queue({Step("baseline", x, 1) : x \in Roles} \cup
              {Step("begin", r, 1), Step("decide", r, 1), Step("initial", Implementer, 1),
               Step("started", r, 1)})
    BY <2>1, StepType DEF Queue, Doings
  <2>3. QED
    BY <1>2, <2>1, <2>2, QueueRun, GreetType
       DEF StartWorkflow, TypeOK, RoleStates, WorkflowStates
<1>3. ASSUME NEW r \in Roles, Recover(r)
      PROVE  Typing'
  <2>1. /\ conn' \in [Roles -> {"down", "up", "lost"}]
        /\ UNCHANGED <<round, pending, limit, paused, active, decision, baselined, owed,
                       todo, waits>>
    BY <1>3, GreetType DEF Recover
  <2>2. CASE rstate' = [rstate EXCEPT ![r] = "idle"] /\ UNCHANGED <<asg, workflow>>
    BY <2>1, <2>2 DEF TypeOK, RoleStates, NextRoundExists
  <2>3. CASE /\ Newest(r) # 0
             /\ asg' = [asg EXCEPT ![r][Newest(r)].state = "uncertain"]
             /\ rstate' = [rstate EXCEPT ![r] = "uncertain"]
             /\ workflow' = "uncertain"
    <3>1. Newest(r) \in Ids(r)
      BY <2>3, NewestRow
    <3>2. [asg[r][Newest(r)] EXCEPT !.state = "uncertain"] \in Assignment
      BY <3>1, RowEdit
    <3>3. asg' = [asg EXCEPT ![r] = [asg[r] EXCEPT ![Newest(r)] =
                    [asg[r][Newest(r)] EXCEPT !.state = "uncertain"]]]
      BY <2>3
    <3>4. QED
      BY <2>1, <2>3, <3>1, <3>2, <3>3, RowChange
         DEF TypeOK, RoleStates, WorkflowStates, NextRoundExists
  <2>4. CASE Newest(r) # 0 /\ \E owes \in {"retry", "attention"} : Await(r, Newest(r), owes)
    <3>1. Newest(r) \in Ids(r)
      BY <2>4, NewestRow
    <3>2. QED
      BY <2>1, <2>4, <3>1, AwaitType DEF TypeOK, NextRoundExists
  <2>5. QED
    BY <1>3, <2>2, <2>3, <2>4 DEF Recover
<1>4. ASSUME NEW r \in Roles, Lose(r) \/ Unregister(r)
      PROVE  Typing'
  BY <1>4 DEF Lose, Unregister, durable, TypeOK, RoleStates, NextRoundExists
<1>5. QED
  BY <1>1, <1>2, <1>3, <1>4 DEF Connections

\* The handlers that write the state and the debt of the current row.
LEMMA CurrentStateType ==
  ASSUME Typing, NEW r \in Roles, Working(r),
         NEW st \in {"delivering", "accepted", "uncertain", "completed"},
         asg' = [asg EXCEPT ![r][active[r]].state = st],
         UNCHANGED active
  PROVE  /\ asg' \in [Roles -> Seq(Assignment)]
         /\ \A x \in Roles : active'[x] \in 0..Len(asg'[x])
<1>1. active[r] \in Ids(r) /\ TypeOK
  BY CurrentRow DEF Typing
<1>2. asg' = [asg EXCEPT ![r] = [asg[r] EXCEPT ![active[r]] =
                [asg[r][active[r]] EXCEPT !.state = st]]]
  OBVIOUS
<1>3. [asg[r][active[r]] EXCEPT !.state = st] \in Assignment
  BY <1>1, RowEdit
<1>4. QED
  BY <1>1, <1>2, <1>3, RowChange DEF TypeOK

LEMMA CurrentOwesType ==
  ASSUME Typing, NEW r \in Roles, Working(r),
         NEW owes \in {"report", "reminder", "retry", "attention", "resumed", "nothing"},
         asg' = [asg EXCEPT ![r][active[r]].owes = owes],
         UNCHANGED active
  PROVE  /\ asg' \in [Roles -> Seq(Assignment)]
         /\ \A x \in Roles : active'[x] \in 0..Len(asg'[x])
<1>1. active[r] \in Ids(r) /\ TypeOK
  BY CurrentRow DEF Typing
<1>2. asg' = [asg EXCEPT ![r] = [asg[r] EXCEPT ![active[r]] =
                [asg[r][active[r]] EXCEPT !.owes = owes]]]
  OBVIOUS
<1>3. [asg[r][active[r]] EXCEPT !.owes = owes] \in Assignment
  BY <1>1, RowEdit
<1>4. QED
  BY <1>1, <1>2, <1>3, RowChange DEF TypeOK

LEMMA ReportType ==
  ASSUME Typing, NEW r \in Roles, NEW v \in {"none", "approved", "changes_requested"},
         Report(r, v)
  PROVE  Typing'
<1> DEFINE row == [asg[r][active[r]] EXCEPT !.state = "completed", !.verdict = v,
                                            !.owes = "nothing"]
           q == Current(r).round
<1>1. /\ active[r] \in Ids(r) /\ Current(r) = asg[r][active[r]]
      /\ Current(r) \in Assignment /\ q \in Rounds /\ TypeOK /\ r \in Tasks
  BY CurrentRow DEF Typing, Report, Tasks
<1>2. row \in Assignment
  BY <1>1 DEF Assignment
<1>3. asg' = [asg EXCEPT ![r] = [asg[r] EXCEPT ![active[r]] = row]]
  BY DEF Report
<1>4. /\ asg' \in [Roles -> Seq(Assignment)]
      /\ \A x \in Roles : Len(asg'[x]) = Len(asg[x])
  BY <1>1, <1>2, <1>3, RowChange
<1>5. PICK route \in {"evidence", "planned", "implemented", "approved", "rejected"} :
        /\ route = "rejected" => q < MaxRounds
        /\ Pause(r, {Step(route, r, q)})
  <2>1. Current(r).kind = "review" <=> v # "none"
    BY DEF Report
  <2>2. v = "changes_requested" => q < MaxRounds
    BY DEF Report
  <2>3. Current(r).kind \in {"plan", "implementation", "review", "evidence"}
    BY <1>1 DEF Assignment
  <2>4. CASE Current(r).kind = "evidence"
    BY <2>4 DEF Report
  <2>5. CASE Current(r).kind = "plan"
    BY <2>5 DEF Report
  <2>6. CASE Current(r).kind = "implementation"
    BY <2>6 DEF Report
  <2>7. CASE Current(r).kind = "review" /\ v = "approved"
    BY <2>7 DEF Report
  <2>8. CASE Current(r).kind = "review" /\ v = "changes_requested"
    BY <2>2, <2>8 DEF Report
  <2>9. QED
    BY <2>1, <2>3, <2>4, <2>5, <2>6, <2>7, <2>8
<1>6. Queue({Step(route, r, q)})
  BY <1>1, <1>5, StepType DEF Queue, Doings
<1>7. QED
  BY <1>1, <1>4, <1>5, <1>6, QueuePause DEF Report, Typing, TypeOK, RoleStates

LEMMA MessagesType ==
  ASSUME Typing, Messages
  PROVE  Typing'
<1> USE DEF Typing
<1>1. ASSUME NEW r \in Roles, Ack(r)
      PROVE  Typing'
  <2>1. /\ asg' \in [Roles -> Seq(Assignment)]
        /\ \A x \in Roles : active'[x] \in 0..Len(asg'[x])
    BY <1>1, CurrentStateType DEF Ack
  <2>2. rstate' \in [Roles -> RoleStates]
    BY <1>1 DEF Ack, TypeOK, RoleStates
  <2>3. UNCHANGED <<workflow, round, pending, limit, paused, active, decision, memory>>
    BY <1>1 DEF Ack
  <2>4. QED
    BY <2>1, <2>2, <2>3 DEF memory, TypeOK, NextRoundExists
<1>2. ASSUME NEW r \in Roles, AckUncertain(r)
      PROVE  Typing'
  <2>1. /\ asg' \in [Roles -> Seq(Assignment)]
        /\ \A x \in Roles : active'[x] \in 0..Len(asg'[x])
    BY <1>2, CurrentStateType DEF AckUncertain
  <2>2. QED
    BY <1>2, <2>1 DEF AckUncertain, memory, TypeOK, RoleStates, WorkflowStates, NextRoundExists
<1>3. ASSUME NEW r \in Roles, NEW v \in {"none", "approved", "changes_requested"}, Report(r, v)
      PROVE  Typing'
  BY <1>3, ReportType
<1>4. ASSUME NEW r \in Roles, Remind(r)
      PROVE  Typing'
  BY <1>4, CurrentOwesType DEF Remind, memory, TypeOK, RoleStates, NextRoundExists
<1>5. ASSUME NEW r \in Roles, RecoveryTurn(r)
      PROVE  Typing'
  BY <1>5, CurrentOwesType DEF RecoveryTurn, memory, TypeOK, RoleStates, NextRoundExists
<1>6. ASSUME NEW r \in Roles, RaiseAttention(r) \/ DenyTurn(r)
      PROVE  Typing'
  <2>1. /\ Working(r) /\ Await(r, active[r], "attention") /\ UNCHANGED active
        /\ paused' \in BOOLEAN
        /\ UNCHANGED <<round, pending, limit, decision, memory>>
    BY <1>6 DEF RaiseAttention, DenyTurn, TypeOK
  <2>2. active[r] \in Ids(r)
    BY <2>1, CurrentRow
  <2>3. QED
    BY <2>1, <2>2, AwaitType DEF memory, TypeOK, NextRoundExists
<1>7. ASSUME NEW r \in Roles, NEW st \in {"idle", "active"}, Lifecycle(r, st)
      PROVE  Typing'
  <2>1. rstate' \in [Roles -> RoleStates]
    BY <1>7 DEF Lifecycle, TypeOK, RoleStates
  <2>2. workflow' \in WorkflowStates
    BY <1>7 DEF Lifecycle, TypeOK, WorkflowStates
  <2>3. UNCHANGED <<round, pending, limit, paused, asg, active, decision, memory>>
    BY <1>7 DEF Lifecycle
  <2>4. QED
    BY <2>1, <2>2, <2>3 DEF memory, TypeOK, NextRoundExists
<1>8. QED
  BY <1>1, <1>2, <1>3, <1>4, <1>5, <1>6, <1>7 DEF Messages

\* A step that only moves on: the queue changes and nothing else does.
LEMMA MoveOnType ==
  ASSUME Typing, NEW t \in Tasks, NEW S, Queue(S), Run(t, S) \/ Pause(t, S),
         UNCHANGED <<durable, conn, baselined, owed>>
  PROVE  Typing'
  BY QueueRun, QueuePause DEF Typing, TypeOK, durable

LEMMA StartupType ==
  ASSUME Typing, NEW t \in Tasks, NEW x \in todo[t],
         Baseline(t, x) \/ Begin(t, x) \/ DecideProbe(t, x) \/ Started(t, x) \/ Inform(t, x)
  PROVE  Typing'
<1>1. Queue(Rest(t, x)) /\ x \in Steps /\ x.to \in Roles /\ x.round \in Rounds
  BY QueueRest
<1>2. CASE Baseline(t, x)
  BY <1>2, SendOnlyType DEF Baseline, Typing, TypeOK
<1>3. CASE Begin(t, x)
  <2>1. Published("active") \in WorkflowStates
    BY PublishedType DEF WorkflowStates
  <2>2. QED
    BY <1>1, <1>3, <2>1, QueueRun DEF Begin, Typing, TypeOK
<1>7. CASE DecideProbe(t, x)
  <2>1. CASE Probe \notin Specialists /\ UNCHANGED decision /\ Pause(t, Rest(t, x))
    BY <1>1, <1>7, <2>1, QueuePause DEF DecideProbe, Typing, TypeOK
  <2>2. CASE Probe \in Specialists /\ \E d \in Choices(Probe) :
               /\ decision' = [decision EXCEPT ![Probe][1] = d]
               /\ Pause(t, Rest(t, x) \cup IF d = "run" THEN {Step("probe", Probe, 1)} ELSE {})
    <3>1. PICK d \in Choices(Probe) :
               /\ decision' = [decision EXCEPT ![Probe][1] = d]
               /\ Pause(t, Rest(t, x) \cup IF d = "run" THEN {Step("probe", Probe, 1)} ELSE {})
      BY <2>2
    <3>2. Probe \in Roles /\ 1 \in Rounds
      BY <2>2, ConstantAssumption DEF Roles, Rounds
    <3>3. Queue(Rest(t, x) \cup IF d = "run" THEN {Step("probe", Probe, 1)} ELSE {})
      BY <1>1, <3>2, StepType DEF Queue, Doings
    <3>4. d \in Decisions
      BY DEF Choices, Decisions
    <3>5. decision' \in [Specialists -> [Rounds -> Decisions]]
      BY <3>1, <3>4 DEF Typing, TypeOK
    <3>6. QED
      BY <1>7, <3>1, <3>3, <3>5, QueuePause DEF DecideProbe, Typing, TypeOK
  <2>3. QED
    BY <1>7, <2>1, <2>2 DEF DecideProbe
<1>4. CASE Started(t, x)
  BY <1>1, <1>4, MoveOnType DEF Started
<1>5. CASE Inform(t, x)
  <2>1. owed' \subseteq Roles
    BY <1>1, <1>5 DEF Inform, Typing, TypeOK
  <2>2. CASE SendOnly(t, x)
    BY <2>1, <2>2, SendOnlyType
  <2>3. CASE Run(t, Rest(t, x)) /\ UNCHANGED <<durable, conn, baselined>>
    BY <1>1, <2>1, <2>3, QueueRun DEF Typing, TypeOK, durable
  <2>4. QED
    BY <1>5, <2>2, <2>3 DEF Inform
<1>6. QED
  BY <1>2, <1>3, <1>4, <1>5, <1>7

LEMMA RoutingType ==
  ASSUME Typing, NEW t \in Tasks, NEW x \in todo[t],
         \/ RouteEvidence(t, x) \/ RoutePlan(t, x) \/ RouteImplementation(t, x)
         \/ RouteApproval(t, x) \/ RouteRejection(t, x) \/ Advance(t, x)
  PROVE  Typing'
<1> DEFINE q == x.round
<1>1. x \in Steps /\ q \in Rounds /\ Implementer \in Roles /\ Reviewer \in Roles
  BY QueueRest DEF Roles
<1>2. \A S : Queue(S) => \A T : Queue(T) => Queue(S \cup T)
  BY DEF Queue
<1>3. /\ \A r \in Roles : Queue({Step("inform", r, q)}) /\ Queue({Step("assign", r, q)})
      /\ Queue({Step("gate", Reviewer, q)}) /\ Queue({})
  BY <1>1, StepType DEF Queue, Doings
<1>4. CASE RouteEvidence(t, x)
  <2>1. Queue({Step("inform", Implementer, q), Step("inform", Reviewer, q),
               Step("gate", Reviewer, q)})
    BY <1>1, StepType DEF Queue, Doings
  <2>2. QED
    BY <1>4, <2>1, MoveOnType DEF RouteEvidence
<1>5. CASE RoutePlan(t, x)
  <2>1. Queue({Step("inform", Implementer, q)} \cup
              IF Phased THEN {Step("assign", Implementer, q)} ELSE {})
    BY <1>1, <1>2, <1>3
  <2>2. QED
    BY <1>5, <2>1, MoveOnType DEF RoutePlan
<1>6. CASE RouteImplementation(t, x)
  <2>1. PICK run \in SUBSET Undecided(q) :
          /\ decision' = [s \in Specialists |->
                           IF s \in Undecided(q)
                           THEN [decision[s] EXCEPT ![q] = IF s \in run THEN "run" ELSE "skipped"]
                           ELSE decision[s]]
          /\ Run(t, {Step("inform", s, q) : s \in run \cup {Reviewer}} \cup
                     {Step("assign", s, q) : s \in run} \cup {Step("gate", Reviewer, q)})
    BY <1>6 DEF RouteImplementation
  <2>2. run \subseteq Roles
    BY DEF Undecided, Roles
  <2>3. Queue({Step("inform", s, q) : s \in run \cup {Reviewer}})
    BY <1>1, <2>2, StepType DEF Queue, Doings
  <2>4. Queue({Step("assign", s, q) : s \in run})
    BY <1>1, <2>2, StepType DEF Queue, Doings
  <2>5. Queue({Step("inform", s, q) : s \in run \cup {Reviewer}} \cup
              {Step("assign", s, q) : s \in run} \cup {Step("gate", Reviewer, q)})
    BY <1>2, <1>3, <2>3, <2>4
  <2>6. decision' \in [Specialists -> [Rounds -> Decisions]]
    BY <1>1, <2>1 DEF Typing, TypeOK, Decisions
  <2>7. QED
    BY <1>6, <2>1, <2>5, <2>6, QueueRun DEF RouteImplementation, Typing, TypeOK
<1>7. CASE RouteApproval(t, x)
  <2>1. Published("ready") \in WorkflowStates
    BY PublishedType DEF WorkflowStates
  <2>2. QED
    BY <1>3, <1>7, <2>1, QueueRun DEF RouteApproval, Typing, TypeOK
<1>8. CASE RouteRejection(t, x)
  <2>1. q < MaxRounds
    BY <1>8 DEF RouteRejection, Takes, Typing, NextRoundExists
  <2>2. Queue({Step("inform", Implementer, q), Step("advance", Implementer, q)})
    BY <1>1, <2>1, StepType DEF Queue, Doings
  <2>3. QED
    BY <1>8, <2>2, MoveOnType DEF RouteRejection
<1>9. CASE Advance(t, x)
  <2>1. q < MaxRounds
    BY <1>9 DEF Advance, Takes, Typing, NextRoundExists
  <2>2. q + 1 \in Rounds
    BY <1>1, <2>1, ConstantAssumption DEF Rounds
  <2>3. QED
    BY <1>9, <2>2, OpenRoundType DEF Advance
<1>10. QED
  BY <1>4, <1>5, <1>6, <1>7, <1>8, <1>9

LEMMA DeliveryType ==
  ASSUME Typing, NEW t \in Tasks,
         \/ \E x \in todo[t] : Assignments(t, x) \/ Gate(t, x)
         \/ Drained(t) \/ DrainFails(t)
  PROVE  Typing'
<1>1. ASSUME NEW x \in todo[t], Assignments(t, x)
      PROVE  Typing'
  <2>1. Queue(Rest(t, x)) /\ x.to \in Roles /\ x.round \in Rounds
    BY QueueRest
  <2>2. CASE Assign(t, x.to, x.round, Rest(t, x))
    BY <1>1, <2>1, <2>2, AssignType DEF Assignments
  <2>3. CASE Insert(t, x.to, x.round, Rest(t, x)) /\ UNCHANGED owed
    BY <1>1, <2>1, <2>3, InsertType DEF Assignments, Typing, TypeOK
  <2>4. QED
    BY <1>1, <2>2, <2>3 DEF Assignments
<1>2. ASSUME NEW x \in todo[t], Gate(t, x)
      PROVE  Typing'
  <2>1. Queue(Rest(t, x)) /\ x.round \in Rounds /\ Reviewer \in Roles
    BY QueueRest DEF Roles
  <2>2. CASE Assign(t, Reviewer, x.round, Rest(t, x))
    BY <1>2, <2>1, <2>2, AssignType DEF Gate
  <2>3. CASE Run(t, Rest(t, x)) /\ UNCHANGED <<workflow, pending, asg, active, rstate, conn, owed>>
    BY <1>2, <2>1, <2>3, QueueRun DEF Gate, Typing, TypeOK
  <2>4. QED
    BY <1>2, <2>2, <2>3 DEF Gate
<1>3. CASE Drained(t)
  BY <1>3, MoveOnType DEF Drained, Queue
<1>4. CASE DrainFails(t)
  BY <1>4, AbandonType, OutcomeType DEF DrainFails, Typing, TypeOK
<1>5. QED
  BY <1>1, <1>2, <1>3, <1>4

LEMMA OperatorStepType ==
  ASSUME Typing, NEW t \in Tasks, NEW x \in todo[t],
         Resume(t, x) \/ Reopened(t, x) \/ Confirm(t, x) \/ Answer(t, x)
  PROVE  Typing'
<1>1. /\ x \in Steps /\ x.to \in Roles /\ x.round \in Rounds /\ Queue({})
      /\ Implementer \in Roles
  BY QueueRest DEF Queue, Roles
<1>2. CASE Resume(t, x)
  <2>1. /\ asg' \in [Roles -> Seq(Assignment)]
        /\ \A r \in Roles : active'[r] \in 0..Len(asg'[r])
    <3>1. CASE Working(x.to) /\ asg' = [asg EXCEPT ![x.to][active[x.to]].owes = "resumed"]
      BY <1>1, <1>2, <3>1, CurrentOwesType DEF Resume
    <3>2. CASE UNCHANGED asg
      BY <1>2, <3>2 DEF Resume, Typing, TypeOK
    <3>3. QED
      BY <1>2, <3>1, <3>2 DEF Resume
  <2>2. rstate' \in [Roles -> RoleStates]
    BY <1>2 DEF Resume, Typing, TypeOK, RoleStates
  <2>3. workflow' \in WorkflowStates
    BY <1>2, PublishedType DEF Resume, Typing, TypeOK, WorkflowStates
  <2>4. QED
    BY <1>1, <1>2, <2>1, <2>2, <2>3, QueueRun DEF Resume, Typing, TypeOK
<1>3. CASE Reopened(t, x)
  BY <1>1, <1>3, OpenRoundType DEF Reopened
<1>4. CASE Confirm(t, x)
  <2>1. Queue({Step("answer", Implementer, x.round)})
    BY <1>1, StepType DEF Queue, Doings
  <2>2. CASE workflow' = "uncertain" /\ Run(t, {})
    BY <1>1, <1>4, <2>2, QueueRun DEF Confirm, Typing, TypeOK, WorkflowStates
  <2>3. CASE Pause(t, {Step("answer", Implementer, x.round)}) /\ UNCHANGED workflow
    BY <1>4, <2>1, <2>3, QueuePause DEF Confirm, Typing, TypeOK
  <2>4. QED
    BY <1>4, <2>2, <2>3 DEF Confirm
<1>5. CASE Answer(t, x)
  BY <1>1, <1>5, MoveOnType DEF Answer
<1>6. QED
  BY <1>2, <1>3, <1>4, <1>5

LEMMA ControlsType ==
  ASSUME Typing, Controls \/ ExtendCalls
  PROVE  Typing'
<1>1. ASSUME NEW o \in Operators, NEW r \in Roles, Send(o, r)
      PROVE  Typing'
  <2>1. o \in Tasks /\ round \in Rounds
    BY DEF Tasks, Typing, TypeOK
  <2>2. Queue({Step("resume", r, round)})
    BY <2>1, StepType DEF Queue, Doings
  <2>3. QED
    BY <1>1, <2>1, <2>2, QueueDrain DEF Send, durable, Typing, TypeOK
<1>2. ASSUME NEW o \in Operators, Reopen(o)
      PROVE  Typing'
  <2>1. o \in Tasks /\ Implementer \in Roles /\ round + 1 \in Rounds
    BY <1>2, ConstantAssumption DEF Tasks, Roles, Reopen, Typing, TypeOK, Rounds
  <2>2. Queue({Step("reopen", Implementer, round + 1)})
    BY <2>1, StepType DEF Queue, Doings
  <2>3. QED
    BY <1>2, <2>1, <2>2, QueueDrain DEF Reopen, durable, Typing, TypeOK
<1>3. ASSUME NEW o \in Operators, ApproveRepair(o)
      PROVE  Typing'
  <2>1. o \in Tasks /\ Implementer \in Roles /\ pending \in Rounds
    BY <1>3, ConstantAssumption
       DEF Tasks, Roles, ApproveRepair, RepairHeld, Typing, TypeOK, Rounds
  <2>2. Queue({Step("assign", Implementer, pending), Step("confirm", Implementer, pending)})
    BY <2>1, StepType DEF Queue, Doings
  <2>3. limit' \in Nat
    BY <1>3, AdmittedType DEF ApproveRepair, Typing, TypeOK
  <2>4. QED
    BY <1>3, <2>1, <2>2, <2>3, QueueRun DEF ApproveRepair, Typing, TypeOK, WorkflowStates
<1>4. ASSUME NEW o \in Operators, HangUp(o)
      PROVE  Typing'
  <2>1. o \in Tasks
    BY DEF Tasks
  <2>2. QED
    BY <1>4, <2>1, AbandonType, OutcomeType DEF HangUp, Typing, TypeOK
<1>5. CASE ExtendCalls
  BY <1>5 DEF ExtendCalls, memory, Typing, TypeOK, NextRoundExists
<1>6. QED
  BY <1>1, <1>2, <1>3, <1>4, <1>5 DEF Controls

LEMMA InitTyping == Init => Typing
<1> SUFFICES ASSUME Init
             PROVE  Typing
  OBVIOUS
<1>1. 1 \in Rounds /\ 0 \in 0..MaxRounds /\ RepairLimit \in Nat
  BY ConstantAssumption DEF Rounds
<1>2. /\ asg \in [Roles -> Seq(Assignment)]
      /\ active \in [Roles -> Nat]
      /\ \A r \in Roles : active[r] \in 0..Len(asg[r])
  BY DEF Init
<1>3. decision \in [Specialists -> [Rounds -> Decisions]]
  BY DEF Init, Decisions
<1>4. todo \in [Tasks -> SUBSET Steps] /\ NextRoundExists
  BY DEF Init, NextRoundExists
<1>5. QED
  BY <1>1, <1>2, <1>3, <1>4 DEF Init, Typing, TypeOK, WorkflowStates, RoleStates

LEMMA NextTyping == Typing /\ [Next]_vars => Typing'
<1> SUFFICES ASSUME Typing, [Next]_vars
             PROVE  Typing'
  OBVIOUS
<1>1. ASSUME NEW t \in Tasks, Continuation(t)
      PROVE  Typing'
  BY <1>1, StartupType, RoutingType, DeliveryType, OperatorStepType DEF Continuation
<1>2. CASE Connections
  BY <1>2, ConnectionsType
<1>3. CASE Messages
  BY <1>3, MessagesType
<1>4. CASE Controls \/ ExtendCalls
  BY <1>4, ControlsType
<1>5. CASE Restart
  BY <1>5 DEF Restart, Typing, TypeOK, NextRoundExists, WorkflowStates
<1>6. CASE UNCHANGED vars
  BY <1>6 DEF vars, durable, memory, Typing, TypeOK, NextRoundExists
<1>7. QED
  BY <1>1, <1>2, <1>3, <1>4, <1>5, <1>6 DEF Next, Turn

\* Whatever the roster, the limits and the faults, the broker's state is well typed: no
\* handler opens a round past the last, and none queues work for a round that is not.
THEOREM TypeCorrect == Spec => []TypeOK
<1>1. Init => Typing
  BY InitTyping
<1>2. Typing /\ [Next]_vars => Typing'
  BY NextTyping
<1>3. Typing => TypeOK
  BY DEF Typing
<1>4. QED
  BY <1>1, <1>2, <1>3, PTL DEF Spec

-----------------------------------------------------------------------------
(* What a step does to the assignment tables: it edits rows without        *)
(* touching their round or kind and without reviving a completed one, or   *)
(* it adds one row, which the repair limit allows.                         *)

SameRows ==
  \A r \in Roles : /\ Len(asg'[r]) = Len(asg[r])
                   /\ \A i \in Ids(r) : /\ asg'[r][i].round = asg[r][i].round
                                        /\ asg'[r][i].kind = asg[r][i].kind
                                        /\ asg[r][i].state = "completed"
                                             => asg'[r][i].state = "completed"

NewRow(r, q) ==
  /\ ~RepairLimitReached(r, q)
  /\ \E kind \in {"plan", "implementation", "review", "evidence"} : Create(r, q, kind)

\* A role with an assignment works on an unfinished one.
ActiveUnfinished == \A r \in Roles : Working(r) => Current(r).state # "completed"

LEMMA StateKeepsRows ==
  ASSUME TypeOK, NEW r \in Roles, NEW n \in Ids(r), asg[r][n].state # "completed",
         NEW st \in {"accepted", "uncertain"},
         asg' = [asg EXCEPT ![r][n].state = st]
  PROVE  /\ SameRows
         /\ \A x \in Roles : \A i \in Ids(x) :
              asg'[x][i].state = asg[x][i].state \/ asg'[x][i].state # "completed"
<1> DEFINE e == [asg[r][n] EXCEPT !.state = st]
<1>1. asg[r][n] \in Assignment /\ e \in Assignment /\ asg[r] \in Seq(Assignment)
  BY RowEdit DEF TypeOK
<1>2. e.round = asg[r][n].round /\ e.kind = asg[r][n].kind /\ e.state = st
  BY <1>1 DEF Assignment
<1>3. asg'[r] = [asg[r] EXCEPT ![n] = e] /\ \A x \in Roles \ {r} : asg'[x] = asg[x]
  BY DEF TypeOK
<1>4. /\ Len(asg'[r]) = Len(asg[r])
      /\ \A j \in Ids(r) : asg'[r][j] = IF j = n THEN e ELSE asg[r][j]
  BY <1>1, <1>3, RowType DEF Ids
<1> HIDE DEF e
<1>5. QED
  BY <1>2, <1>3, <1>4 DEF SameRows

LEMMA OwesKeepsRows ==
  ASSUME TypeOK, NEW r \in Roles, NEW n \in Ids(r),
         NEW owes \in {"report", "reminder", "retry", "attention", "resumed", "nothing"},
         asg' = [asg EXCEPT ![r][n].owes = owes]
  PROVE  /\ SameRows
         /\ \A x \in Roles : \A i \in Ids(x) : asg'[x][i].state = asg[x][i].state
<1> DEFINE e == [asg[r][n] EXCEPT !.owes = owes]
<1>1. asg[r][n] \in Assignment /\ e \in Assignment /\ asg[r] \in Seq(Assignment)
  BY RowEdit DEF TypeOK
<1>2. e.round = asg[r][n].round /\ e.kind = asg[r][n].kind /\ e.state = asg[r][n].state
  BY <1>1 DEF Assignment
<1>3. asg'[r] = [asg[r] EXCEPT ![n] = e] /\ \A x \in Roles \ {r} : asg'[x] = asg[x]
  BY DEF TypeOK
<1>4. /\ Len(asg'[r]) = Len(asg[r])
      /\ \A j \in Ids(r) : asg'[r][j] = IF j = n THEN e ELSE asg[r][j]
  BY <1>1, <1>3, RowType DEF Ids
<1> HIDE DEF e
<1>5. QED
  BY <1>2, <1>3, <1>4 DEF SameRows

\* An edit that leaves the pointers and the states of the current rows alone, or moves
\* them between unfinished states.
LEMMA EditKeepsActive ==
  ASSUME TypeOK, ActiveUnfinished, UNCHANGED active,
         \A x \in Roles : \A i \in Ids(x) :
            asg'[x][i].state = asg[x][i].state \/ asg'[x][i].state # "completed"
  PROVE  ActiveUnfinished'
<1>1. ASSUME NEW x \in Roles, Working(x)'
      PROVE  Current(x)'.state # "completed"
  <2>1. Working(x) /\ Current(x).state # "completed" /\ active[x] \in Ids(x)
    BY <1>1, CurrentRow DEF Working, ActiveUnfinished
  <2>2. QED
    BY <2>1 DEF Current
<1>2. QED
  BY <1>1 DEF ActiveUnfinished

LEMMA CreateKeepsRows ==
  ASSUME TypeOK, NEW r \in Roles, NEW q, NEW kind, Create(r, q, kind)
  PROVE  /\ Len(asg'[r]) = Len(asg[r]) + 1 /\ Len(asg[r]) \in Nat
         /\ asg'[r][Len(asg[r]) + 1] = New(q, kind)
         /\ \A i \in Ids(r) : asg'[r][i] = asg[r][i]
         /\ \A x \in Roles \ {r} : asg'[x] = asg[x]
         /\ active'[r] = Len(asg[r]) + 1
         /\ \A x \in Roles \ {r} : active'[x] = active[x]
<1>1. asg[r] \in Seq(Assignment)
  BY DEF TypeOK
<1>2. asg' = [asg EXCEPT ![r] = Append(asg[r], New(q, kind))]
  BY DEF Create
<1>3. asg'[r] = Append(asg[r], New(q, kind)) /\ \A x \in Roles \ {r} : asg'[x] = asg[x]
  BY <1>2 DEF TypeOK
<1>4. active'[r] = Len(asg[r]) + 1 /\ \A x \in Roles \ {r} : active'[x] = active[x]
  BY DEF Create, TypeOK
<1>5. QED
  BY <1>1, <1>3, <1>4 DEF Ids

LEMMA CreateKeepsActive ==
  ASSUME TypeOK, ActiveUnfinished, NEW r \in Roles, NEW q, NEW kind, Create(r, q, kind)
  PROVE  ActiveUnfinished'
<1>1. ASSUME NEW x \in Roles, Working(x)'
      PROVE  Current(x)'.state # "completed"
  <2>1. CASE x = r
    <3>1. active'[r] = Len(asg[r]) + 1 /\ asg'[r][Len(asg[r]) + 1] = New(q, kind)
      BY CreateKeepsRows
    <3>2. Current(r)' = New(q, kind)
      BY <3>1 DEF Current
    <3>3. QED
      BY <2>1, <3>2 DEF New
  <2>2. CASE x # r
    BY <1>1, <2>2, CreateKeepsRows DEF Current, Working, ActiveUnfinished
  <2>3. QED
    BY <2>1, <2>2
<1>2. QED
  BY <1>1 DEF ActiveUnfinished

-----------------------------------------------------------------------------
(* Why a review has its evidence.  The gate is passed before the capsule   *)
(* of a retained reviewer is sent and before its row is inserted, and both *)
(* may take long; the strengthening says that the evidence the gate saw    *)
(* stays: rows and skips are never taken back, nothing but the gate queues *)
(* a review, and a forced specialist is never skipped.                     *)

ReviewQueue(S) ==
  \A x \in S : x.to = Reviewer => /\ x.do \notin {"initial", "probe", "assign"}
                                  /\ x.do = "insert" => Evidenced(x.round)

ForcedRun == \A s \in Forced : \A q \in Rounds : decision[s][q] # "skipped"

EvidenceInv ==
  /\ Typing
  /\ ActiveUnfinished
  /\ ForcedRun
  /\ \A t \in Tasks : ReviewQueue(todo[t])
  /\ ReviewHasEvidence

\* What a step does to rows, decisions and queues, in terms of the state before it.
RowsStep ==
  \/ SameRows
  \/ \E r \in Roles, q \in Rounds :
       NewRow(r, q) /\ UNCHANGED <<limit, decision>> /\ (r = Reviewer => Evidenced(q))

DecisionsKept ==
  \A s \in Specialists : \A q \in Rounds :
    /\ decision[s][q] = "skipped" => decision'[s][q] = "skipped"
    /\ s \in Forced => decision'[s][q] # "skipped"

StepOK == /\ RowsStep
          /\ ActiveUnfinished'
          /\ DecisionsKept
          /\ \A t \in Tasks : ReviewQueue(todo'[t])

LEMMA TodoIs ==
  ASSUME TypeOK, NEW t \in Tasks, NEW S, NEW r,
         Run(t, S) \/ Pause(t, S) \/ Drain(t, r, S)
  PROVE  \A u \in Tasks : todo'[u] = IF u = t THEN S ELSE todo[u]
  BY DEF Run, Pause, Drain, TypeOK

LEMMA AbandonTodo ==
  ASSUME TypeOK, NEW t \in Tasks, Abandon(t)
  PROVE  \A u \in Tasks : todo'[u] = IF u = t THEN {} ELSE todo[u]
  BY DEF Abandon, Run, TypeOK

LEMMA SameDecisions ==
  ASSUME EvidenceInv, UNCHANGED decision
  PROVE  DecisionsKept
  BY ConstantAssumption DEF EvidenceInv, ForcedRun, DecisionsKept

LEMMA SameTables ==
  ASSUME EvidenceInv, UNCHANGED <<asg, active>>
  PROVE  SameRows /\ ActiveUnfinished'
  BY DEF EvidenceInv, SameRows, ActiveUnfinished, Working, Current

\* A step that leaves rows, pointers and decisions alone and queues no review.
LEMMA QuietStep ==
  ASSUME EvidenceInv, UNCHANGED <<asg, active, decision>>,
         \A t \in Tasks : ReviewQueue(todo'[t])
  PROVE  StepOK
  BY SameTables, SameDecisions DEF StepOK, RowsStep

LEMMA GateHasEvidence ==
  ASSUME EvidenceInv, NEW q \in Rounds, GateOpen(q)
  PROVE  Evidenced(q)
<1>1. PICK i \in Ids(Implementer) : /\ asg[Implementer][i].round = q
                                   /\ asg[Implementer][i].state = "completed"
                                   /\ asg[Implementer][i].kind = "implementation"
  BY DEF GateOpen, Implemented, Reports
<1>2. ASSUME NEW s \in Specialists
      PROVE  (decision[s][q] = "skipped" /\ s \notin Forced) \/ Delivered(s, q)
  BY DEF GateOpen, EvidenceComplete, Reports, Delivered, EvidenceInv, ForcedRun
<1>3. QED
  BY <1>1, <1>2 DEF Evidenced

LEMMA InsertStep ==
  ASSUME EvidenceInv, NEW t \in Tasks, NEW r \in Roles, NEW q \in Rounds, NEW S,
         Insert(t, r, q, S), r = Reviewer => Evidenced(q), ReviewQueue(S),
         UNCHANGED <<limit, decision>>
  PROVE  StepOK
<1>1. CASE RepairLimitReached(r, q)
  <2>1. Pause(t, S) /\ UNCHANGED <<asg, active>>
    BY <1>1 DEF Insert
  <2>2. \A u \in Tasks : ReviewQueue(todo'[u])
    BY <2>1, TodoIs DEF EvidenceInv, Typing
  <2>3. QED
    BY <2>1, <2>2, QuietStep
<1>2. CASE ~RepairLimitReached(r, q)
  <2>1. Create(r, q, KindFor(t, r))
    BY <1>2 DEF Insert
  <2>2. KindFor(t, r) \in {"plan", "implementation", "review", "evidence"}
    BY DEF KindFor
  <2>3. RowsStep
    BY <1>2, <2>1, <2>2 DEF RowsStep, NewRow
  <2>4. ActiveUnfinished'
    BY <2>1, CreateKeepsActive DEF EvidenceInv, Typing
  <2>5. Drain(t, r, S) \/ Abandon(t)
    BY <1>2 DEF Insert
  <2>6. ReviewQueue({})
    BY DEF ReviewQueue
  <2>7. \A u \in Tasks : ReviewQueue(todo'[u])
    BY <2>5, <2>6, TodoIs, AbandonTodo DEF EvidenceInv, Typing
  <2>8. QED
    BY <2>3, <2>4, <2>7, SameDecisions DEF StepOK
<1>3. QED
  BY <1>1, <1>2

LEMMA AssignStep ==
  ASSUME EvidenceInv, NEW t \in Tasks, NEW r \in Roles, NEW q \in Rounds, NEW S,
         Assign(t, r, q, S), r = Reviewer => Evidenced(q), ReviewQueue(S),
         UNCHANGED <<limit, decision>>
  PROVE  StepOK
<1>1. ReviewQueue({}) /\ ReviewQueue(S \cup {Step("insert", r, q)})
  BY DEF ReviewQueue, Step
<1>2. CASE ~Known(r)
  <2>1. Run(t, S) /\ UNCHANGED <<asg, active>>
    BY <1>2 DEF Assign
  <2>2. \A u \in Tasks : ReviewQueue(todo'[u])
    BY <2>1, TodoIs DEF EvidenceInv, Typing
  <2>3. QED
    BY <2>1, <2>2, QuietStep
<1>3. CASE Known(r) /\ r \in owed \cup Retained
  <2>1. /\ Drain(t, r, S \cup {Step("insert", r, q)}) \/ Abandon(t)
        /\ UNCHANGED <<asg, active>>
    BY <1>3 DEF Assign
  <2>2. \A u \in Tasks : ReviewQueue(todo'[u])
    BY <1>1, <2>1, TodoIs, AbandonTodo DEF EvidenceInv, Typing
  <2>3. QED
    BY <2>1, <2>2, QuietStep
<1>4. CASE Known(r) /\ r \notin owed \cup Retained
  BY <1>4, InsertStep DEF Assign
<1>5. QED
  BY <1>2, <1>3, <1>4

LEMMA RestReview ==
  ASSUME EvidenceInv, NEW t \in Tasks, NEW x \in todo[t]
  PROVE  ReviewQueue(Rest(t, x)) /\ ReviewQueue({}) /\ x.to \in Roles /\ x.round \in Rounds
  BY QueueRest DEF EvidenceInv, ReviewQueue, Rest

\* The queue of one task changes, to one that queues no unfounded review.
LEMMA TaskReview ==
  ASSUME EvidenceInv, NEW t \in Tasks, NEW S, ReviewQueue(S), NEW r,
         Run(t, S) \/ Pause(t, S) \/ Drain(t, r, S)
  PROVE  \A u \in Tasks : ReviewQueue(todo'[u])
  BY TodoIs DEF EvidenceInv, Typing

LEMMA AbandonReview ==
  ASSUME EvidenceInv, NEW t \in Tasks, Abandon(t)
  PROVE  \A u \in Tasks : ReviewQueue(todo'[u])
  BY AbandonTodo DEF EvidenceInv, Typing, ReviewQueue

LEMMA SameTodo ==
  ASSUME EvidenceInv, UNCHANGED todo
  PROVE  \A u \in Tasks : ReviewQueue(todo'[u])
  BY DEF EvidenceInv

LEMMA ConnectionsStep ==
  ASSUME EvidenceInv, Connections
  PROVE  StepOK
<1> USE DEF EvidenceInv, Typing
<1>1. ASSUME NEW r \in Roles, Connect(r) \/ Lose(r) \/ Unregister(r)
      PROVE  StepOK
  <2>1. UNCHANGED <<asg, active, decision, todo>>
    BY <1>1 DEF Connect, Lose, Unregister, durable
  <2>2. QED
    BY <2>1, QuietStep, SameTodo
<1>2. ASSUME NEW r \in Roles, StartWorkflow(r)
      PROVE  StepOK
  <2> DEFINE S == {Step("baseline", x, 1) : x \in Roles} \cup
                  {Step("begin", r, 1), Step("decide", r, 1), Step("initial", Implementer, 1),
                   Step("started", r, 1)}
  <2>1. Run(r, S) /\ UNCHANGED <<asg, active, decision>> /\ r \in Tasks
    BY <1>2 DEF StartWorkflow, Tasks
  <2>2. ReviewQueue(S)
    BY DEF ReviewQueue, Step, Implementer, Reviewer
  <2>3. QED
    BY <2>1, <2>2, TaskReview, QuietStep
<1>3. ASSUME NEW r \in Roles, Recover(r)
      PROVE  StepOK
  <2>1. UNCHANGED <<active, decision, todo>>
    BY <1>3 DEF Recover
  <2>2. CASE UNCHANGED asg
    BY <2>1, <2>2, QuietStep, SameTodo
  <2>3. CASE Newest(r) # 0 /\ asg' = [asg EXCEPT ![r][Newest(r)].state = "uncertain"]
    <3>1. Newest(r) \in Ids(r) /\ asg[r][Newest(r)].state # "completed"
      BY <2>3, NewestRow
    <3>2. /\ SameRows
          /\ \A x \in Roles : \A i \in Ids(x) :
               asg'[x][i].state = asg[x][i].state \/ asg'[x][i].state # "completed"
      BY <2>3, <3>1, StateKeepsRows
    <3>3. QED
      BY <2>1, <3>2, EditKeepsActive, SameDecisions, SameTodo DEF StepOK, RowsStep
  <2>4. CASE Newest(r) # 0 /\ \E owes \in {"retry", "attention"} :
                asg' = [asg EXCEPT ![r][Newest(r)].owes = owes]
    <3>1. Newest(r) \in Ids(r)
      BY <2>4, NewestRow
    <3>2. /\ SameRows
          /\ \A x \in Roles : \A i \in Ids(x) : asg'[x][i].state = asg[x][i].state
      BY <2>4, <3>1, OwesKeepsRows
    <3>3. QED
      BY <2>1, <3>2, EditKeepsActive, SameDecisions, SameTodo DEF StepOK, RowsStep
  <2>5. QED
    BY <1>3, <2>2, <2>3, <2>4 DEF Recover, Await
<1>4. QED
  BY <1>1, <1>2, <1>3 DEF Connections

LEMMA MessagesStep ==
  ASSUME EvidenceInv, Messages
  PROVE  StepOK
<1> USE DEF EvidenceInv, Typing
<1>1. ASSUME NEW r \in Roles, Working(r), UNCHANGED <<active, decision, todo>>,
             NEW st \in {"accepted", "uncertain"},
             asg' = [asg EXCEPT ![r][active[r]].state = st]
      PROVE  StepOK
  <2>1. active[r] \in Ids(r) /\ asg[r][active[r]].state # "completed"
    BY <1>1, CurrentRow DEF ActiveUnfinished
  <2>2. /\ SameRows
        /\ \A x \in Roles : \A i \in Ids(x) :
             asg'[x][i].state = asg[x][i].state \/ asg'[x][i].state # "completed"
    BY <1>1, <2>1, StateKeepsRows
  <2>3. QED
    BY <1>1, <2>2, EditKeepsActive, SameDecisions, SameTodo DEF StepOK, RowsStep
<1>2. ASSUME NEW r \in Roles, Working(r), UNCHANGED <<active, decision, todo>>,
             NEW owes \in {"reminder", "retry", "attention"},
             asg' = [asg EXCEPT ![r][active[r]].owes = owes]
      PROVE  StepOK
  <2>1. active[r] \in Ids(r)
    BY <1>2, CurrentRow
  <2>2. /\ SameRows
        /\ \A x \in Roles : \A i \in Ids(x) : asg'[x][i].state = asg[x][i].state
    BY <1>2, <2>1, OwesKeepsRows
  <2>3. QED
    BY <1>2, <2>2, EditKeepsActive, SameDecisions, SameTodo DEF StepOK, RowsStep
<1>3. ASSUME NEW r \in Roles, NEW v \in {"none", "approved", "changes_requested"}, Report(r, v)
      PROVE  StepOK
  <2> DEFINE e == [asg[r][active[r]] EXCEPT !.state = "completed", !.verdict = v,
                                            !.owes = "nothing"]
  <2>1. active[r] \in Ids(r) /\ asg[r][active[r]] \in Assignment /\ r \in Tasks
    BY <1>3, CurrentRow DEF Report, Tasks
  <2>2. e \in Assignment /\ e.round = asg[r][active[r]].round
        /\ e.kind = asg[r][active[r]].kind /\ e.state = "completed"
    BY <2>1 DEF Assignment
  <2>3. asg' = [asg EXCEPT ![r] = [asg[r] EXCEPT ![active[r]] = e]]
    BY <1>3 DEF Report
  <2>4. asg'[r] = [asg[r] EXCEPT ![active[r]] = e] /\ \A x \in Roles \ {r} : asg'[x] = asg[x]
    BY <2>3 DEF TypeOK
  <2>5. /\ Len(asg'[r]) = Len(asg[r])
        /\ \A j \in Ids(r) : asg'[r][j] = IF j = active[r] THEN e ELSE asg[r][j]
    BY <2>1, <2>2, <2>4, RowType DEF TypeOK, Ids
  <2>6. SameRows
    <3> HIDE DEF e
    <3> QED BY <2>2, <2>4, <2>5 DEF SameRows
  <2>7. active' = [active EXCEPT ![r] = 0] /\ UNCHANGED decision
    BY <1>3 DEF Report
  <2>8. ActiveUnfinished'
    <3>1. ASSUME NEW x \in Roles, Working(x)'
          PROVE  Current(x)'.state # "completed"
      <4>1. x # r /\ active'[x] = active[x]
        BY <2>7, <3>1 DEF Working, TypeOK
      <4>2. QED
        BY <2>4, <3>1, <4>1 DEF ActiveUnfinished, Working, Current
    <3>2. QED
      BY <3>1 DEF ActiveUnfinished
  <2>9. PICK x : Pause(r, {x}) /\ x.do \in {"evidence", "planned", "implemented", "approved", "rejected"}
    <3> DEFINE route == CASE Current(r).kind = "evidence"       -> "evidence"
                          [] Current(r).kind = "plan"           -> "planned"
                          [] Current(r).kind = "implementation" -> "implemented"
                          [] v = "approved"                     -> "approved"
                          [] OTHER                              -> "rejected"
    <3>1. Pause(r, {Step(route, r, Current(r).round)})
      BY <1>3 DEF Report
    <3>2. route \in {"evidence", "planned", "implemented", "approved", "rejected"}
      OBVIOUS
    <3>3. Step(route, r, Current(r).round).do = route
      BY DEF Step
    <3> HIDE DEF route
    <3>4. QED
      BY <3>1, <3>2, <3>3
  <2>10. ReviewQueue({x})
    BY <2>9 DEF ReviewQueue
  <2>11. QED
    BY <2>1, <2>6, <2>7, <2>8, <2>9, <2>10, TaskReview, SameDecisions DEF StepOK, RowsStep
<1>4. ASSUME NEW r \in Roles, NEW st \in {"idle", "active"}, Lifecycle(r, st)
      PROVE  StepOK
  BY <1>4, QuietStep, SameTodo DEF Lifecycle, memory
<1>5. ASSUME NEW r \in Roles, Ack(r) \/ AckUncertain(r)
      PROVE  StepOK
  BY <1>1, <1>5 DEF Ack, AckUncertain, memory
<1>6. ASSUME NEW r \in Roles, Remind(r) \/ RecoveryTurn(r) \/ RaiseAttention(r) \/ DenyTurn(r)
      PROVE  StepOK
  BY <1>2, <1>6 DEF Remind, RecoveryTurn, RaiseAttention, DenyTurn, Await, memory
<1>7. QED
  BY <1>3, <1>4, <1>5, <1>6 DEF Messages

LEMMA MoveOnStep ==
  ASSUME EvidenceInv, NEW t \in Tasks, NEW S, ReviewQueue(S), NEW r,
         Run(t, S) \/ Pause(t, S) \/ Drain(t, r, S),
         UNCHANGED <<asg, active, decision>>
  PROVE  StepOK
  BY TaskReview, QuietStep

LEMMA SendOnlyStep ==
  ASSUME EvidenceInv, NEW t \in Tasks, NEW x \in todo[t], SendOnly(t, x)
  PROVE  StepOK
<1>1. ReviewQueue(Rest(t, x))
  BY RestReview
<1>2. UNCHANGED <<asg, active, decision>>
  BY DEF SendOnly
<1>3. Run(t, Rest(t, x)) \/ Drain(t, x.to, Rest(t, x)) \/ Abandon(t)
  BY DEF SendOnly
<1>4. QED
  BY <1>1, <1>2, <1>3, MoveOnStep, AbandonReview, QuietStep

LEMMA StartupStep ==
  ASSUME EvidenceInv, NEW t \in Tasks, NEW x \in todo[t],
         Baseline(t, x) \/ Begin(t, x) \/ DecideProbe(t, x) \/ Started(t, x) \/ Inform(t, x)
  PROVE  StepOK
<1>1. ReviewQueue(Rest(t, x))
  BY RestReview
<1>2. CASE Baseline(t, x)
  BY <1>2, SendOnlyStep DEF Baseline
<1>3. CASE Begin(t, x) \/ Started(t, x)
  BY <1>1, <1>3, MoveOnStep DEF Begin, Started, durable
<1>4. CASE DecideProbe(t, x)
  <2>1. CASE UNCHANGED decision /\ Pause(t, Rest(t, x))
    BY <1>1, <1>4, <2>1, MoveOnStep DEF DecideProbe
  <2>2. CASE Probe \in Specialists /\ \E d \in Choices(Probe) :
               /\ decision[Probe][1] \in {"none", d}
               /\ decision' = [decision EXCEPT ![Probe][1] = d]
               /\ Pause(t, Rest(t, x) \cup IF d = "run" THEN {Step("probe", Probe, 1)} ELSE {})
    <3>1. PICK d \in Choices(Probe) :
               /\ decision[Probe][1] \in {"none", d}
               /\ decision' = [decision EXCEPT ![Probe][1] = d]
               /\ Pause(t, Rest(t, x) \cup IF d = "run" THEN {Step("probe", Probe, 1)} ELSE {})
      BY <2>2
    <3>2. Probe # Reviewer
      BY <2>2, ConstantAssumption
    <3>3. ReviewQueue(Rest(t, x) \cup IF d = "run" THEN {Step("probe", Probe, 1)} ELSE {})
      BY <1>1, <3>2 DEF ReviewQueue, Step
    <3>4. \A u \in Tasks : ReviewQueue(todo'[u])
      BY <3>1, <3>3, TaskReview
    <3>5. Probe \in Forced => d = "run"
      BY <3>1 DEF Choices
    <3>6. DecisionsKept
      BY <2>2, <3>1, <3>5, ConstantAssumption
         DEF DecisionsKept, EvidenceInv, ForcedRun, Typing, TypeOK
    <3>7. UNCHANGED <<asg, active>>
      BY <1>4 DEF DecideProbe
    <3>8. QED
      BY <3>4, <3>6, <3>7, SameTables DEF StepOK, RowsStep
  <2>3. QED
    BY <1>4, <2>1, <2>2 DEF DecideProbe
<1>5. CASE Inform(t, x)
  <2>1. CASE SendOnly(t, x)
    BY <2>1, SendOnlyStep
  <2>2. CASE Run(t, Rest(t, x)) /\ UNCHANGED durable
    BY <1>1, <2>2, MoveOnStep DEF durable
  <2>3. QED
    BY <1>5, <2>1, <2>2 DEF Inform
<1>6. QED
  BY <1>2, <1>3, <1>4, <1>5

LEMMA RoutingStep ==
  ASSUME EvidenceInv, NEW t \in Tasks, NEW x \in todo[t],
         \/ RouteEvidence(t, x) \/ RoutePlan(t, x) \/ RouteImplementation(t, x)
         \/ RouteApproval(t, x) \/ RouteRejection(t, x) \/ Advance(t, x)
  PROVE  StepOK
<1> DEFINE q == x.round
<1>1. q \in Rounds /\ ReviewQueue({})
  BY RestReview
<1>2. CASE RouteEvidence(t, x)
  <2>1. ReviewQueue({Step("inform", Implementer, q), Step("inform", Reviewer, q),
                     Step("gate", Reviewer, q)})
    BY DEF ReviewQueue, Step
  <2>2. QED
    BY <1>2, <2>1, MoveOnStep DEF RouteEvidence, durable
<1>3. CASE RoutePlan(t, x)
  <2>1. ReviewQueue({Step("inform", Implementer, q)} \cup
                    IF Phased THEN {Step("assign", Implementer, q)} ELSE {})
    BY DEF ReviewQueue, Step, Implementer, Reviewer
  <2>2. QED
    BY <1>3, <2>1, MoveOnStep DEF RoutePlan, durable
<1>4. CASE RouteImplementation(t, x)
  <2>1. PICK run \in SUBSET Undecided(q) :
          /\ Undecided(q) \cap Forced \subseteq run
          /\ decision' = [s \in Specialists |->
                           IF s \in Undecided(q)
                           THEN [decision[s] EXCEPT ![q] = IF s \in run THEN "run" ELSE "skipped"]
                           ELSE decision[s]]
          /\ Run(t, {Step("inform", s, q) : s \in run \cup {Reviewer}} \cup
                     {Step("assign", s, q) : s \in run} \cup {Step("gate", Reviewer, q)})
    BY <1>4 DEF RouteImplementation
  <2>2. Reviewer \notin run
    BY ConstantAssumption DEF Undecided
  <2>3. ReviewQueue({Step("inform", s, q) : s \in run \cup {Reviewer}} \cup
                    {Step("assign", s, q) : s \in run} \cup {Step("gate", Reviewer, q)})
    BY <2>2 DEF ReviewQueue, Step
  <2>4. \A u \in Tasks : ReviewQueue(todo'[u])
    BY <2>1, <2>3, TaskReview
  <2>5. ASSUME NEW s \in Specialists, NEW p \in Rounds
        PROVE  /\ decision[s][p] = "skipped" => decision'[s][p] = "skipped"
               /\ s \in Forced => decision'[s][p] # "skipped"
    <3>1. decision[s] \in [Rounds -> Decisions]
      BY DEF EvidenceInv, Typing, TypeOK
    <3>2. CASE s \in Undecided(q) /\ p = q
      BY <1>1, <2>1, <3>1, <3>2 DEF Undecided
    <3>3. CASE s \notin Undecided(q) \/ p # q
      <4>1. decision'[s][p] = decision[s][p]
        BY <1>1, <2>1, <3>1, <3>3
      <4>2. QED
        BY <4>1 DEF EvidenceInv, ForcedRun
    <3>4. QED
      BY <3>2, <3>3
  <2>6. UNCHANGED <<asg, active>>
    BY <1>4 DEF RouteImplementation
  <2>7. QED
    BY <2>4, <2>5, <2>6, SameTables DEF StepOK, RowsStep, DecisionsKept
<1>5. CASE RouteApproval(t, x)
  BY <1>1, <1>5, MoveOnStep DEF RouteApproval
<1>6. CASE RouteRejection(t, x)
  <2>1. ReviewQueue({Step("inform", Implementer, q), Step("advance", Implementer, q)})
    BY DEF ReviewQueue, Step, Implementer, Reviewer
  <2>2. QED
    BY <1>6, <2>1, MoveOnStep DEF RouteRejection, durable
<1>7. CASE Advance(t, x)
  <2>1. ReviewQueue({Step("assign", Implementer, q + 1)})
    BY DEF ReviewQueue, Step, Implementer, Reviewer
  <2>2. QED
    BY <1>7, <2>1, MoveOnStep DEF Advance, OpenRound
<1>8. QED
  BY <1>2, <1>3, <1>4, <1>5, <1>6, <1>7

LEMMA DeliveryStep ==
  ASSUME EvidenceInv, NEW t \in Tasks,
         \/ \E x \in todo[t] : Assignments(t, x) \/ Gate(t, x)
         \/ Drained(t) \/ DrainFails(t)
  PROVE  StepOK
<1>1. ASSUME NEW x \in todo[t], Assignments(t, x)
      PROVE  StepOK
  <2>1. /\ ReviewQueue(Rest(t, x)) /\ x.to \in Roles /\ x.round \in Rounds
        /\ UNCHANGED <<limit, decision>>
    BY <1>1, RestReview DEF Assignments
  <2>2. CASE x.do \in {"initial", "probe", "assign"} /\ Assign(t, x.to, x.round, Rest(t, x))
    <3>1. x.to # Reviewer
      BY <2>2 DEF EvidenceInv, ReviewQueue
    <3>2. QED
      BY <2>1, <2>2, <3>1, AssignStep
  <2>3. CASE x.do = "insert" /\ Insert(t, x.to, x.round, Rest(t, x))
    <3>1. x.to = Reviewer => Evidenced(x.round)
      BY <2>3 DEF EvidenceInv, ReviewQueue
    <3>2. QED
      BY <2>1, <2>3, <3>1, InsertStep
  <2>4. QED
    BY <1>1, <2>2, <2>3 DEF Assignments, Takes
<1>2. ASSUME NEW x \in todo[t], Gate(t, x)
      PROVE  StepOK
  <2>1. /\ ReviewQueue(Rest(t, x)) /\ x.round \in Rounds /\ Reviewer \in Roles
        /\ UNCHANGED <<limit, decision>>
    BY <1>2, RestReview DEF Gate, Roles
  <2>2. CASE GateOpen(x.round) /\ Assign(t, Reviewer, x.round, Rest(t, x))
    BY <2>1, <2>2, GateHasEvidence, AssignStep
  <2>3. CASE Run(t, Rest(t, x)) /\ UNCHANGED <<asg, active>>
    BY <2>1, <2>3, MoveOnStep
  <2>4. QED
    BY <1>2, <2>2, <2>3 DEF Gate
<1>3. CASE Drained(t)
  <2>1. ReviewQueue({})
    BY DEF ReviewQueue
  <2>2. QED
    BY <1>3, <2>1, MoveOnStep DEF Drained, durable
<1>4. CASE DrainFails(t)
  BY <1>4, AbandonReview, QuietStep DEF DrainFails
<1>5. QED
  BY <1>1, <1>2, <1>3, <1>4

LEMMA OperatorStep ==
  ASSUME EvidenceInv, NEW t \in Tasks, NEW x \in todo[t],
         Resume(t, x) \/ Reopened(t, x) \/ Confirm(t, x) \/ Answer(t, x)
  PROVE  StepOK
<1>1. x.to \in Roles /\ ReviewQueue({})
  BY RestReview
<1>2. CASE Resume(t, x)
  <2>1. Run(t, {}) /\ UNCHANGED <<active, decision>>
    BY <1>2 DEF Resume
  <2>2. \A u \in Tasks : ReviewQueue(todo'[u])
    BY <1>1, <2>1, TaskReview
  <2>3. CASE UNCHANGED asg
    BY <2>1, <2>2, <2>3, QuietStep
  <2>4. CASE Working(x.to) /\ asg' = [asg EXCEPT ![x.to][active[x.to]].owes = "resumed"]
    <3>1. active[x.to] \in Ids(x.to) /\ TypeOK
      BY <1>1, <2>4, CurrentRow DEF EvidenceInv, Typing
    <3>2. /\ SameRows
          /\ \A r \in Roles : \A i \in Ids(r) : asg'[r][i].state = asg[r][i].state
      BY <1>1, <2>4, <3>1, OwesKeepsRows
    <3>3. ActiveUnfinished'
      BY <2>1, <3>1, <3>2, EditKeepsActive DEF EvidenceInv
    <3>4. QED
      BY <2>1, <2>2, <3>2, <3>3, SameDecisions DEF StepOK, RowsStep
  <2>5. QED
    BY <1>2, <2>3, <2>4 DEF Resume
<1>3. CASE Reopened(t, x)
  <2>1. ReviewQueue({Step("assign", Implementer, x.round)})
    BY DEF ReviewQueue, Step, Implementer, Reviewer
  <2>2. QED
    BY <1>3, <2>1, MoveOnStep DEF Reopened, OpenRound
<1>4. CASE Confirm(t, x)
  <2>1. ReviewQueue({Step("answer", Implementer, x.round)})
    BY DEF ReviewQueue, Step, Implementer, Reviewer
  <2>2. QED
    BY <1>1, <1>4, <2>1, MoveOnStep DEF Confirm
<1>5. CASE Answer(t, x)
  BY <1>1, <1>5, MoveOnStep DEF Answer, durable
<1>6. QED
  BY <1>2, <1>3, <1>4, <1>5

LEMMA ControlsStep ==
  ASSUME EvidenceInv, Controls \/ ExtendCalls
  PROVE  StepOK
<1>1. ASSUME NEW o \in Operators, NEW r \in Roles, Send(o, r)
      PROVE  StepOK
  <2>1. ReviewQueue({Step("resume", r, round)}) /\ o \in Tasks
    BY DEF ReviewQueue, Step, Tasks
  <2>2. QED
    BY <1>1, <2>1, MoveOnStep DEF Send, durable
<1>2. ASSUME NEW o \in Operators, Reopen(o)
      PROVE  StepOK
  <2>1. ReviewQueue({Step("reopen", Implementer, round + 1)}) /\ o \in Tasks
    BY DEF ReviewQueue, Step, Tasks, Implementer, Reviewer
  <2>2. QED
    BY <1>2, <2>1, MoveOnStep DEF Reopen, durable
<1>3. ASSUME NEW o \in Operators, ApproveRepair(o)
      PROVE  StepOK
  <2>1. /\ ReviewQueue({Step("assign", Implementer, pending), Step("confirm", Implementer, pending)})
        /\ o \in Tasks
    BY DEF ReviewQueue, Step, Tasks, Implementer, Reviewer
  <2>2. QED
    BY <1>3, <2>1, MoveOnStep DEF ApproveRepair
<1>4. ASSUME NEW o \in Operators, HangUp(o)
      PROVE  StepOK
  <2>1. o \in Tasks
    BY DEF Tasks
  <2>2. QED
    BY <1>4, <2>1, AbandonReview, QuietStep DEF HangUp
<1>5. CASE ExtendCalls
  BY <1>5, QuietStep, SameTodo DEF ExtendCalls, memory
<1>6. QED
  BY <1>1, <1>2, <1>3, <1>4, <1>5 DEF Controls

LEMMA NextStep ==
  ASSUME EvidenceInv, [Next]_vars
  PROVE  StepOK
<1>1. ASSUME NEW t \in Tasks, Continuation(t)
      PROVE  StepOK
  BY <1>1, StartupStep, RoutingStep, DeliveryStep, OperatorStep DEF Continuation
<1>2. CASE Connections
  BY <1>2, ConnectionsStep
<1>3. CASE Messages
  BY <1>3, MessagesStep
<1>4. CASE Controls \/ ExtendCalls
  BY <1>4, ControlsStep
<1>5. CASE Restart
  <2>1. \A u \in Tasks : ReviewQueue(todo'[u])
    BY <1>5 DEF Restart, ReviewQueue
  <2>2. QED
    BY <1>5, <2>1, QuietStep DEF Restart
<1>6. CASE UNCHANGED vars
  BY <1>6, QuietStep, SameTodo DEF vars, durable, memory
<1>7. QED
  BY <1>1, <1>2, <1>3, <1>4, <1>5, <1>6 DEF Next, Turn

\* Rows that are in stay in: same role and place, same round and kind, still completed.
LEMMA RowsStay ==
  ASSUME TypeOK, RowsStep, NEW r \in Roles, NEW i \in Ids(r)
  PROVE  /\ Len(asg'[r]) >= Len(asg[r]) /\ Len(asg'[r]) \in Nat /\ i \in Ids(r)'
         /\ asg'[r][i].round = asg[r][i].round /\ asg'[r][i].kind = asg[r][i].kind
         /\ asg[r][i].state = "completed" => asg'[r][i].state = "completed"
<1>1. Len(asg[r]) \in Nat /\ i \in 1..Len(asg[r])
  BY DEF TypeOK, Ids
<1>2. CASE SameRows
  BY <1>1, <1>2 DEF SameRows, Ids
<1>3. CASE \E x \in Roles, q \in Rounds : NewRow(x, q)
  <2>1. PICK x \in Roles, q \in Rounds, kind \in {"plan", "implementation", "review", "evidence"} :
          Create(x, q, kind)
    BY <1>3 DEF NewRow
  <2>2. CASE x = r
    BY <1>1, <2>1, <2>2, CreateKeepsRows DEF Ids
  <2>3. CASE x # r
    BY <1>1, <2>1, <2>3, CreateKeepsRows DEF Ids
  <2>4. QED
    BY <2>2, <2>3
<1>4. QED
  BY <1>2, <1>3 DEF RowsStep

LEMMA EvidencedStays ==
  ASSUME EvidenceInv, StepOK, NEW q \in Rounds, Evidenced(q)
  PROVE  Evidenced(q)'
<1>1. TypeOK /\ RowsStep /\ DecisionsKept /\ Implementer \in Roles /\ Specialists \subseteq Roles
  BY DEF EvidenceInv, Typing, StepOK, Roles
<1>2. PICK i \in Ids(Implementer) : /\ asg[Implementer][i].round = q
                                   /\ asg[Implementer][i].kind = "implementation"
                                   /\ asg[Implementer][i].state = "completed"
  BY DEF Evidenced
<1>3. /\ i \in Ids(Implementer)' /\ asg'[Implementer][i].round = q
      /\ asg'[Implementer][i].kind = "implementation"
      /\ asg'[Implementer][i].state = "completed"
  BY <1>1, <1>2, RowsStay
<1>4. ASSUME NEW s \in Specialists
      PROVE  (decision'[s][q] = "skipped" /\ s \notin Forced) \/ Delivered(s, q)'
  <2>1. CASE decision[s][q] = "skipped" /\ s \notin Forced
    BY <1>1, <2>1 DEF DecisionsKept
  <2>2. CASE Delivered(s, q)
    <3>1. PICK j \in Ids(s) : asg[s][j].round = q /\ asg[s][j].state = "completed"
      BY <2>2 DEF Delivered
    <3>2. j \in Ids(s)' /\ asg'[s][j].round = q /\ asg'[s][j].state = "completed"
      BY <1>1, <3>1, RowsStay
    <3>3. QED
      BY <3>2 DEF Delivered
  <2>3. QED
    BY <2>1, <2>2 DEF Evidenced
<1>5. QED
  BY <1>3, <1>4 DEF Evidenced

LEMMA NextEvidence == EvidenceInv /\ [Next]_vars => EvidenceInv'
<1> SUFFICES ASSUME EvidenceInv, [Next]_vars
             PROVE  EvidenceInv'
  OBVIOUS
<1>1. Typing' /\ StepOK
  BY NextTyping, NextStep DEF EvidenceInv
<1>2. ForcedRun'
  BY <1>1, ConstantAssumption DEF StepOK, DecisionsKept, ForcedRun
<1>3. ASSUME NEW t \in Tasks, NEW x \in todo'[t], x.to = Reviewer
      PROVE  /\ x.do \notin {"initial", "probe", "assign"}
             /\ x.do = "insert" => Evidenced(x.round)'
  <2>1. x.round \in Rounds
    BY <1>1, <1>3 DEF Typing, TypeOK, Steps
  <2>2. /\ x.do \notin {"initial", "probe", "assign"}
        /\ x.do = "insert" => Evidenced(x.round)
    BY <1>1, <1>3 DEF StepOK, ReviewQueue
  <2>3. QED
    BY <1>1, <2>1, <2>2, EvidencedStays
<1>4. ASSUME NEW i \in Ids(Reviewer)'
      PROVE  Evidenced(asg[Reviewer][i].round)'
  <2>1. Reviewer \in Roles /\ TypeOK /\ TypeOK'
    BY <1>1 DEF Roles, EvidenceInv, Typing
  <2>2. asg'[Reviewer][i].round \in Rounds
    <3>1. asg'[Reviewer] \in Seq(Assignment) /\ i \in 1..Len(asg'[Reviewer])
      BY <2>1, <1>4 DEF TypeOK, Ids
    <3>2. asg'[Reviewer][i] \in Assignment
      BY <3>1
    <3>3. QED
      BY <3>2 DEF Assignment
  <2>3. CASE i \in Ids(Reviewer)
    <3>1. asg'[Reviewer][i].round = asg[Reviewer][i].round
      BY <1>1, <2>1, <2>3, RowsStay DEF StepOK
    <3>2. Evidenced(asg'[Reviewer][i].round)
      BY <2>3, <3>1 DEF EvidenceInv, ReviewHasEvidence
    <3>3. QED
      BY <1>1, <2>2, <3>2, EvidencedStays
  <2>4. CASE i \notin Ids(Reviewer)
    <3>1. ~SameRows
      BY <1>4, <2>1, <2>4 DEF SameRows, Ids
    <3>2. PICK r \in Roles, q \in Rounds : NewRow(r, q) /\ (r = Reviewer => Evidenced(q))
      BY <1>1, <3>1 DEF StepOK, RowsStep
    <3>3. PICK kind \in {"plan", "implementation", "review", "evidence"} : Create(r, q, kind)
      BY <3>2 DEF NewRow
    <3>4. r = Reviewer
      BY <1>4, <2>1, <2>4, <3>3, CreateKeepsRows DEF Ids
    <3>5. i = Len(asg[Reviewer]) + 1 /\ asg'[Reviewer][i] = New(q, kind)
      BY <1>4, <2>1, <2>4, <3>3, <3>4, CreateKeepsRows DEF Ids
    <3>6. asg'[Reviewer][i].round = q
      BY <3>5 DEF New
    <3>7. QED
      BY <1>1, <3>2, <3>4, <3>6, EvidencedStays
  <2>5. QED
    BY <2>3, <2>4
<1>5. QED
  BY <1>1, <1>2, <1>3, <1>4 DEF EvidenceInv, StepOK, ReviewQueue, ReviewHasEvidence

LEMMA InitEvidence == Init => EvidenceInv
<1> SUFFICES ASSUME Init
             PROVE  EvidenceInv
  OBVIOUS
<1>1. Typing
  BY InitTyping
<1>2. ActiveUnfinished /\ \A t \in Tasks : ReviewQueue(todo[t])
  BY DEF Init, ActiveUnfinished, Working, ReviewQueue
<1>3. ForcedRun
  BY ConstantAssumption DEF Init, ForcedRun
<1>4. Ids(Reviewer) = {}
  BY DEF Init, Ids, Roles
<1>5. QED
  BY <1>1, <1>2, <1>3, <1>4 DEF EvidenceInv, ReviewHasEvidence

\* A review never starts without its evidence: for every roster, however many operators
\* and rounds, whatever connections are lost and however often the broker is killed.
THEOREM ReviewsHaveEvidence == Spec => []ReviewHasEvidence
<1>1. Init => EvidenceInv
  BY InitEvidence
<1>2. EvidenceInv /\ [Next]_vars => EvidenceInv'
  BY NextEvidence
<1>3. EvidenceInv => ReviewHasEvidence
  BY DEF EvidenceInv
<1>4. QED
  BY <1>1, <1>2, <1>3, PTL DEF Spec

-----------------------------------------------------------------------------
(* The repair-round limit.  Every path that creates an implementation      *)
(* assignment passes the check, and only a new row can admit a round.      *)

RepairsInv == EvidenceInv /\ RepairsWithinLimit

LEMMA SameRepairs ==
  ASSUME TypeOK, SameRows \/ (\E r \in Roles \ {Implementer}, q \in Rounds : NewRow(r, q))
  PROVE  RepairRounds' = RepairRounds
<1>1. Implementer \in Roles
  BY DEF Roles
<1>2. CASE SameRows
  BY <1>1, <1>2 DEF SameRows, RepairRounds, Ids
<1>3. CASE \E r \in Roles \ {Implementer}, q \in Rounds : NewRow(r, q)
  <2>1. asg'[Implementer] = asg[Implementer]
    BY <1>1, <1>3, CreateKeepsRows DEF NewRow
  <2>2. QED
    BY <2>1 DEF RepairRounds, Ids
<1>4. QED
  BY <1>2, <1>3

LEMMA NewRepair ==
  ASSUME TypeOK, NEW q \in Rounds, NewRow(Implementer, q), Capped, RepairsAdmitted <= limit
  PROVE  RepairsAdmitted' <= limit
<1>1. PICK kind : Create(Implementer, q, kind)
  BY DEF NewRow
<1> Implementer \in Roles
  BY DEF Roles
<1>2. /\ Len(asg'[Implementer]) = Len(asg[Implementer]) + 1
      /\ Len(asg[Implementer]) \in Nat
      /\ asg'[Implementer][Len(asg[Implementer]) + 1].round = q
      /\ \A i \in Ids(Implementer) : asg'[Implementer][i] = asg[Implementer][i]
  <2>1. asg'[Implementer][Len(asg[Implementer]) + 1] = New(q, kind)
    BY <1>1, CreateKeepsRows
  <2>2. QED
    BY <1>1, <2>1, CreateKeepsRows DEF New
<1>3. RepairRounds' \subseteq RepairRounds \cup {q}
  <2>1. ASSUME NEW p \in RepairRounds', p # q
        PROVE  p \in RepairRounds
    <3>1. PICK i \in 1..Len(asg'[Implementer]) : asg'[Implementer][i].round = p
      BY <2>1 DEF RepairRounds, Ids
    <3>2. i \in Ids(Implementer)
      BY <1>2, <2>1, <3>1 DEF Ids
    <3>3. QED
      BY <1>2, <2>1, <3>1, <3>2 DEF RepairRounds
  <2>2. QED
    BY <2>1
<1>4. CASE q > 1
  <2>1. RepairsAdmitted < limit /\ RepairsAdmitted \in Nat /\ IsFiniteSet(RepairRounds)
        /\ limit \in Nat
    BY <1>4, AdmittedType DEF NewRow, RepairLimitReached, TypeOK
  <2>2. /\ IsFiniteSet(RepairRounds \cup {q})
        /\ Cardinality(RepairRounds \cup {q}) <= RepairsAdmitted + 1
        /\ Cardinality(RepairRounds \cup {q}) \in Nat
    <3>1. /\ IsFiniteSet(RepairRounds \cup {q})
          /\ Cardinality(RepairRounds \cup {q}) =
               IF q \in RepairRounds THEN RepairsAdmitted ELSE RepairsAdmitted + 1
      BY <2>1, FS_AddElement DEF RepairsAdmitted
    <3>2. QED
      BY <2>1, <3>1
  <2>3. Cardinality(RepairRounds') <= Cardinality(RepairRounds \cup {q})
        /\ Cardinality(RepairRounds') \in Nat
    BY <1>3, <2>2, FS_Subset, FS_CardinalityType
  <2>4. QED
    BY <2>1, <2>2, <2>3 DEF RepairsAdmitted
<1>5. CASE q = 1
  <2>1. RepairRounds' \subseteq RepairRounds
    BY <1>3, <1>5 DEF RepairRounds
  <2>2. Cardinality(RepairRounds') <= Cardinality(RepairRounds)
        /\ Cardinality(RepairRounds') \in Nat
    BY <2>1, AdmittedType, FS_Subset, FS_CardinalityType
  <2>3. QED
    BY <2>2, AdmittedType DEF RepairsAdmitted, TypeOK
<1>6. QED
  BY <1>4, <1>5 DEF Rounds

\* Only an operator's approval changes the limit, and it never lowers it.
LEMMA LimitGrows ==
  ASSUME Typing, [Next]_vars
  PROVE  limit' >= limit
<1> USE DEF Typing, TypeOK
<1>1. ASSUME NEW t \in Tasks, NEW x \in todo[t],
             \/ Baseline(t, x) \/ Begin(t, x) \/ DecideProbe(t, x) \/ Started(t, x)
             \/ Inform(t, x) \/ RouteEvidence(t, x) \/ RoutePlan(t, x)
             \/ RouteImplementation(t, x) \/ RouteApproval(t, x) \/ RouteRejection(t, x)
             \/ Advance(t, x) \/ Assignments(t, x) \/ Gate(t, x) \/ Resume(t, x)
             \/ Reopened(t, x) \/ Confirm(t, x) \/ Answer(t, x)
      PROVE  limit' = limit
  BY <1>1 DEF Baseline, SendOnly, Begin, DecideProbe, Started, Inform, RouteEvidence, RoutePlan,
              RouteImplementation, RouteApproval, RouteRejection, Advance, OpenRound,
              Assignments, Gate, Resume, Reopened, Confirm, Answer, durable
<1>2. ASSUME NEW t \in Tasks, Drained(t) \/ DrainFails(t)
      PROVE  limit' = limit
  BY <1>2 DEF Drained, DrainFails, durable
<1>3. ASSUME Connections
      PROVE  limit' = limit
  BY <1>3 DEF Connections, Connect, StartWorkflow, Recover, Lose, Unregister, durable
<1>4. ASSUME Messages
      PROVE  limit' = limit
  BY <1>4 DEF Messages, Ack, AckUncertain, Report, Remind, RecoveryTurn, RaiseAttention,
              DenyTurn, Lifecycle
<1>5. ASSUME NEW o \in Operators, ApproveRepair(o)
      PROVE  limit' >= limit
  BY <1>5, AdmittedType DEF ApproveRepair
<1>6. ASSUME Controls, \A o \in Operators : ~ApproveRepair(o)
      PROVE  limit' = limit
  BY <1>6 DEF Controls, Send, Reopen, HangUp, durable
<1>7. ASSUME ExtendCalls \/ Restart \/ UNCHANGED vars
      PROVE  limit' = limit
  BY <1>7 DEF ExtendCalls, Restart, vars, durable
<1>8. QED
  BY <1>1, <1>2, <1>3, <1>4, <1>5, <1>6, <1>7 DEF Next, Turn, Continuation

LEMMA NextRepairs == RepairsInv /\ [Next]_vars => RepairsInv'
<1> SUFFICES ASSUME RepairsInv, [Next]_vars
             PROVE  RepairsInv'
  OBVIOUS
<1>1. EvidenceInv' /\ StepOK /\ Typing /\ Typing' /\ limit' >= limit
  BY NextEvidence, NextStep, LimitGrows DEF RepairsInv, EvidenceInv
<1>2. /\ TypeOK /\ limit \in Nat /\ limit' \in Nat
      /\ RepairsAdmitted \in Nat
      /\ Capped => RepairsAdmitted <= limit
  BY <1>1, AdmittedType DEF Typing, TypeOK, RepairsInv, RepairsWithinLimit
<1>3. CASE RepairRounds' = RepairRounds
  <2>1. RepairsAdmitted' = RepairsAdmitted
    BY <1>3 DEF RepairsAdmitted
  <2>2. ASSUME Capped
        PROVE  RepairsAdmitted' <= limit'
    <3>1. RepairsAdmitted <= limit
      BY <1>2, <2>2, Zenon
    <3>2. QED
      BY <1>1, <1>2, <2>1, <3>1
  <2>3. QED
    BY <1>1, <2>2, Zenon DEF RepairsInv, RepairsWithinLimit
<1>4. CASE \E q \in Rounds : NewRow(Implementer, q)
  <2>1. ASSUME Capped
        PROVE  RepairsAdmitted' <= limit
    <3>1. PICK q \in Rounds : NewRow(Implementer, q)
      BY <1>4
    <3>2. RepairsAdmitted <= limit
      BY <1>2, <2>1, Zenon
    <3>3. QED
      BY <1>2, <2>1, <3>1, <3>2, NewRepair
  <2>2. RepairsAdmitted' \in Nat
    <3>1. RepairRounds' \in SUBSET (2..MaxRounds)
      BY DEF RepairRounds
    <3>2. IsFiniteSet(2..MaxRounds)
      BY FS_Interval, ConstantAssumption
    <3>3. QED
      BY <3>1, <3>2, FS_Subset, FS_CardinalityType DEF RepairsAdmitted
  <2>3. QED
    BY <1>1, <1>2, <2>1, <2>2 DEF RepairsInv, RepairsWithinLimit
<1>5. QED
  BY <1>1, <1>2, <1>3, <1>4, SameRepairs DEF StepOK, RowsStep

\* The repair rounds admitted never exceed the limit in force, by whichever path a round
\* was opened: a rejection, a reopened run, an approved continuation, two at a time.
THEOREM RepairsStayWithinLimit == Spec => []RepairsWithinLimit
<1>1. Init => RepairsInv
  <2>1. ASSUME Init
        PROVE  RepairsWithinLimit
    <3>1. Ids(Implementer) = {}
      BY <2>1 DEF Init, Ids, Roles
    <3>2. RepairRounds = {}
      BY <3>1 DEF RepairRounds
    <3>3. RepairsAdmitted = 0 /\ limit \in Nat
      BY <2>1, <3>2, FS_EmptySet, ConstantAssumption DEF RepairsAdmitted, Init
    <3>4. QED
      BY <3>3 DEF RepairsWithinLimit
  <2>2. QED
    BY <2>1, InitEvidence DEF RepairsInv
<1>2. RepairsInv /\ [Next]_vars => RepairsInv'
  BY NextRepairs
<1>3. RepairsInv => RepairsWithinLimit
  BY DEF RepairsInv
<1>4. QED
  BY <1>1, <1>2, <1>3, PTL DEF Spec

-----------------------------------------------------------------------------
(* One verdict per round, and what follows from it.  Reviews of a round    *)
(* may be several - a reviewer that is slow to read its capsule lets two   *)
(* gates pass - but only one of them is ever judged: a report needs a      *)
(* reviewer that reads, so no review is on its way to it, and afterwards   *)
(* the gate is shut.  The step that carries a verdict out, the reopening   *)
(* of a ready run and the announcement then exclude one another.           *)

\* Round q has its verdict; it has all that a review needs.
Judged(q) == \E i \in Reviews(q) : asg[Reviewer][i].verdict # "none"
Ripe(q)   == Implemented(q) /\ EvidenceComplete(q)

\* The steps that carry out a verdict.
Deciding == {"approved", "rejected", "advance"}
NoVerdictPending == \A t \in Tasks : \A x \in todo[t] : x.do \notin Deciding

\* The run is ready, or an operator is about to open the next round of a ready run.
Announced == \/ workflow = "ready"
             \/ \E t \in Tasks : \E x \in todo[t] : x.do = "reopen" /\ x.round = round + 1

\* What task t may still have to do while its socket w drains.
Sound(t, S, w) == \A x \in S :
  /\ x.do # "reopen" => x.round <= round
  /\ x.do = "insert" =>
       /\ w = x.to /\ \A y \in S : y = x \/ Rank(y.do) > 2
       /\ x.to = Reviewer => x.round = round /\ Ripe(round) /\ ~Judged(round)
  /\ x.do \in Deciding =>
       /\ t = Reviewer /\ x.round = round
       /\ \A y \in S : y = x \/ y.do = "inform"
       /\ IF x.do = "approved" THEN Verdict(round, "approved")
                               ELSE Verdict(round, "changes_requested")
  /\ x.do = "reopen" =>
       /\ t \in Operators /\ w = Implementer /\ S = {x}
       /\ x.round = round + 1 \/ (x.round = round /\ ~Implemented(round))

OwnKinds    == \A r \in Roles : \A i \in Ids(r) : asg[r][i].kind = "review" <=> r = Reviewer
RowsBehind  == \A r \in Roles : \A i \in Ids(r) : asg[r][i].round <= round
Past        == \A q \in Rounds : q < round => Judged(q)
Reviewing   == Working(Reviewer) => Current(Reviewer).round = round /\ ~Judged(round)
OneVerdict  == \A q \in Rounds : ~(Verdict(q, "approved") /\ Verdict(q, "changes_requested"))
RipeReviews == \A i \in Ids(Reviewer) : Ripe(asg[Reviewer][i].round)
OneAtATime  == Announced => Verdict(round, "approved") /\ NoVerdictPending
Queues      == \A t \in Tasks : Sound(t, todo[t], waits[t])

VerdictInv ==
  /\ EvidenceInv
  /\ OwnKinds
  /\ RowsBehind
  /\ pending <= round
  /\ Past
  /\ Reviewing
  /\ OneVerdict
  /\ RipeReviews
  /\ OneAtATime
  /\ Queues

LEMMA RankIs ==
  ASSUME NEW k \in 1..7, NEW do \in Ranked[k]
  PROVE  Rank(do) = k
<1>1. DOMAIN Ranked = 1..7
  BY DEF Ranked
<1>2. ASSUME NEW j \in 1..7, do \in Ranked[j]
      PROVE  j = k
  <2>1. /\ Ranked[1] = {"baseline", "inform", "evidence", "planned", "implemented", "approved", "rejected"}
        /\ Ranked[2] = {"begin", "advance", "insert", "reopen", "resume"}
        /\ Ranked[3] = {"decide"} /\ Ranked[4] = {"initial"} /\ Ranked[5] = {"probe", "assign"}
        /\ Ranked[6] = {"gate", "confirm", "started"} /\ Ranked[7] = {"answer"}
    BY DEF Ranked
  <2>2. k \in {1, 2, 3, 4, 5, 6, 7} /\ j \in {1, 2, 3, 4, 5, 6, 7}
    OBVIOUS
  <2>3. QED
    BY <1>2, <2>1, <2>2
<1>3. QED
  BY <1>1, <1>2 DEF Rank

LEMMA Ranks ==
  /\ Rank("inform") = 1 /\ Rank("insert") = 2 /\ Rank("advance") = 2 /\ Rank("reopen") = 2
  /\ Rank("initial") = 4 /\ Rank("probe") = 5 /\ Rank("assign") = 5 /\ Rank("gate") = 6
<1>1. /\ "inform" \in Ranked[1] /\ "insert" \in Ranked[2] /\ "advance" \in Ranked[2]
      /\ "reopen" \in Ranked[2] /\ "initial" \in Ranked[4] /\ "probe" \in Ranked[5]
      /\ "assign" \in Ranked[5] /\ "gate" \in Ranked[6]
  BY DEF Ranked
<1>2. QED
  BY <1>1, RankIs

-----------------------------------------------------------------------------
(* The rows of the tables: edited without consequence, or one more.        *)

Kept ==
  /\ UNCHANGED active
  /\ \A r \in Roles :
       /\ Len(asg'[r]) = Len(asg[r])
       /\ \A i \in Ids(r) :
            /\ asg'[r][i].round = asg[r][i].round /\ asg'[r][i].kind = asg[r][i].kind
            /\ asg'[r][i].verdict = asg[r][i].verdict
            /\ asg'[r][i].state = "completed" <=> asg[r][i].state = "completed"

Added(r, q) ==
  /\ q <= round
  /\ r = Reviewer => q = round /\ Ripe(round) /\ ~Judged(round)
  /\ \E kind \in {"plan", "implementation", "review", "evidence"} :
       Create(r, q, kind) /\ (kind = "review" <=> r = Reviewer)

\* What the tables say of round q.
SameJudgement(q) ==
  /\ Judged(q)' = Judged(q) /\ Implemented(q)' = Implemented(q)
  /\ \A v \in {"approved", "changes_requested"} : Verdict(q, v)' = Verdict(q, v)
  /\ \A s \in Specialists : (Reports(s, q)' = {}) = (Reports(s, q) = {})

LEMMA StateKept ==
  ASSUME TypeOK, NEW r \in Roles, NEW n \in Ids(r), asg[r][n].state # "completed",
         NEW st \in {"accepted", "uncertain"},
         asg' = [asg EXCEPT ![r][n].state = st], UNCHANGED active
  PROVE  Kept
<1> DEFINE e == [asg[r][n] EXCEPT !.state = st]
<1>1. asg[r][n] \in Assignment /\ e \in Assignment /\ asg[r] \in Seq(Assignment)
  BY RowEdit DEF TypeOK
<1>2. /\ e.round = asg[r][n].round /\ e.kind = asg[r][n].kind /\ e.verdict = asg[r][n].verdict
      /\ e.state = st
  BY <1>1 DEF Assignment
<1>3. asg'[r] = [asg[r] EXCEPT ![n] = e] /\ \A x \in Roles \ {r} : asg'[x] = asg[x]
  BY DEF TypeOK
<1>4. /\ Len(asg'[r]) = Len(asg[r])
      /\ \A j \in Ids(r) : asg'[r][j] = IF j = n THEN e ELSE asg[r][j]
  BY <1>1, <1>3, RowType DEF Ids
<1> HIDE DEF e
<1>5. QED
  BY <1>2, <1>3, <1>4 DEF Kept

LEMMA OwesKept ==
  ASSUME TypeOK, NEW r \in Roles, NEW n \in Ids(r),
         NEW owes \in {"report", "reminder", "retry", "attention", "resumed", "nothing"},
         asg' = [asg EXCEPT ![r][n].owes = owes], UNCHANGED active
  PROVE  Kept
<1> DEFINE e == [asg[r][n] EXCEPT !.owes = owes]
<1>1. asg[r][n] \in Assignment /\ e \in Assignment /\ asg[r] \in Seq(Assignment)
  BY RowEdit DEF TypeOK
<1>2. /\ e.round = asg[r][n].round /\ e.kind = asg[r][n].kind /\ e.verdict = asg[r][n].verdict
      /\ e.state = asg[r][n].state
  BY <1>1 DEF Assignment
<1>3. asg'[r] = [asg[r] EXCEPT ![n] = e] /\ \A x \in Roles \ {r} : asg'[x] = asg[x]
  BY DEF TypeOK
<1>4. /\ Len(asg'[r]) = Len(asg[r])
      /\ \A j \in Ids(r) : asg'[r][j] = IF j = n THEN e ELSE asg[r][j]
  BY <1>1, <1>3, RowType DEF Ids
<1> HIDE DEF e
<1>5. QED
  BY <1>2, <1>3, <1>4 DEF Kept

LEMMA KeptJudgement ==
  ASSUME TypeOK, Kept, NEW q \in Rounds
  PROVE  SameJudgement(q) /\ (Reviews(q)' = Reviews(q))
<1>1. \A r \in Roles : Ids(r)' = Ids(r)
  BY DEF Kept, Ids
<1>2. Implementer \in Roles /\ Reviewer \in Roles /\ Specialists \subseteq Roles
  BY DEF Roles
<1>3. Reviews(q)' = Reviews(q) /\ Judged(q)' = Judged(q)
  BY <1>1, <1>2 DEF Kept, Reviews, Judged
<1>4. \A v \in {"approved", "changes_requested"} : Verdict(q, v)' = Verdict(q, v)
  BY <1>1, <1>2, <1>3 DEF Kept, Reviews, Verdict
<1>5. \A r \in Roles : Reports(r, q)' = Reports(r, q)
  BY <1>1 DEF Kept, Reports
<1>6. Implemented(q)' = Implemented(q)
  BY <1>2, <1>5 DEF Kept, Implemented, Reports
<1>7. QED
  BY <1>2, <1>3, <1>4, <1>5, <1>6 DEF SameJudgement

LEMMA AddedJudgement ==
  ASSUME TypeOK, NEW r \in Roles, NEW n \in Rounds, Added(r, n), NEW q \in Rounds
  PROVE  /\ SameJudgement(q)
         /\ Reviews(q)' = Reviews(q) \cup
              (IF r = Reviewer /\ q = n THEN {Len(asg[Reviewer]) + 1} ELSE {})
<1>1. PICK kind : Create(r, n, kind)
  BY DEF Added
<1>2. /\ Len(asg'[r]) = Len(asg[r]) + 1 /\ Len(asg[r]) \in Nat
      /\ asg'[r][Len(asg[r]) + 1] = New(n, kind)
      /\ \A i \in Ids(r) : asg'[r][i] = asg[r][i]
      /\ \A x \in Roles \ {r} : asg'[x] = asg[x]
  BY <1>1, CreateKeepsRows
<1>3. /\ New(n, kind).round = n /\ New(n, kind).state = "delivering" /\ New(n, kind).verdict = "none"
  BY DEF New
<1>4. Ids(r)' = Ids(r) \cup {Len(asg[r]) + 1} /\ \A x \in Roles \ {r} : Ids(x)' = Ids(x)
  BY <1>2 DEF Ids
<1>5. Implementer \in Roles /\ Reviewer \in Roles /\ Specialists \subseteq Roles
  BY DEF Roles
<1>6. \A x \in Roles : Reports(x, q)' = Reports(x, q)
  BY <1>2, <1>3, <1>4 DEF Reports
<1>7. Reviews(q)' = Reviews(q) \cup
              (IF r = Reviewer /\ q = n THEN {Len(asg[Reviewer]) + 1} ELSE {})
  BY <1>2, <1>3, <1>4, <1>5 DEF Reviews
<1>8. \A i \in Reviews(q)' :
        /\ i \in Reviews(q) => asg'[Reviewer][i].verdict = asg[Reviewer][i].verdict
        /\ i \notin Reviews(q) => asg'[Reviewer][i].verdict = "none"
  BY <1>2, <1>3, <1>4, <1>5, <1>7 DEF Reviews
<1>9. Reviews(q) \subseteq Reviews(q)'
  BY <1>7
<1>10. Judged(q)' = Judged(q)
  <2>1. ASSUME Judged(q)
        PROVE  Judged(q)'
    <3>1. PICK i \in Reviews(q) : asg[Reviewer][i].verdict # "none"
      BY <2>1 DEF Judged
    <3>2. i \in Reviews(q)' /\ asg'[Reviewer][i].verdict # "none"
      BY <1>8, <1>9, <3>1
    <3>3. QED
      BY <3>2 DEF Judged
  <2>2. ASSUME Judged(q)'
        PROVE  Judged(q)
    <3>1. PICK i \in Reviews(q)' : asg'[Reviewer][i].verdict # "none"
      BY <2>2 DEF Judged
    <3>2. i \in Reviews(q) /\ asg[Reviewer][i].verdict # "none"
      BY <1>8, <3>1
    <3>3. QED
      BY <3>2 DEF Judged
  <2>3. QED
    BY <2>1, <2>2 DEF Judged
<1>11. ASSUME NEW v \in {"approved", "changes_requested"}
       PROVE  Verdict(q, v)' = Verdict(q, v)
  <2>1. \A i \in Reviews(q)' : asg'[Reviewer][i].verdict = v =>
                                 i \in Reviews(q) /\ asg[Reviewer][i].verdict = v
    BY <1>8
  <2>2. \A i \in Reviews(q) : asg[Reviewer][i].verdict = v =>
                                i \in Reviews(q)' /\ asg'[Reviewer][i].verdict = v
    BY <1>8, <1>9
  <2>3. QED
    BY <2>1, <2>2 DEF Verdict
<1>12. Implemented(q)' = Implemented(q)
  BY <1>2, <1>5, <1>6 DEF Implemented, Reports
<1>13. QED
  BY <1>5, <1>6, <1>7, <1>10, <1>11, <1>12 DEF SameJudgement

\* Decisions on specialists: taken once, for the round the run is in.
DecisionsFinal ==
  \A s \in Specialists : \A q \in Rounds :
    q # round \/ decision[s][q] # "none" => decision'[s][q] = decision[s][q]

LEMMA RipeStays ==
  ASSUME NEW q \in Rounds, Implemented(q) => Implemented(q)',
         \A s \in Specialists : Reports(s, q) # {} => Reports(s, q)' # {},
         DecisionsFinal, Ripe(q)
  PROVE  Ripe(q)'
  BY DEF DecisionsFinal, Ripe, EvidenceComplete

LEMMA SoundStays ==
  ASSUME NEW q, q = round, UNCHANGED round, SameJudgement(q), Ripe(q) => Ripe(q)',
         NEW t, NEW S, NEW w, Sound(t, S, w)
  PROVE  Sound(t, S, w)'
<1>1. /\ Judged(q)' = Judged(q) /\ Implemented(q)' = Implemented(q)
      /\ Verdict(q, "approved")' = Verdict(q, "approved")
      /\ Verdict(q, "changes_requested")' = Verdict(q, "changes_requested")
  BY DEF SameJudgement
<1>2. QED
  BY <1>1 DEF Sound
-----------------------------------------------------------------------------
(* The queues: most steps leave a task with nothing that a verdict, a      *)
(* review or a reopening depends on.                                       *)

QuietQueues ==
  /\ Announced' => Announced
  /\ NoVerdictPending => NoVerdictPending'
  /\ \A u \in Tasks : Sound(u, todo'[u], waits'[u])

Plain(S) == \A x \in S : x.round <= round /\ x.do \notin Deciding \cup {"insert", "reopen"}

LEMMA RankType ==
  ASSUME NEW x \in Steps
  PROVE  Rank(x.do) \in 1..7
<1>1. PICK k \in DOMAIN Ranked : x.do \in Ranked[k]
  BY DEF Steps
<1>2. k \in 1..7
  BY DEF Ranked
<1>3. QED
  BY <1>1, <1>2, RankIs

LEMMA SameQueues ==
  ASSUME VerdictInv, UNCHANGED <<round, todo, waits>>, workflow' = "ready" => workflow = "ready"
  PROVE  QuietQueues
  BY DEF VerdictInv, Queues, QuietQueues, Announced, NoVerdictPending

LEMMA QueueStep ==
  ASSUME VerdictInv, UNCHANGED round, workflow' = "ready" => workflow = "ready",
         NEW t \in Tasks, NEW S, NEW w, Sound(t, S, w),
         \A u \in Tasks : todo'[u] = IF u = t THEN S ELSE todo[u],
         \A u \in Tasks : waits'[u] = IF u = t THEN w ELSE waits[u],
         (\E x \in S : x.do \in Deciding) => (\E x \in todo[t] : x.do \in Deciding),
         (\E x \in S : x.do = "reopen") => workflow = "ready"
  PROVE  QuietQueues
<1>1. Announced' => Announced
  BY DEF Announced
<1>2. NoVerdictPending => NoVerdictPending'
  BY DEF NoVerdictPending
<1>3. \A u \in Tasks : Sound(u, todo'[u], waits'[u])
  BY DEF VerdictInv, Queues
<1>4. QED
  BY <1>1, <1>2, <1>3 DEF QuietQueues

LEMMA WaitsIs ==
  ASSUME TypeOK, NEW t \in Tasks, NEW S, NEW r, Run(t, S) \/ Pause(t, S) \/ Drain(t, r, S)
  PROVE  \E w : /\ \A u \in Tasks : waits'[u] = IF u = t THEN w ELSE waits[u]
                /\ Drain(t, r, S) => w = r
<1>1. CASE Drain(t, r, S)
  <2>1. \A u \in Tasks : waits'[u] = IF u = t THEN r ELSE waits[u]
    BY <1>1 DEF Drain, TypeOK
  <2>2. QED
    BY <2>1
<1>2. CASE ~Drain(t, r, S)
  <2>1. \A u \in Tasks : waits'[u] = IF u = t THEN waits'[t] ELSE waits[u]
    BY <1>2 DEF Run, Pause, TypeOK
  <2>2. QED
    BY <1>2, <2>1
<1>3. QED
  BY <1>1, <1>2

LEMMA PlainSound ==
  ASSUME NEW t, NEW S, NEW w, Plain(S)
  PROVE  Sound(t, S, w)
  BY DEF Plain, Sound

LEMMA PlainQuiet ==
  ASSUME VerdictInv, UNCHANGED round, workflow' = "ready" => workflow = "ready",
         NEW t \in Tasks, NEW S, Plain(S), NEW r, Run(t, S) \/ Pause(t, S) \/ Drain(t, r, S)
  PROVE  QuietQueues
<1>1. TypeOK
  BY DEF VerdictInv, EvidenceInv, Typing
<1>2. \A u \in Tasks : todo'[u] = IF u = t THEN S ELSE todo[u]
  BY <1>1, TodoIs
<1>3. PICK w : \A u \in Tasks : waits'[u] = IF u = t THEN w ELSE waits[u]
  BY <1>1, WaitsIs
<1>4. Sound(t, S, w)
  BY PlainSound
<1>5. /\ ~(\E x \in S : x.do \in Deciding)
      /\ ~(\E x \in S : x.do = "reopen")
  BY DEF Plain
<1>6. QED
  BY <1>2, <1>3, <1>4, <1>5, QueueStep

LEMMA AbandonQuiet ==
  ASSUME VerdictInv, UNCHANGED round, workflow' = "ready" => workflow = "ready",
         NEW t \in Tasks, Abandon(t)
  PROVE  QuietQueues
<1>1. Plain({}) /\ Run(t, {})
  BY DEF Plain, Abandon
<1>2. QED
  BY <1>1, PlainQuiet

LEMMA OutcomeReady ==
  ASSUME NEW t, NEW state, Outcome(t, state) = "ready"
  PROVE  state = "ready"
  BY DEF Outcome

LEMMA PublishedActive == Published("active") # "ready"
  BY DEF Published

\* The steps of a queue, as the invariant sees them.
LEMMA TakenStep ==
  ASSUME VerdictInv, NEW t \in Tasks, NEW x \in todo[t]
  PROVE  /\ Sound(t, todo[t], waits[t])
         /\ x \in Steps /\ x.to \in Roles /\ x.round \in Rounds
         /\ x.do # "reopen" => x.round <= round
         /\ round \in Rounds /\ round \in Nat /\ x.round \in Nat
<1>1. x \in Steps /\ x.to \in Roles /\ x.round \in Rounds /\ round \in Rounds
  BY QueueRest DEF VerdictInv, EvidenceInv, Typing, TypeOK
<1>2. Sound(t, todo[t], waits[t])
  BY DEF VerdictInv, Queues
<1>3. x.do # "reopen" => x.round <= round
  BY <1>2 DEF Sound
<1>4. QED
  BY <1>1, <1>2, <1>3 DEF Rounds

LEMMA RestPlain ==
  ASSUME VerdictInv, NEW t \in Tasks, NEW x \in Ready(t), x.do # "inform"
  PROVE  Plain(Rest(t, x))
<1>1. x \in todo[t] /\ \A y \in todo[t] : Rank(x.do) <= Rank(y.do)
  BY DEF Ready
<1>2. ASSUME NEW y \in todo[t], y # x
      PROVE  y.round <= round /\ y.do \notin Deciding \cup {"insert", "reopen"}
  <2>1. Sound(t, todo[t], waits[t]) /\ x \in Steps /\ y \in Steps
    BY <1>1, TakenStep
  <2>2. y.do # "reopen"
    BY <1>1, <1>2, <2>1 DEF Sound
  <2>3. y.do \notin Deciding
    BY <1>1, <1>2, <2>1 DEF Sound
  <2>4. y.do # "insert"
    <3>1. SUFFICES ASSUME y.do = "insert"
                   PROVE  FALSE
      OBVIOUS
    <3>2. Rank(x.do) > 2
      BY <1>1, <1>2, <2>1, <3>1 DEF Sound
    <3>3. Rank(x.do) <= 2 /\ Rank(x.do) \in 1..7
      BY <1>1, <2>1, <3>1, Ranks, RankType
    <3>4. QED
      BY <3>2, <3>3
  <2>5. QED
    BY <2>2, <2>3, <2>4, TakenStep
<1>3. QED
  BY <1>2 DEF Plain, Rest

LEMMA RestSound ==
  ASSUME VerdictInv, NEW t \in Tasks, NEW x \in Ready(t), NEW w
  PROVE  /\ Sound(t, Rest(t, x), w)
         /\ \A y \in Rest(t, x) : y \in todo[t] /\ y.do # "reopen"
<1>1. CASE x.do # "inform"
  <2>1. Plain(Rest(t, x))
    BY <1>1, RestPlain
  <2>2. QED
    BY <2>1, PlainSound DEF Plain, Rest
<1>2. CASE x.do = "inform"
  <2>1. x \in todo[t] /\ \A y \in todo[t] : Rank(x.do) <= Rank(y.do)
    BY DEF Ready
  <2>2. Sound(t, todo[t], waits[t]) /\ x \in Steps
    BY <2>1, TakenStep
  <2>3. ASSUME NEW y \in Rest(t, x)
        PROVE  y \in todo[t] /\ y.do # "reopen" /\ y.do # "insert"
    <3>1. y \in todo[t] /\ y # x
      BY DEF Rest
    <3>2. y.do # "reopen"
      BY <2>1, <2>2, <3>1 DEF Sound
    <3>3. y.do # "insert"
      <4>1. SUFFICES ASSUME y.do = "insert"
                     PROVE  FALSE
        OBVIOUS
      <4>2. Rank(x.do) > 2
        BY <2>1, <2>2, <3>1, <4>1 DEF Sound
      <4>3. QED
        BY <1>2, <4>2, Ranks
    <3>4. QED
      BY <3>1, <3>2, <3>3
  <2>4. QED
    BY <2>2, <2>3 DEF Sound, Rest
<1>3. QED
  BY <1>1, <1>2

LEMMA RestQuiet ==
  ASSUME VerdictInv, UNCHANGED round, workflow' = "ready" => workflow = "ready",
         NEW t \in Tasks, NEW x \in Ready(t), NEW r,
         Run(t, Rest(t, x)) \/ Pause(t, Rest(t, x)) \/ Drain(t, r, Rest(t, x))
  PROVE  QuietQueues
<1>1. TypeOK
  BY DEF VerdictInv, EvidenceInv, Typing
<1>2. \A u \in Tasks : todo'[u] = IF u = t THEN Rest(t, x) ELSE todo[u]
  BY <1>1, TodoIs
<1>3. PICK w : \A u \in Tasks : waits'[u] = IF u = t THEN w ELSE waits[u]
  BY <1>1, WaitsIs
<1>4. /\ Sound(t, Rest(t, x), w)
      /\ \A y \in Rest(t, x) : y \in todo[t] /\ y.do # "reopen"
  BY RestSound
<1>5. QED
  BY <1>2, <1>3, <1>4, QueueStep

LEMMA SendOnlyQuiet ==
  ASSUME VerdictInv, NEW t \in Tasks, NEW x \in Ready(t), SendOnly(t, x)
  PROVE  QuietQueues
<1>1. CASE (Run(t, Rest(t, x)) \/ Drain(t, x.to, Rest(t, x))) /\ UNCHANGED workflow
  BY <1>1, RestQuiet DEF SendOnly
<1>2. CASE Abandon(t) /\ workflow' = Outcome(t, workflow)
  BY <1>2, AbandonQuiet, OutcomeReady DEF SendOnly
<1>3. QED
  BY <1>1, <1>2 DEF SendOnly
-----------------------------------------------------------------------------
(* Five kinds of step: one that decides nothing, a new assignment, a       *)
(* report, the opening of a round, and the announcement.                   *)

Incidental ==
  /\ Kept /\ QuietQueues /\ DecisionsFinal
  /\ UNCHANGED round /\ pending' <= round
  /\ UNCHANGED decision \/ UNCHANGED workflow
  /\ workflow' = "ready" => workflow = "ready"

Assigning ==
  /\ \E r \in Roles, q \in Rounds : Added(r, q)
  /\ QuietQueues /\ UNCHANGED <<round, decision>> /\ pending' <= round
  /\ workflow' = "ready" => workflow = "ready"

Reporting == \E r \in Roles, v \in {"none", "approved", "changes_requested"} : Report(r, v)

Opening ==
  /\ round' = round + 1 /\ workflow' # "ready"
  /\ \E v \in {"approved", "changes_requested"} : Verdict(round, v)
  /\ \E t \in Tasks :
       /\ todo'[t] = {Step("assign", Implementer, round')}
       /\ \A u \in Tasks \ {t} : /\ todo'[u] = todo[u] /\ waits'[u] = waits[u]
                                 /\ \A x \in todo[u] : x.do \notin Deciding
  /\ UNCHANGED <<asg, active, decision, pending>>

Announcing == \E t \in Tasks : \E x \in todo[t] : RouteApproval(t, x)

StepKind == Incidental \/ Assigning \/ Reporting \/ Opening \/ Announcing

LEMMA SameKept ==
  ASSUME UNCHANGED <<asg, active>>
  PROVE  Kept
  BY DEF Kept

LEMMA SameFinal ==
  ASSUME UNCHANGED decision
  PROVE  DecisionsFinal
  BY DEF DecisionsFinal

\* A round with a verdict is complete, and so is every round before the current one.
LEMMA JudgedRipe ==
  ASSUME VerdictInv, NEW q \in Rounds, Judged(q)
  PROVE  Ripe(q)
<1>1. PICK i \in Ids(Reviewer) : asg[Reviewer][i].round = q
  BY DEF Judged, Reviews
<1>2. QED
  BY <1>1 DEF VerdictInv, RipeReviews

LEMMA PastRipe ==
  ASSUME VerdictInv, NEW q \in Rounds, q <= round, q # round
  PROVE  Ripe(q) /\ Judged(q)
<1>1. round \in Nat /\ q \in Nat
  BY DEF VerdictInv, EvidenceInv, Typing, TypeOK, Rounds
<1>2. q < round
  BY <1>1
<1>3. Judged(q)
  BY <1>2 DEF VerdictInv, Past
<1>4. QED
  BY <1>3, JudgedRipe

LEMMA TypeFacts ==
  ASSUME VerdictInv
  PROVE  /\ EvidenceInv /\ Typing /\ TypeOK /\ pending <= round
         /\ round \in Rounds /\ round \in Nat /\ pending \in Nat
         /\ Implementer \in Roles /\ Reviewer \in Roles /\ Specialists \subseteq Roles
         /\ Roles \subseteq Tasks /\ Operators \subseteq Tasks
  BY ConstantAssumption DEF VerdictInv, EvidenceInv, Typing, TypeOK, Rounds, Roles, Tasks

\* A task goes on with plain work, or gives up; the tables stay.
LEMMA PlainKind ==
  ASSUME VerdictInv, UNCHANGED <<asg, active, decision, round>>, pending' <= round,
         workflow' = "ready" => workflow = "ready",
         NEW t \in Tasks, NEW S, Plain(S), NEW r, Run(t, S) \/ Pause(t, S) \/ Drain(t, r, S)
  PROVE  Incidental
<1>1. QuietQueues
  BY PlainQuiet
<1>2. QED
  BY <1>1, SameKept, SameFinal DEF Incidental

LEMMA AbandonKind ==
  ASSUME VerdictInv, UNCHANGED <<asg, active, decision, round, pending>>,
         NEW t \in Tasks, Abandon(t), workflow' = Outcome(t, workflow)
  PROVE  Incidental
<1>1. workflow' = "ready" => workflow = "ready"
  BY OutcomeReady
<1>2. QuietQueues
  BY <1>1, AbandonQuiet
<1>3. QED
  BY <1>1, <1>2, SameKept, SameFinal, TypeFacts DEF Incidental

LEMMA InsertKind ==
  ASSUME VerdictInv, NEW t \in Tasks, NEW r \in Roles, NEW q \in Rounds, q <= round,
         NEW S, Plain(S), r = Reviewer => q = round /\ Ripe(round) /\ ~Judged(round),
         Insert(t, r, q, S), UNCHANGED <<round, decision>>
  PROVE  Incidental \/ Assigning
<1>1. CASE RepairLimitReached(r, q)
  <2>1. /\ workflow' = "needs_attention" /\ pending' = q /\ Pause(t, S)
        /\ UNCHANGED <<asg, active>>
    BY <1>1 DEF Insert
  <2>2. QED
    BY <2>1, PlainKind
<1>2. CASE ~RepairLimitReached(r, q)
  <2>1. Create(r, q, KindFor(t, r))
    BY <1>2 DEF Insert
  <2>2. /\ KindFor(t, r) \in {"plan", "implementation", "review", "evidence"}
        /\ KindFor(t, r) = "review" <=> r = Reviewer
    BY DEF KindFor, Implementer, Reviewer
  <2>3. Added(r, q)
    BY <2>1, <2>2 DEF Added
  <2>4. pending' <= round
    <3>1. pending' = 0 \/ pending' = pending
      BY <1>2 DEF Insert
    <3>2. QED
      BY <3>1, TypeFacts
  <2>5. PICK state : /\ state = "ready" => workflow = "ready"
                     /\ \/ Drain(t, r, S) /\ workflow' = state
                        \/ Abandon(t) /\ workflow' = Outcome(t, state)
    <3>1. (IF SettlesRepair(r, q) THEN Published("active") ELSE workflow) = "ready"
            => workflow = "ready"
      BY PublishedActive
    <3>2. QED
      BY <1>2, <3>1 DEF Insert
  <2>6. workflow' = "ready" => workflow = "ready"
    BY <2>5, OutcomeReady
  <2>7. QuietQueues
    BY <2>5, <2>6, PlainQuiet, AbandonQuiet
  <2>8. QED
    BY <2>3, <2>4, <2>6, <2>7 DEF Assigning
<1>3. QED
  BY <1>1, <1>2

LEMMA AssignKind ==
  ASSUME VerdictInv, NEW t \in Tasks, NEW x \in Ready(t), x.do \in {"initial", "probe", "assign", "gate"},
         NEW r \in Roles, r = Reviewer => x.round = round /\ Ripe(round) /\ ~Judged(round),
         Assign(t, r, x.round, Rest(t, x)), UNCHANGED <<round, decision>>
  PROVE  Incidental \/ Assigning
<1> DEFINE S == Rest(t, x)
           i == Step("insert", r, x.round)
<1>1. /\ x \in todo[t] /\ x.round \in Rounds /\ x.round <= round /\ Plain(S)
      /\ \A y \in todo[t] : Rank(x.do) <= Rank(y.do)
  BY TakenStep, RestPlain DEF Ready
<1>2. i.do = "insert" /\ i.to = r /\ i.round = x.round
  BY DEF Step
<1>3. CASE ~Known(r)
  <2>1. Run(t, S) /\ UNCHANGED <<workflow, pending, asg, active>>
    BY <1>3 DEF Assign
  <2>2. QED
    BY <1>1, <2>1, PlainKind, TypeFacts
<1>4. CASE Known(r) /\ r \in owed \cup Retained
  <2>1. UNCHANGED <<pending, asg, active>>
    BY <1>4 DEF Assign
  <2>2. CASE Drain(t, r, S \cup {i}) /\ UNCHANGED workflow
    <3>1. \A y \in S : Rank(y.do) > 2
      <4>1. ASSUME NEW y \in S
            PROVE  Rank(y.do) > 2
        <5>1. y \in todo[t] /\ y \in Steps /\ x \in Steps
          BY <1>1, TakenStep DEF Rest
        <5>2. Rank(x.do) >= 4 /\ Rank(x.do) <= Rank(y.do)
          BY <1>1, <5>1, Ranks
        <5>3. Rank(x.do) \in 1..7 /\ Rank(y.do) \in 1..7
          BY <5>1, RankType
        <5>4. QED
          BY <5>2, <5>3
      <4>2. QED
        BY <4>1
    <3>2. Sound(t, S \cup {i}, r)
      <4>1. Sound(t, S, r) /\ \A y \in S : y.do \notin Deciding \cup {"insert", "reopen"}
        BY <1>1, PlainSound DEF Plain
      <4> HIDE DEF S, i
      <4>2. QED
        BY <1>1, <1>2, <3>1, <4>1 DEF Sound, Deciding
    <3>3. /\ ~(\E y \in S \cup {i} : y.do \in Deciding)
          /\ ~(\E y \in S \cup {i} : y.do = "reopen")
      BY <1>1, <1>2 DEF Plain, Deciding
    <3>4. /\ \A u \in Tasks : todo'[u] = IF u = t THEN S \cup {i} ELSE todo[u]
          /\ \A u \in Tasks : waits'[u] = IF u = t THEN r ELSE waits[u]
      BY <2>2, TypeFacts DEF Drain, TypeOK
    <3> HIDE DEF S, i
    <3>5. QuietQueues
      BY <2>2, <3>2, <3>3, <3>4, QueueStep
    <3>6. QED
      BY <2>1, <2>2, <3>5, SameKept, SameFinal, TypeFacts DEF Incidental
  <2>3. CASE Abandon(t) /\ workflow' = Outcome(t, workflow)
    BY <2>1, <2>3, AbandonKind
  <2>4. QED
    BY <1>4, <2>2, <2>3 DEF Assign
<1>5. CASE Known(r) /\ r \notin owed \cup Retained
  <2>1. Insert(t, r, x.round, S)
    BY <1>5 DEF Assign
  <2>2. QED
    BY <1>1, <2>1, InsertKind
<1>6. QED
  BY <1>3, <1>4, <1>5
-----------------------------------------------------------------------------
(* Every action is a step of one of the five kinds.                        *)

\* The queues stay, and so do the pointers; the rows are edited at most.
LEMMA EditKind ==
  ASSUME VerdictInv, Kept, UNCHANGED <<decision, round, pending, todo, waits>>,
         workflow' = "ready" => workflow = "ready"
  PROVE  Incidental
  BY SameQueues, SameFinal, TypeFacts DEF Incidental

LEMMA ConnectionsKind ==
  ASSUME VerdictInv, Connections
  PROVE  Incidental
<1>1. ASSUME NEW r \in Roles, Connect(r) \/ Lose(r) \/ Unregister(r)
      PROVE  Incidental
  BY <1>1, EditKind, SameKept DEF Connect, Lose, Unregister, durable
<1>2. ASSUME NEW r \in Roles, StartWorkflow(r)
      PROVE  Incidental
  <2> DEFINE S == {Step("baseline", x, 1) : x \in Roles} \cup
                  {Step("begin", r, 1), Step("decide", r, 1), Step("initial", Implementer, 1),
                   Step("started", r, 1)}
  <2>1. Run(r, S) /\ UNCHANGED <<asg, active, decision, round, pending>> /\ r \in Tasks
        /\ workflow' = "initializing"
    BY <1>2, TypeFacts DEF StartWorkflow
  <2>2. Plain(S)
    <3>1. 1 <= round
      BY TypeFacts DEF Rounds
    <3>2. QED
      BY <3>1 DEF Plain, Step, Deciding
  <2> HIDE DEF S
  <2>3. QED
    BY <2>1, <2>2, PlainKind, TypeFacts
<1>3. ASSUME NEW r \in Roles, Recover(r)
      PROVE  Incidental
  <2>1. UNCHANGED <<active, decision, round, pending, todo, waits>>
    BY <1>3 DEF Recover
  <2>2. workflow' = "ready" => workflow = "ready"
    BY <1>3 DEF Recover, Await
  <2>3. CASE UNCHANGED asg
    BY <2>1, <2>2, <2>3, SameKept, EditKind
  <2>4. CASE /\ Newest(r) # 0 /\ asg[r][Newest(r)].state \in {"delivering", "uncertain"}
             /\ asg' = [asg EXCEPT ![r][Newest(r)].state = "uncertain"]
    <3>1. Newest(r) \in Ids(r) /\ asg[r][Newest(r)].state # "completed"
      BY <2>4, NewestRow, TypeFacts
    <3>2. Kept
      BY <2>1, <2>4, <3>1, StateKept, TypeFacts
    <3>3. QED
      BY <2>1, <2>2, <3>2, EditKind
  <2>5. CASE Newest(r) # 0 /\ \E owes \in {"retry", "attention"} :
                asg' = [asg EXCEPT ![r][Newest(r)].owes = owes]
    <3>1. Newest(r) \in Ids(r)
      BY <2>5, NewestRow, TypeFacts
    <3>2. Kept
      BY <2>1, <2>5, <3>1, OwesKept, TypeFacts
    <3>3. QED
      BY <2>1, <2>2, <3>2, EditKind
  <2>6. QED
    BY <1>3, <2>3, <2>4, <2>5 DEF Recover, Await
<1>4. QED
  BY <1>1, <1>2, <1>3 DEF Connections

LEMMA MessagesKind ==
  ASSUME VerdictInv, Messages
  PROVE  Incidental \/ Reporting
<1>1. ASSUME NEW r \in Roles, Working(r), UNCHANGED <<active, decision, round, pending, memory>>,
             workflow' = "ready" => workflow = "ready",
             \/ \E st \in {"accepted", "uncertain"} :
                  asg' = [asg EXCEPT ![r][active[r]].state = st]
             \/ \E owes \in {"reminder", "retry", "attention"} :
                  asg' = [asg EXCEPT ![r][active[r]].owes = owes]
             \/ UNCHANGED asg
      PROVE  Incidental
  <2>1. active[r] \in Ids(r) /\ asg[r][active[r]].state # "completed"
    BY <1>1, CurrentRow, TypeFacts DEF EvidenceInv, ActiveUnfinished
  <2>2. Kept
    BY <1>1, <2>1, StateKept, OwesKept, SameKept, TypeFacts
  <2>3. UNCHANGED <<todo, waits>>
    BY <1>1 DEF memory
  <2>4. QED
    BY <1>1, <2>2, <2>3, EditKind
<1>2. ASSUME NEW r \in Roles, Ack(r) \/ AckUncertain(r)
      PROVE  Incidental
  <2>1. /\ Working(r) /\ UNCHANGED <<active, decision, round, pending, memory>>
        /\ workflow' = "ready" => workflow = "ready"
        /\ \E st \in {"accepted", "uncertain"} : asg' = [asg EXCEPT ![r][active[r]].state = st]
    BY <1>2 DEF Ack, AckUncertain
  <2>2. QED
    BY <1>1, <2>1
<1>3. ASSUME NEW r \in Roles, Remind(r) \/ RecoveryTurn(r) \/ RaiseAttention(r) \/ DenyTurn(r)
      PROVE  Incidental
  <2>1. /\ Working(r) /\ UNCHANGED <<active, decision, round, pending, memory>>
        /\ workflow' = "ready" => workflow = "ready"
        /\ \E owes \in {"reminder", "retry", "attention"} :
             asg' = [asg EXCEPT ![r][active[r]].owes = owes]
    BY <1>3 DEF Remind, RecoveryTurn, RaiseAttention, DenyTurn, Await
  <2>2. QED
    BY <1>1, <2>1
<1>4. ASSUME NEW r \in Roles, NEW st \in {"idle", "active"}, Lifecycle(r, st)
      PROVE  Incidental
  <2>1. /\ UNCHANGED <<asg, active, decision, round, pending, todo, waits>>
        /\ workflow' = "ready" => workflow = "ready"
    BY <1>4 DEF Lifecycle, memory
  <2>2. QED
    BY <2>1, SameKept, EditKind
<1>5. QED
  BY <1>2, <1>3, <1>4 DEF Messages, Reporting

LEMMA StartupKind ==
  ASSUME VerdictInv, NEW t \in Tasks, NEW x \in todo[t],
         Baseline(t, x) \/ Begin(t, x) \/ DecideProbe(t, x) \/ Started(t, x) \/ Inform(t, x)
  PROVE  Incidental
<1>1. x \in Ready(t) /\ x.round \in Rounds
  BY TakenStep DEF Baseline, Begin, DecideProbe, Started, Inform, Takes
<1>2. ASSUME SendOnly(t, x)
      PROVE  Incidental
  <2>1. QuietQueues
    BY <1>1, <1>2, SendOnlyQuiet
  <2>2. /\ UNCHANGED <<asg, active, decision, round, pending>>
        /\ workflow' = "ready" => workflow = "ready"
    BY <1>2, OutcomeReady DEF SendOnly
  <2>3. QED
    BY <2>1, <2>2, SameKept, SameFinal, TypeFacts DEF Incidental
<1>3. ASSUME UNCHANGED <<asg, active, decision, round, pending>>, Run(t, Rest(t, x)),
             workflow' = "ready" => workflow = "ready"
      PROVE  Incidental
  BY <1>1, <1>3, RestQuiet, SameKept, SameFinal, TypeFacts DEF Incidental
<1>4. CASE Baseline(t, x)
  BY <1>2, <1>4 DEF Baseline
<1>5. CASE Begin(t, x)
  BY <1>3, <1>5, PublishedActive DEF Begin
<1>6. CASE Started(t, x)
  BY <1>3, <1>6 DEF Started, durable
<1>7. CASE Inform(t, x)
  BY <1>2, <1>3, <1>7 DEF Inform, durable
<1>8. CASE DecideProbe(t, x)
  <2>1. /\ UNCHANGED <<asg, active, round, pending, workflow>>
        /\ Plain(Rest(t, x)) /\ 1 <= round /\ 1 \in Rounds
    BY <1>1, <1>8, RestPlain, TypeFacts, ConstantAssumption DEF DecideProbe, Takes, Rounds
  <2>2. CASE UNCHANGED decision /\ Pause(t, Rest(t, x))
    BY <2>1, <2>2, PlainKind, TypeFacts
  <2>3. CASE Probe \in Specialists /\ \E d \in Choices(Probe) :
               /\ decision[Probe][1] \in {"none", d}
               /\ decision' = [decision EXCEPT ![Probe][1] = d]
               /\ Pause(t, Rest(t, x) \cup IF d = "run" THEN {Step("probe", Probe, 1)} ELSE {})
    <3>1. PICK d \in Choices(Probe) :
               /\ decision[Probe][1] \in {"none", d}
               /\ decision' = [decision EXCEPT ![Probe][1] = d]
               /\ Pause(t, Rest(t, x) \cup IF d = "run" THEN {Step("probe", Probe, 1)} ELSE {})
      BY <2>3
    <3>2. Plain(Rest(t, x) \cup IF d = "run" THEN {Step("probe", Probe, 1)} ELSE {})
      BY <2>1 DEF Plain, Step, Deciding
    <3>3. QuietQueues
      BY <2>1, <3>1, <3>2, PlainQuiet
    <3>4. ASSUME 1 # round
          PROVE  decision[Probe][1] = d
      <4>1. Ripe(1) /\ d # "none"
        BY <2>1, <3>1, <3>4, PastRipe DEF Choices
      <4>2. decision[Probe][1] # "none"
        BY <2>3, <4>1 DEF Ripe, EvidenceComplete
      <4>3. QED
        BY <3>1, <4>2
    <3>5. DecisionsFinal
      <4>1. \A s \in Specialists : \A q \in Rounds :
              decision'[s][q] = IF s = Probe /\ q = 1 THEN d ELSE decision[s][q]
        BY <2>1, <2>3, <3>1, TypeFacts DEF TypeOK
      <4>2. QED
        BY <3>1, <3>4, <4>1 DEF DecisionsFinal
    <3>6. QED
      BY <2>1, <3>3, <3>5, SameKept, TypeFacts DEF Incidental
  <2>4. QED
    BY <1>8, <2>2, <2>3 DEF DecideProbe
<1>9. QED
  BY <1>4, <1>5, <1>6, <1>7, <1>8

LEMMA RoutingKind ==
  ASSUME VerdictInv, NEW t \in Tasks, NEW x \in todo[t],
         RouteEvidence(t, x) \/ RoutePlan(t, x) \/ RouteImplementation(t, x) \/ RouteRejection(t, x)
  PROVE  Incidental
<1> DEFINE q == x.round
<1>1. x \in Ready(t) /\ q \in Rounds /\ Sound(t, todo[t], waits[t]) /\ (x.do # "reopen" => q <= round)
  BY TakenStep DEF RouteEvidence, RoutePlan, RouteImplementation, RouteRejection, Takes
<1>2. CASE RouteEvidence(t, x)
  <2>1. Plain({Step("inform", Implementer, q), Step("inform", Reviewer, q),
               Step("gate", Reviewer, q)})
    BY <1>1, <1>2 DEF RouteEvidence, Takes, Plain, Step, Deciding
  <2>2. QED
    BY <1>2, <2>1, PlainKind, TypeFacts DEF RouteEvidence, durable
<1>3. CASE RoutePlan(t, x)
  <2>1. Plain({Step("inform", Implementer, q)} \cup
              IF Phased THEN {Step("assign", Implementer, q)} ELSE {})
    BY <1>1, <1>3 DEF RoutePlan, Takes, Plain, Step, Deciding
  <2>2. QED
    BY <1>3, <2>1, PlainKind, TypeFacts DEF RoutePlan, durable
<1>4. CASE RouteImplementation(t, x)
  <2>1. PICK run \in SUBSET Undecided(q) :
          /\ decision' = [s \in Specialists |->
                           IF s \in Undecided(q)
                           THEN [decision[s] EXCEPT ![q] = IF s \in run THEN "run" ELSE "skipped"]
                           ELSE decision[s]]
          /\ Run(t, {Step("inform", s, q) : s \in run \cup {Reviewer}} \cup
                     {Step("assign", s, q) : s \in run} \cup {Step("gate", Reviewer, q)})
    BY <1>4 DEF RouteImplementation
  <2>2. UNCHANGED <<workflow, round, pending, asg, active>> /\ q <= round
    BY <1>1, <1>4 DEF RouteImplementation, Takes
  <2>3. Plain({Step("inform", s, q) : s \in run \cup {Reviewer}} \cup
              {Step("assign", s, q) : s \in run} \cup {Step("gate", Reviewer, q)})
    BY <2>2 DEF Plain, Step, Deciding
  <2>4. QuietQueues
    BY <2>1, <2>2, <2>3, PlainQuiet
  <2>5. q # round => Undecided(q) = {}
    BY <1>1, <2>2, PastRipe DEF Ripe, EvidenceComplete, Undecided
  <2>6. ASSUME NEW s \in Specialists, NEW p \in Rounds, p # round \/ decision[s][p] # "none"
        PROVE  decision'[s][p] = decision[s][p]
    <3>1. decision[s] \in [Rounds -> Decisions]
      BY TypeFacts DEF TypeOK
    <3>2. s \notin Undecided(q) \/ p # q
      BY <2>5, <2>6 DEF Undecided
    <3>3. QED
      BY <2>1, <3>1, <3>2
  <2>7. QED
    BY <2>2, <2>4, <2>6, SameKept, TypeFacts DEF Incidental, DecisionsFinal
<1>5. CASE RouteRejection(t, x)
  <2> DEFINE a == Step("inform", Implementer, q)
             b == Step("advance", Implementer, q)
  <2>1. /\ x.do = "rejected" /\ Run(t, {a, b})
        /\ UNCHANGED <<workflow, round, pending, asg, active, decision>>
    BY <1>5 DEF RouteRejection, Takes, durable
  <2>2. t = Reviewer /\ q = round /\ Verdict(round, "changes_requested")
    BY <1>1, <2>1 DEF Sound, Deciding
  <2>3. /\ a.do = "inform" /\ a.round = q /\ b.do = "advance" /\ b.round = q
    BY DEF Step
  <2> HIDE DEF a, b
  <2>4. ASSUME NEW w
        PROVE  Sound(t, {a, b}, w)
    BY <1>1, <2>1, <2>2, <2>3 DEF Sound, Deciding
  <2>5. PICK w : \A u \in Tasks : waits'[u] = IF u = t THEN w ELSE waits[u]
    BY <2>1, WaitsIs, TypeFacts
  <2>6. \A u \in Tasks : todo'[u] = IF u = t THEN {a, b} ELSE todo[u]
    BY <2>1, TodoIs, TypeFacts
  <2>7. /\ \E y \in todo[t] : y.do \in Deciding
        /\ ~(\E y \in {a, b} : y.do = "reopen")
    BY <2>1, <2>3 DEF Deciding
  <2>8. QuietQueues
    BY <2>1, <2>4, <2>5, <2>6, <2>7, QueueStep
  <2>9. QED
    BY <2>1, <2>8, SameKept, SameFinal, TypeFacts DEF Incidental
<1>6. QED
  BY <1>2, <1>3, <1>4, <1>5
\* The gate opens only for the current round, and only before its verdict.
LEMMA GateCurrent ==
  ASSUME VerdictInv, NEW q \in Rounds, q <= round, GateOpen(q)
  PROVE  q = round /\ Ripe(round) /\ ~Judged(round)
<1>1. Ripe(q) /\ ~Judged(q)
  BY DEF GateOpen, Ripe, Judged, Reviews
<1>2. q = round
  BY <1>1, PastRipe
<1>3. QED
  BY <1>1, <1>2

LEMMA DeliveryKind ==
  ASSUME VerdictInv, NEW t \in Tasks,
         \/ \E x \in todo[t] : Assignments(t, x) \/ Gate(t, x)
         \/ Drained(t) \/ DrainFails(t)
  PROVE  Incidental \/ Assigning
<1>1. ASSUME NEW x \in todo[t], Assignments(t, x)
      PROVE  Incidental \/ Assigning
  <2>1. /\ Sound(t, todo[t], waits[t]) /\ x.to \in Roles /\ x.round \in Rounds
        /\ x.do # "reopen" => x.round <= round
        /\ UNCHANGED <<round, decision>> /\ x \in Ready(t)
    BY <1>1, TakenStep DEF Assignments, Takes
  <2>2. CASE x.do \in {"initial", "probe", "assign"} /\ Assign(t, x.to, x.round, Rest(t, x))
    <3>1. x.to # Reviewer
      BY <2>2, TypeFacts DEF EvidenceInv, ReviewQueue
    <3>2. QED
      BY <2>1, <2>2, <3>1, AssignKind
  <2>3. CASE x.do = "insert" /\ Insert(t, x.to, x.round, Rest(t, x))
    <3>1. x.to = Reviewer => x.round = round /\ Ripe(round) /\ ~Judged(round)
      BY <2>1, <2>3 DEF Sound
    <3>2. Plain(Rest(t, x)) /\ x.round <= round
      BY <2>1, <2>3, RestPlain
    <3>3. QED
      BY <2>1, <2>3, <3>1, <3>2, InsertKind
  <2>4. QED
    BY <1>1, <2>2, <2>3 DEF Assignments, Takes
<1>2. ASSUME NEW x \in todo[t], Gate(t, x)
      PROVE  Incidental \/ Assigning
  <2>1. /\ x.round \in Rounds /\ x.round <= round /\ x \in Ready(t) /\ x.do = "gate"
        /\ UNCHANGED <<round, decision>>
    BY <1>2, TakenStep DEF Gate, Takes
  <2>2. CASE GateOpen(x.round) /\ Assign(t, Reviewer, x.round, Rest(t, x))
    BY <2>1, <2>2, GateCurrent, AssignKind, TypeFacts
  <2>3. CASE Run(t, Rest(t, x)) /\ UNCHANGED <<workflow, pending, asg, active>>
    BY <2>1, <2>3, RestPlain, PlainKind, TypeFacts
  <2>4. QED
    BY <1>2, <2>2, <2>3 DEF Gate
<1>3. CASE Drained(t)
  <2>1. Plain({})
    BY DEF Plain
  <2>2. QED
    BY <1>3, <2>1, PlainKind, TypeFacts DEF Drained, durable
<1>4. CASE DrainFails(t)
  BY <1>4, AbandonKind DEF DrainFails
<1>5. QED
  BY <1>1, <1>2, <1>3, <1>4

LEMMA AdvanceKind ==
  ASSUME VerdictInv, NEW t \in Tasks, NEW x \in todo[t], Advance(t, x)
  PROVE  Opening
<1>1. /\ x.do = "advance" /\ OpenRound(t, x.round + 1) /\ Sound(t, todo[t], waits[t])
  BY TakenStep DEF Advance, Takes
<1>2. t = Reviewer /\ x.round = round /\ Verdict(round, "changes_requested")
  BY <1>1 DEF Sound, Deciding
<1>3. /\ round' = round + 1 /\ workflow' # "ready"
      /\ UNCHANGED <<asg, active, decision, pending>>
      /\ Pause(t, {Step("assign", Implementer, round + 1)})
  BY <1>1, <1>2, PublishedActive DEF OpenRound
<1>4. /\ todo'[t] = {Step("assign", Implementer, round')}
      /\ \A u \in Tasks \ {t} : todo'[u] = todo[u] /\ waits'[u] = waits[u]
  BY <1>3, TypeFacts DEF Pause, TypeOK
<1>5. \A u \in Tasks \ {t} : \A y \in todo[u] : y.do \notin Deciding
  BY <1>2 DEF VerdictInv, Queues, Sound
<1>6. QED
  BY <1>2, <1>3, <1>4, <1>5 DEF Opening

LEMMA ReopenedKind ==
  ASSUME VerdictInv, NEW t \in Tasks, NEW x \in todo[t], Reopened(t, x)
  PROVE  Incidental \/ Opening
<1>1. /\ x.do = "reopen" /\ OpenRound(t, x.round) /\ Sound(t, todo[t], waits[t])
      /\ x.round \in Nat /\ round \in Nat
  BY TakenStep DEF Reopened, Takes
<1>2. x.round = round + 1 \/ x.round = round
  BY <1>1 DEF Sound
<1>3. /\ round' = x.round /\ workflow' # "ready"
      /\ UNCHANGED <<asg, active, decision, pending>>
      /\ Pause(t, {Step("assign", Implementer, x.round)})
  BY <1>1, PublishedActive DEF OpenRound
<1>4. CASE x.round = round
  <2>1. Plain({Step("assign", Implementer, x.round)})
    BY <1>1, <1>4 DEF Plain, Step, Deciding
  <2>2. QED
    BY <1>3, <1>4, <2>1, PlainKind, TypeFacts
<1>5. CASE x.round = round + 1
  <2>1. Announced
    BY <1>1, <1>5 DEF Announced
  <2>2. Verdict(round, "approved") /\ \A u \in Tasks : \A y \in todo[u] : y.do \notin Deciding
    BY <2>1 DEF VerdictInv, OneAtATime, NoVerdictPending
  <2>3. /\ todo'[t] = {Step("assign", Implementer, round')}
        /\ \A u \in Tasks \ {t} : todo'[u] = todo[u] /\ waits'[u] = waits[u]
    BY <1>3, TypeFacts DEF Pause, TypeOK
  <2>4. QED
    BY <1>3, <1>5, <2>2, <2>3 DEF Opening
<1>6. QED
  BY <1>2, <1>4, <1>5

LEMMA OperatorKind ==
  ASSUME VerdictInv, NEW t \in Tasks, NEW x \in todo[t],
         Resume(t, x) \/ Confirm(t, x) \/ Answer(t, x)
  PROVE  Incidental
<1>1. Plain({})
  BY DEF Plain
<1>2. CASE Resume(t, x)
  <2>1. /\ Run(t, {}) /\ UNCHANGED <<active, decision, round, pending>> /\ x.to \in Roles
        /\ workflow' = "ready" => workflow = "ready"
    BY <1>2, PublishedActive, TakenStep DEF Resume
  <2>2. Kept
    <3>1. CASE UNCHANGED asg
      BY <2>1, <3>1, SameKept
    <3>2. CASE Working(x.to) /\ asg' = [asg EXCEPT ![x.to][active[x.to]].owes = "resumed"]
      BY <2>1, <3>2, CurrentRow, OwesKept, TypeFacts
    <3>3. QED
      BY <1>2, <3>1, <3>2 DEF Resume
  <2>3. QuietQueues
    BY <1>1, <2>1, PlainQuiet
  <2>4. QED
    BY <2>1, <2>2, <2>3, SameFinal, TypeFacts DEF Incidental
<1>3. CASE Confirm(t, x)
  <2>1. Plain({Step("answer", Implementer, x.round)})
    BY <1>3, TakenStep DEF Confirm, Takes, Plain, Step, Deciding
  <2>2. /\ UNCHANGED <<asg, active, decision, round, pending>>
        /\ Run(t, {}) \/ Pause(t, {Step("answer", Implementer, x.round)})
        /\ workflow' = "ready" => workflow = "ready"
    BY <1>3 DEF Confirm
  <2>3. QED
    BY <1>1, <2>1, <2>2, PlainKind, TypeFacts
<1>4. CASE Answer(t, x)
  BY <1>1, <1>4, PlainKind, TypeFacts DEF Answer, durable
<1>5. QED
  BY <1>2, <1>3, <1>4

LEMMA ControlsKind ==
  ASSUME VerdictInv, Controls \/ ExtendCalls
  PROVE  Incidental
<1>1. ASSUME NEW o \in Operators, NEW r \in Roles, Send(o, r)
      PROVE  Incidental
  <2>1. Plain({Step("resume", r, round)})
    BY TypeFacts DEF Plain, Step, Deciding
  <2>2. QED
    BY <1>1, <2>1, PlainKind, TypeFacts DEF Send, durable
<1>2. ASSUME NEW o \in Operators, Reopen(o)
      PROVE  Incidental
  <2> DEFINE x == Step("reopen", Implementer, round + 1)
  <2>1. /\ workflow = "ready" /\ Drain(o, Implementer, {x}) /\ o \in Tasks
        /\ UNCHANGED <<workflow, asg, active, decision, round, pending>>
    BY <1>2, TypeFacts DEF Reopen, durable
  <2>2. x.do = "reopen" /\ x.round = round + 1
    BY DEF Step
  <2> HIDE DEF x
  <2>3. Sound(o, {x}, Implementer)
    BY <2>2 DEF Sound, Deciding
  <2>4. /\ \A u \in Tasks : todo'[u] = IF u = o THEN {x} ELSE todo[u]
        /\ \A u \in Tasks : waits'[u] = IF u = o THEN Implementer ELSE waits[u]
    BY <2>1, TypeFacts DEF Drain, TypeOK
  <2>5. ~(\E y \in {x} : y.do \in Deciding)
    BY <2>2 DEF Deciding
  <2>6. QuietQueues
    BY <2>1, <2>3, <2>4, <2>5, QueueStep
  <2>7. QED
    BY <2>1, <2>6, SameKept, SameFinal, TypeFacts DEF Incidental
<1>3. ASSUME NEW o \in Operators, ApproveRepair(o)
      PROVE  Incidental
  <2>1. Plain({Step("assign", Implementer, pending), Step("confirm", Implementer, pending)})
    BY TypeFacts DEF Plain, Step, Deciding
  <2>2. QED
    BY <1>3, <2>1, PlainKind, TypeFacts DEF ApproveRepair
<1>4. ASSUME NEW o \in Operators, HangUp(o)
      PROVE  Incidental
  BY <1>4, AbandonKind, TypeFacts DEF HangUp
<1>5. CASE ExtendCalls
  BY <1>5, EditKind, SameKept DEF ExtendCalls, memory
<1>6. QED
  BY <1>1, <1>2, <1>3, <1>4, <1>5 DEF Controls

LEMMA RestartKind ==
  ASSUME VerdictInv, Restart
  PROVE  Incidental
<1>1. /\ UNCHANGED <<asg, active, decision, round, pending>>
      /\ workflow' = "ready" => workflow = "ready"
  BY DEF Restart
<1>2. \A u \in Tasks : todo'[u] = {}
  BY DEF Restart
<1>3. QuietQueues
  BY <1>1, <1>2 DEF QuietQueues, Announced, NoVerdictPending, Sound
<1>4. QED
  BY <1>1, <1>3, SameKept, SameFinal, TypeFacts DEF Incidental

LEMMA NextKind ==
  ASSUME VerdictInv, [Next]_vars
  PROVE  StepKind
<1>1. ASSUME NEW t \in Tasks, Continuation(t)
      PROVE  StepKind
  BY <1>1, StartupKind, RoutingKind, DeliveryKind, AdvanceKind, ReopenedKind, OperatorKind
     DEF Continuation, StepKind, Announcing
<1>2. CASE Connections \/ Messages
  BY <1>2, ConnectionsKind, MessagesKind DEF StepKind
<1>3. CASE Controls \/ ExtendCalls \/ Restart
  BY <1>3, ControlsKind, RestartKind DEF StepKind
<1>4. CASE UNCHANGED vars
  BY <1>4, EditKind, SameKept DEF vars, durable, memory, StepKind
<1>5. QED
  BY <1>1, <1>2, <1>3, <1>4 DEF Next, Turn
-----------------------------------------------------------------------------
(* Each kind of step keeps the invariant.                                  *)

LEMMA QueuesStay ==
  ASSUME VerdictInv, QuietQueues, UNCHANGED round,
         NEW q, q = round, SameJudgement(q), Ripe(q) => Ripe(q)'
  PROVE  Queues' /\ OneAtATime'
<1>1. ASSUME NEW u \in Tasks
      PROVE  Sound(u, todo[u], waits[u])'
  <2>1. PICK S, w : S = todo'[u] /\ w = waits'[u]
    OBVIOUS
  <2>2. Sound(u, S, w)
    BY <2>1 DEF QuietQueues
  <2>3. Sound(u, S, w)'
    BY <2>2, SoundStays
  <2>4. QED
    BY <2>1, <2>3 DEF Sound
<1>2. OneAtATime'
  <2>1. Announced' => Verdict(q, "approved") /\ NoVerdictPending'
    BY DEF QuietQueues, VerdictInv, OneAtATime
  <2>2. Verdict(q, "approved") => Verdict(q, "approved")'
    BY DEF SameJudgement
  <2>3. QED
    BY <2>1, <2>2 DEF OneAtATime, Verdict, Reviews
<1>3. QED
  BY <1>1, <1>2 DEF Queues

\* Every row's round is a round, before and after the step.
LEMMA RowRound ==
  ASSUME TypeOK, NEW r \in Roles, NEW i \in Ids(r)
  PROVE  asg[r][i] \in Assignment /\ asg[r][i].round \in Rounds
<1>1. asg[r] \in Seq(Assignment) /\ i \in 1..Len(asg[r])
  BY DEF TypeOK, Ids
<1>2. asg[r][i] \in Assignment
  BY <1>1
<1>3. QED
  BY <1>2 DEF Assignment

LEMMA JudgementRipe ==
  ASSUME NEW q \in Rounds, SameJudgement(q), DecisionsFinal, Ripe(q)
  PROVE  Ripe(q)'
  BY RipeStays DEF SameJudgement

LEMMA IncidentalKeeps ==
  ASSUME VerdictInv, EvidenceInv', Incidental
  PROVE  VerdictInv'
<1>1. /\ TypeOK /\ round \in Rounds /\ Reviewer \in Roles /\ Kept /\ DecisionsFinal
      /\ UNCHANGED round /\ QuietQueues
  BY TypeFacts DEF Incidental
<1>2. \A r \in Roles : Ids(r)' = Ids(r)
  BY <1>1 DEF Kept, Ids
<1>3. \A q \in Rounds : SameJudgement(q) /\ (Ripe(q) => Ripe(q)')
  BY <1>1, KeptJudgement, JudgementRipe
<1>4. OwnKinds' /\ RowsBehind'
  BY <1>1, <1>2 DEF Kept, VerdictInv, OwnKinds, RowsBehind
<1>5. Past'
  BY <1>1, <1>3 DEF SameJudgement, VerdictInv, Past
<1>6. Reviewing'
  <2>1. PICK q \in Rounds : q = round
    BY <1>1
  <2>2. ASSUME Working(Reviewer)'
        PROVE  Current(Reviewer)'.round = q /\ ~Judged(q)'
    <3>1. Working(Reviewer) /\ active' = active
      BY <1>1, <2>2 DEF Kept, Working
    <3>2. active[Reviewer] \in Ids(Reviewer) /\ Current(Reviewer).round = q /\ ~Judged(q)
      BY <1>1, <2>1, <3>1, CurrentRow DEF VerdictInv, Reviewing
    <3>3. ~Judged(q)'
      BY <1>3, <3>2 DEF SameJudgement
    <3>4. Current(Reviewer)'.round = q
      BY <1>1, <3>1, <3>2 DEF Kept, Current
    <3>5. QED
      BY <3>3, <3>4
  <2>3. QED
    BY <1>1, <2>1, <2>2 DEF Reviewing, Judged, Reviews
<1>7. RipeReviews'
  <2>1. ASSUME NEW i \in Ids(Reviewer)'
        PROVE  Ripe(asg[Reviewer][i].round)'
    <3>1. i \in Ids(Reviewer)
      BY <1>1, <1>2, <2>1
    <3>2. PICK q \in Rounds : q = asg[Reviewer][i].round
      BY <1>1, <3>1, RowRound
    <3>3. Ripe(q)'
      BY <1>3, <3>1, <3>2 DEF VerdictInv, RipeReviews
    <3>4. asg'[Reviewer][i].round = q
      BY <1>1, <3>1, <3>2 DEF Kept
    <3>5. QED
      BY <3>3, <3>4 DEF Ripe, Implemented, EvidenceComplete, Reports
  <2>2. QED
    BY <2>1 DEF RipeReviews
<1>8. Queues' /\ OneAtATime'
  <2>1. PICK q \in Rounds : q = round
    BY <1>1
  <2>2. QED
    BY <1>1, <1>3, <2>1, QueuesStay
<1>9. (pending <= round)'
  BY DEF Incidental
<1>10. OneVerdict'
  BY <1>3 DEF SameJudgement, VerdictInv, OneVerdict
<1>11. QED
  BY <1>4, <1>5, <1>6, <1>7, <1>8, <1>9, <1>10 DEF VerdictInv

LEMMA AssigningKeeps ==
  ASSUME VerdictInv, EvidenceInv', Assigning
  PROVE  VerdictInv'
<1>1. /\ TypeOK /\ round \in Rounds /\ round \in Nat /\ Reviewer \in Roles /\ UNCHANGED round /\ QuietQueues
      /\ DecisionsFinal
  BY TypeFacts, SameFinal DEF Assigning
<1>2. PICK r \in Roles, n \in Rounds : Added(r, n)
  BY DEF Assigning
<1>3. PICK kind \in {"plan", "implementation", "review", "evidence"} :
        Create(r, n, kind) /\ (kind = "review" <=> r = Reviewer)
  BY <1>2 DEF Added
<1>4. /\ Len(asg'[r]) = Len(asg[r]) + 1 /\ Len(asg[r]) \in Nat
      /\ asg'[r][Len(asg[r]) + 1] = New(n, kind)
      /\ \A i \in Ids(r) : asg'[r][i] = asg[r][i]
      /\ \A x \in Roles \ {r} : asg'[x] = asg[x]
      /\ active'[r] = Len(asg[r]) + 1
      /\ \A x \in Roles \ {r} : active'[x] = active[x]
  BY <1>1, <1>3, CreateKeepsRows
<1>5. New(n, kind).round = n /\ New(n, kind).kind = kind
  BY DEF New
<1>6. /\ Ids(r)' = Ids(r) \cup {Len(asg[r]) + 1} /\ \A x \in Roles \ {r} : Ids(x)' = Ids(x)
  BY <1>4 DEF Ids
<1>7. \A q \in Rounds : SameJudgement(q) /\ (Ripe(q) => Ripe(q)')
  BY <1>1, <1>2, AddedJudgement, JudgementRipe
<1>8. n <= round /\ (r = Reviewer => n = round /\ Ripe(round) /\ ~Judged(round))
  BY <1>2 DEF Added
<1>9. OwnKinds'
  BY <1>3, <1>4, <1>5, <1>6 DEF VerdictInv, OwnKinds
<1>10. RowsBehind'
  BY <1>1, <1>4, <1>5, <1>6, <1>8 DEF VerdictInv, RowsBehind
<1>11. Past'
  BY <1>1, <1>7 DEF SameJudgement, VerdictInv, Past
<1>12. Reviewing'
  <2>1. PICK q \in Rounds : q = round
    BY <1>1
  <2>2. ASSUME Working(Reviewer)'
        PROVE  Current(Reviewer)'.round = q /\ ~Judged(q)'
    <3>1. CASE r = Reviewer
      <4>1. Current(Reviewer)' = New(n, kind)
        BY <1>4, <3>1 DEF Current
      <4>2. QED
        BY <1>5, <1>7, <1>8, <2>1, <3>1, <4>1 DEF SameJudgement
    <3>2. CASE r # Reviewer
      <4>1. asg'[Reviewer] = asg[Reviewer] /\ active'[Reviewer] = active[Reviewer]
        BY <1>1, <1>4, <3>2
      <4>2. Working(Reviewer) /\ Current(Reviewer)' = Current(Reviewer)
        BY <2>2, <4>1 DEF Working, Current
      <4>3. Current(Reviewer).round = q /\ ~Judged(q)
        BY <2>1, <4>2 DEF VerdictInv, Reviewing
      <4>4. QED
        BY <1>7, <4>2, <4>3 DEF SameJudgement
    <3>3. QED
      BY <3>1, <3>2
  <2>3. QED
    BY <1>1, <2>1, <2>2 DEF Reviewing, Judged, Reviews
<1>13. RipeReviews'
  <2>1. ASSUME NEW i \in Ids(Reviewer)'
        PROVE  Ripe(asg[Reviewer][i].round)'
    <3>1. PICK q \in Rounds : q = asg'[Reviewer][i].round /\ Ripe(q)
      <4>1. CASE i \in Ids(Reviewer)
        <5>1. asg'[Reviewer][i] = asg[Reviewer][i]
          BY <1>1, <1>4, <4>1
        <5>2. QED
          BY <1>1, <4>1, <5>1, RowRound DEF VerdictInv, RipeReviews
      <4>2. CASE i \notin Ids(Reviewer)
        <5>1. r = Reviewer /\ i = Len(asg[Reviewer]) + 1
          BY <1>1, <1>6, <2>1, <4>2
        <5>2. QED
          BY <1>1, <1>4, <1>5, <1>8, <5>1
      <4>3. QED
        BY <4>1, <4>2
    <3>2. Ripe(q)'
      BY <1>7, <3>1
    <3>3. QED
      BY <3>1, <3>2 DEF Ripe, Implemented, EvidenceComplete, Reports
  <2>2. QED
    BY <2>1 DEF RipeReviews
<1>14. Queues' /\ OneAtATime'
  <2>1. PICK q \in Rounds : q = round
    BY <1>1
  <2>2. QED
    BY <1>1, <1>7, <2>1, QueuesStay
<1>15. (pending <= round)'
  BY DEF Assigning
<1>16. OneVerdict'
  BY <1>7 DEF SameJudgement, VerdictInv, OneVerdict
<1>17. QED
  BY <1>9, <1>10, <1>11, <1>12, <1>13, <1>14, <1>15, <1>16 DEF VerdictInv
\* What a report leaves behind: one row of one role, completed, with its verdict.
ReportedRow(r, v) ==
  /\ Len(asg'[r]) = Len(asg[r])
  /\ \A x \in Roles \ {r} : asg'[x] = asg[x]
  /\ \A i \in Ids(r) : i # active[r] => asg'[r][i] = asg[r][i]
  /\ asg'[r][active[r]].round = asg[r][active[r]].round
  /\ asg'[r][active[r]].kind = asg[r][active[r]].kind
  /\ asg'[r][active[r]].state = "completed" /\ asg'[r][active[r]].verdict = v
  /\ active'[r] = 0 /\ \A x \in Roles \ {r} : active'[x] = active[x]

LEMMA ReportRows ==
  ASSUME TypeOK, NEW r \in Roles, NEW v \in {"none", "approved", "changes_requested"}, Report(r, v)
  PROVE  ReportedRow(r, v) /\ active[r] \in Ids(r) /\ Current(r) = asg[r][active[r]]
<1> DEFINE e == [asg[r][active[r]] EXCEPT !.state = "completed", !.verdict = v,
                                          !.owes = "nothing"]
<1>1. active[r] \in Ids(r) /\ asg[r][active[r]] \in Assignment /\ Current(r) = asg[r][active[r]]
  BY CurrentRow DEF Report
<1>2. /\ e \in Assignment /\ e.round = asg[r][active[r]].round
      /\ e.kind = asg[r][active[r]].kind /\ e.state = "completed" /\ e.verdict = v
  BY <1>1 DEF Assignment
<1>3. asg' = [asg EXCEPT ![r] = [asg[r] EXCEPT ![active[r]] = e]]
  BY DEF Report
<1>4. asg'[r] = [asg[r] EXCEPT ![active[r]] = e] /\ \A x \in Roles \ {r} : asg'[x] = asg[x]
  BY <1>3 DEF TypeOK
<1>5. /\ Len(asg'[r]) = Len(asg[r])
      /\ \A j \in Ids(r) : asg'[r][j] = IF j = active[r] THEN e ELSE asg[r][j]
  BY <1>1, <1>2, <1>4, RowType DEF TypeOK, Ids
<1>6. active'[r] = 0 /\ \A x \in Roles \ {r} : active'[x] = active[x]
  BY DEF Report, TypeOK
<1> HIDE DEF e
<1>7. QED
  BY <1>1, <1>2, <1>4, <1>5, <1>6 DEF ReportedRow

\* The report of any role but the reviewer leaves every verdict as it was.
LEMMA OtherReport ==
  ASSUME TypeOK, NEW r \in Roles \ {Reviewer}, NEW v, ReportedRow(r, v), NEW q \in Rounds
  PROVE  /\ Judged(q)' = Judged(q) /\ Reviews(q)' = Reviews(q)
         /\ \A d \in {"approved", "changes_requested"} : Verdict(q, d)' = Verdict(q, d)
<1>1. asg'[Reviewer] = asg[Reviewer]
  BY DEF ReportedRow, Roles
<1>2. Ids(Reviewer)' = Ids(Reviewer)
  BY <1>1 DEF Ids
<1>3. QED
  BY <1>1, <1>2 DEF Judged, Reviews, Verdict

\* A report is added to what a round has, never taken from it.
LEMMA ReportGrows ==
  ASSUME TypeOK, NEW r \in Roles, NEW v, ReportedRow(r, v), NEW q \in Rounds
  PROVE  /\ \A x \in Roles : Reports(x, q) \subseteq Reports(x, q)'
         /\ \A x \in Roles \ {r} : Reports(x, q)' = Reports(x, q)
         /\ Implemented(q) => Implemented(q)'
         /\ r # Implementer => Implemented(q)' = Implemented(q)
<1>1. \A x \in Roles : Ids(x)' = Ids(x)
  BY DEF ReportedRow, Ids
<1>2. \A x \in Roles \ {r} : Reports(x, q)' = Reports(x, q)
  BY <1>1 DEF ReportedRow, Reports
<1>3. Reports(r, q) \subseteq Reports(r, q)'
  BY <1>1 DEF ReportedRow, Reports
<1>4. \A x \in Roles : Reports(x, q) \subseteq Reports(x, q)'
  BY <1>2, <1>3
<1>5. \A x \in Roles : \A i \in Ids(x) : asg'[x][i].kind = asg[x][i].kind
  BY DEF ReportedRow
<1>6. Implementer \in Roles
  BY DEF Roles
<1>7. Implemented(q) => Implemented(q)'
  BY <1>4, <1>5, <1>6 DEF Implemented, Reports
<1>8. r # Implementer => Implemented(q)' = Implemented(q)
  BY <1>2, <1>5, <1>6 DEF Implemented, Reports
<1>9. QED
  BY <1>2, <1>4, <1>7, <1>8

\* The step that a report queues.
LEMMA ReportQueues ==
  ASSUME VerdictInv, NEW r \in Roles, NEW v \in {"none", "approved", "changes_requested"}, Report(r, v)
  PROVE  /\ \A u \in Tasks : waits[u] # r
         /\ \A u \in Tasks \ {r} : todo'[u] = todo[u] /\ waits'[u] = waits[u]
         /\ Current(r).round \in Rounds /\ Current(r).round <= round
         /\ r = Reviewer => /\ v \in {"approved", "changes_requested"}
                            /\ Current(r).round = round /\ ~Judged(round)
         /\ \E x : /\ todo'[r] = {x} /\ x.round = Current(r).round
                   /\ x.do \in {"evidence", "planned", "implemented"} \cup
                               (IF r = Reviewer
                                THEN {IF v = "approved" THEN "approved" ELSE "rejected"} ELSE {})
<1> DEFINE route == CASE Current(r).kind = "evidence"       -> "evidence"
                      [] Current(r).kind = "plan"           -> "planned"
                      [] Current(r).kind = "implementation" -> "implemented"
                      [] v = "approved"                     -> "approved"
                      [] OTHER                              -> "rejected"
           x == Step(route, r, Current(r).round)
<1>1. /\ TypeOK /\ r \in Tasks /\ Working(r) /\ Reading(r)
      /\ Pause(r, {x}) /\ (Current(r).kind = "review" <=> v # "none")
  BY TypeFacts DEF Report
<1>2. \A u \in Tasks : waits[u] # r
  BY <1>1 DEF Reading
<1>3. todo'[r] = {x} /\ \A u \in Tasks \ {r} : todo'[u] = todo[u] /\ waits'[u] = waits[u]
  BY <1>1 DEF Pause, TypeOK
<1>4. /\ active[r] \in Ids(r) /\ Current(r) = asg[r][active[r]] /\ Current(r) \in Assignment
      /\ Current(r).round \in Rounds
  BY <1>1, CurrentRow
<1>5. Current(r).round <= round /\ (Current(r).kind = "review" <=> r = Reviewer)
  BY <1>4 DEF VerdictInv, RowsBehind, OwnKinds
<1>6. r = Reviewer => /\ v \in {"approved", "changes_requested"}
                      /\ Current(r).round = round /\ ~Judged(round)
  BY <1>1, <1>5 DEF VerdictInv, Reviewing
<1>7. route \in {"evidence", "planned", "implemented"} \cup
                (IF r = Reviewer THEN {IF v = "approved" THEN "approved" ELSE "rejected"} ELSE {})
  <2>1. Current(r).kind \in {"plan", "implementation", "review", "evidence"}
    BY <1>4 DEF Assignment
  <2>2. CASE Current(r).kind = "review"
    <3>1. r = Reviewer /\ route = IF v = "approved" THEN "approved" ELSE "rejected"
      BY <1>5, <2>2
    <3>2. QED
      BY <3>1
  <2>3. CASE Current(r).kind # "review"
    <3>1. route \in {"evidence", "planned", "implemented"}
      BY <1>1, <2>1, <2>3
    <3>2. QED
      BY <3>1
  <2>4. QED
    BY <2>2, <2>3
<1>8. x.do = route /\ x.round = Current(r).round
  BY DEF Step
<1> HIDE DEF route, x
<1>9. QED
  BY <1>2, <1>3, <1>4, <1>5, <1>6, <1>7, <1>8

\* The reviewer's report gives its round the verdict, and no other round any.
LEMMA ReviewReport ==
  ASSUME VerdictInv, NEW v \in {"approved", "changes_requested"}, Report(Reviewer, v),
         NEW q \in Rounds
  PROVE  /\ Reviews(q)' = Reviews(q)
         /\ q = round => /\ Reviews(q) # {} /\ ~Judged(q)
                         /\ \A d \in {"approved", "changes_requested"} : Verdict(q, d)' <=> d = v
         /\ q # round => \A d \in {"approved", "changes_requested"} : Verdict(q, d)' <=> Verdict(q, d)
<1>1. /\ TypeOK /\ Reviewer \in Roles /\ v \in {"none", "approved", "changes_requested"}
  BY TypeFacts
<1>2. /\ ReportedRow(Reviewer, v) /\ active[Reviewer] \in Ids(Reviewer)
      /\ asg[Reviewer][active[Reviewer]].round = round /\ ~Judged(round)
  BY <1>1, ReportRows, ReportQueues
<1>3. Ids(Reviewer)' = Ids(Reviewer)
  BY <1>1, <1>2 DEF ReportedRow, Ids
<1>4. Reviews(q)' = Reviews(q)
  BY <1>2, <1>3 DEF ReportedRow, Reviews
<1>5. CASE q = round
  <2>1. active[Reviewer] \in Reviews(q) /\ ~Judged(q)
    BY <1>2, <1>5 DEF Reviews
  <2>2. \A i \in Reviews(q) : asg'[Reviewer][i].verdict = IF i = active[Reviewer] THEN v ELSE "none"
    BY <1>2, <2>1 DEF Judged, Reviews, ReportedRow
  <2>3. \A d \in {"approved", "changes_requested"} : Verdict(q, d)' <=> d = v
    BY <1>4, <2>1, <2>2 DEF Verdict
  <2>4. QED
    BY <1>4, <1>5, <2>1, <2>3
<1>6. CASE q # round
  <2>1. \A i \in Reviews(q) : asg'[Reviewer][i] = asg[Reviewer][i]
    BY <1>2, <1>6 DEF Reviews, ReportedRow
  <2>2. \A d \in {"approved", "changes_requested"} : Verdict(q, d)' <=> Verdict(q, d)
    BY <1>4, <2>1 DEF Verdict
  <2>3. QED
    BY <1>4, <1>6, <2>2
<1>7. QED
  BY <1>5, <1>6

LEMMA ReportingKeeps ==
  ASSUME VerdictInv, EvidenceInv', Reporting
  PROVE  VerdictInv'
<1>1. PICK r \in Roles, v \in {"none", "approved", "changes_requested"} : Report(r, v)
  BY DEF Reporting
<1>2. /\ TypeOK /\ round \in Rounds /\ Reviewer \in Roles /\ Implementer \in Roles
      /\ Specialists \subseteq Roles /\ Reviewer # Implementer
      /\ UNCHANGED <<round, decision, workflow, pending>> /\ DecisionsFinal
  BY <1>1, TypeFacts, SameFinal DEF Report, Reviewer, Implementer
<1>3. ReportedRow(r, v) /\ active[r] \in Ids(r) /\ Current(r) = asg[r][active[r]]
  BY <1>1, <1>2, ReportRows
<1>4. /\ \A u \in Tasks : waits[u] # r
      /\ \A u \in Tasks \ {r} : todo'[u] = todo[u] /\ waits'[u] = waits[u]
      /\ Current(r).round \in Rounds /\ Current(r).round <= round
      /\ r = Reviewer => /\ v \in {"approved", "changes_requested"}
                         /\ Current(r).round = round /\ ~Judged(round)
  BY <1>1, ReportQueues
<1>5. PICK x : /\ todo'[r] = {x} /\ x.round = Current(r).round
               /\ x.do \in {"evidence", "planned", "implemented"} \cup
                           (IF r = Reviewer
                            THEN {IF v = "approved" THEN "approved" ELSE "rejected"} ELSE {})
  BY <1>1, ReportQueues
<1>6. \A y \in Roles : Ids(y)' = Ids(y)
  BY <1>3 DEF ReportedRow, Ids
<1>7. \A y \in Roles : \A i \in Ids(y) : /\ asg'[y][i].round = asg[y][i].round
                                        /\ asg'[y][i].kind = asg[y][i].kind
  BY <1>3 DEF ReportedRow
<1>8. \A q \in Rounds : /\ Ripe(q) => Ripe(q)'
                        /\ r # Implementer => Implemented(q)' = Implemented(q)
  <2>1. ASSUME NEW q \in Rounds
        PROVE  /\ Ripe(q) => Ripe(q)'
               /\ r # Implementer => Implemented(q)' = Implemented(q)
    <3>1. /\ \A y \in Roles : Reports(y, q) \subseteq Reports(y, q)'
          /\ Implemented(q) => Implemented(q)'
          /\ r # Implementer => Implemented(q)' = Implemented(q)
      BY <1>2, <1>3, ReportGrows
    <3>2. \A s \in Specialists : Reports(s, q) # {} => Reports(s, q)' # {}
      BY <1>2, <3>1
    <3>3. QED
      BY <1>2, <3>1, <3>2, RipeStays
  <2>2. QED
    BY <2>1
<1>9. OwnKinds' /\ RowsBehind'
  BY <1>2, <1>6, <1>7 DEF VerdictInv, OwnKinds, RowsBehind
<1>10. Past'
  <2>1. ASSUME NEW q \in Rounds, q < round
        PROVE  Judged(q)'
    <3>1. PICK i \in Ids(Reviewer) : asg[Reviewer][i].round = q /\ asg[Reviewer][i].verdict # "none"
      BY <2>1 DEF VerdictInv, Past, Judged, Reviews
    <3>2. r = Reviewer => i # active[r]
      BY <1>2, <1>3, <1>4, <2>1, <3>1 DEF Rounds
    <3>3. i \in Ids(Reviewer)' /\ asg'[Reviewer][i] = asg[Reviewer][i]
      BY <1>2, <1>3, <1>6, <3>1, <3>2 DEF ReportedRow
    <3>4. QED
      BY <3>1, <3>3 DEF Judged, Reviews
  <2>2. QED
    BY <1>2, <2>1 DEF Past
<1>11. Reviewing'
  <2>1. CASE r = Reviewer
    BY <1>3, <2>1 DEF ReportedRow, Reviewing, Working
  <2>2. CASE r # Reviewer
    <3>1. PICK q \in Rounds : q = round
      BY <1>2
    <3>2. asg'[Reviewer] = asg[Reviewer] /\ active'[Reviewer] = active[Reviewer]
      BY <1>2, <1>3, <2>2 DEF ReportedRow
    <3>3. Judged(q)' = Judged(q)
      BY <1>2, <1>3, <2>2, OtherReport
    <3>4. Working(Reviewer)' = Working(Reviewer) /\ Current(Reviewer)' = Current(Reviewer)
      BY <3>2 DEF Working, Current
    <3>5. Working(Reviewer) => Current(Reviewer).round = q /\ ~Judged(q)
      BY <3>1 DEF VerdictInv, Reviewing
    <3>6. QED
      BY <1>2, <3>1, <3>3, <3>4, <3>5 DEF Reviewing, Judged, Reviews
  <2>3. QED
    BY <2>1, <2>2
<1>12. RipeReviews'
  <2>1. ASSUME NEW i \in Ids(Reviewer)'
        PROVE  Ripe(asg[Reviewer][i].round)'
    <3>1. i \in Ids(Reviewer)
      BY <1>2, <1>6, <2>1
    <3>2. PICK q \in Rounds : q = asg[Reviewer][i].round
      BY <1>2, <3>1, RowRound
    <3>3. Ripe(q)'
      BY <1>8, <3>1, <3>2 DEF VerdictInv, RipeReviews
    <3>4. asg'[Reviewer][i].round = q
      BY <1>2, <1>7, <3>1, <3>2
    <3>5. QED
      BY <3>3, <3>4 DEF Ripe, Implemented, EvidenceComplete, Reports
  <2>2. QED
    BY <2>1 DEF RipeReviews
<1>13. \A u \in Tasks : \A y \in todo'[u] : y.do = "reopen" => u # r /\ y \in todo[u]
  BY <1>4, <1>5
<1>14. Announced' => Announced
  BY <1>2, <1>13 DEF Announced
<1>15. OneAtATime'
  <2>1. PICK q \in Rounds : q = round
    BY <1>2
  <2>2. ASSUME Announced'
        PROVE  Verdict(q, "approved")' /\ NoVerdictPending'
    <3>1. Verdict(round, "approved") /\ NoVerdictPending
      BY <1>14, <2>2 DEF VerdictInv, OneAtATime
    <3>2. Judged(round)
      BY <3>1 DEF Verdict, Judged
    <3>3. r # Reviewer
      BY <1>4, <3>2
    <3>4. Verdict(q, "approved")'
      BY <1>2, <1>3, <2>1, <3>1, <3>3, OtherReport
    <3>5. NoVerdictPending'
      BY <1>4, <1>5, <3>1, <3>3 DEF NoVerdictPending, Deciding
    <3>6. QED
      BY <3>4, <3>5
  <2>3. QED
    BY <1>2, <2>1, <2>2 DEF OneAtATime, Verdict, Reviews
<1>16. Queues'
  <2>1. PICK q \in Rounds : q = round
    BY <1>2
  <2>2. ASSUME NEW u \in Tasks, u # r
        PROVE  Sound(u, todo[u], waits[u])'
    <3>1. PICK S, w : S = todo[u] /\ w = waits[u]
      OBVIOUS
    <3>2. Sound(u, S, w) /\ w # r
      BY <1>4, <3>1 DEF VerdictInv, Queues
    <3>3. ASSUME NEW y \in S, y.do = "insert", y.to = Reviewer
          PROVE  y.round = q /\ Ripe(q)' /\ ~Judged(q)'
      <4>1. w = Reviewer /\ y.round = q /\ Ripe(q) /\ ~Judged(q)
        BY <2>1, <3>2, <3>3 DEF Sound
      <4>2. QED
        BY <1>2, <1>3, <1>8, <3>2, <4>1, OtherReport
    <3>4. ASSUME NEW y \in S, y.do \in Deciding
          PROVE  IF y.do = "approved" THEN Verdict(q, "approved")'
                                      ELSE Verdict(q, "changes_requested")'
      <4>1. u = Reviewer
        BY <3>2, <3>4 DEF Sound
      <4>2. r # Reviewer
        BY <2>2, <4>1
      <4>3. IF y.do = "approved" THEN Verdict(q, "approved") ELSE Verdict(q, "changes_requested")
        BY <2>1, <3>2, <3>4 DEF Sound
      <4>4. QED
        BY <1>2, <1>3, <4>2, <4>3, OtherReport
    <3>5. ASSUME NEW y \in S, y.do = "reopen", y.round = q, ~Implemented(q)
          PROVE  ~Implemented(q)'
      <4>1. w = Implementer
        BY <3>2, <3>5 DEF Sound
      <4>2. QED
        BY <1>8, <3>2, <3>5, <4>1
    <3>6. Sound(u, S, w)'
      BY <1>2, <2>1, <3>2, <3>3, <3>4, <3>5 DEF Sound
    <3>7. todo'[u] = S /\ waits'[u] = w
      BY <1>4, <2>2, <3>1
    <3>8. QED
      BY <3>6, <3>7 DEF Sound
  <2>3. Sound(r, todo[r], waits[r])'
    <3>1. r = Reviewer => Verdict(q, v)'
      <4>1. SUFFICES ASSUME r = Reviewer
                     PROVE  Verdict(q, v)'
        OBVIOUS
      <4>2. active[r] \in Ids(r)' /\ asg'[r][active[r]].round = q /\ asg'[r][active[r]].verdict = v
        BY <1>3, <1>4, <1>6, <2>1, <4>1 DEF ReportedRow
      <4>3. QED
        BY <4>1, <4>2 DEF Verdict, Reviews
    <3>2. x.round <= round /\ x.do \notin {"reopen", "insert", "advance"}
      BY <1>4, <1>5
    <3>3. x.do \in Deciding => /\ r = Reviewer /\ x.round = q
                               /\ IF x.do = "approved" THEN Verdict(q, "approved")'
                                                       ELSE Verdict(q, "changes_requested")'
      BY <1>4, <1>5, <2>1, <3>1 DEF Deciding
    <3>4. PICK S, w : S = {x} /\ w = waits'[r]
      OBVIOUS
    <3>5. Sound(r, S, w)'
      BY <1>2, <2>1, <3>2, <3>3, <3>4 DEF Sound
    <3>6. QED
      BY <1>5, <3>4, <3>5 DEF Sound
  <2>4. QED
    BY <2>2, <2>3 DEF Queues
<1>17. (pending <= round)'
  BY <1>2, TypeFacts
<1>18. OneVerdict'
  <2>1. CASE r = Reviewer
    <3>1. ASSUME NEW q \in Rounds
          PROVE  ~(Verdict(q, "approved")' /\ Verdict(q, "changes_requested")')
      BY <1>1, <1>4, <2>1, ReviewReport DEF VerdictInv, OneVerdict
    <3>2. QED
      BY <3>1 DEF OneVerdict
  <2>2. CASE r # Reviewer
    BY <1>2, <1>3, <2>2, OtherReport DEF VerdictInv, OneVerdict
  <2>3. QED
    BY <2>1, <2>2
<1>19. QED
  BY <1>9, <1>10, <1>11, <1>12, <1>15, <1>16, <1>17, <1>18 DEF VerdictInv
LEMMA SameRipe ==
  ASSUME UNCHANGED <<asg, decision>>, RipeReviews
  PROVE  RipeReviews'
<1>1. \A r : Ids(r)' = Ids(r)
  BY DEF Ids
<1>2. ASSUME NEW q, Ripe(q)
      PROVE  Ripe(q)'
  <2>1. \A r : Reports(r, q)' = Reports(r, q)
    BY <1>1 DEF Reports
  <2>2. Implemented(q)' = Implemented(q)
    BY <2>1 DEF Implemented
  <2>3. QED
    BY <1>2, <2>1, <2>2 DEF Ripe, EvidenceComplete
<1>3. ASSUME NEW i \in Ids(Reviewer)
      PROVE  Ripe(asg[Reviewer][i].round)'
  <2>1. PICK q : q = asg[Reviewer][i].round
    OBVIOUS
  <2>2. Ripe(q)'
    BY <1>2, <1>3, <2>1 DEF RipeReviews
  <2>3. QED
    BY <2>1, <2>2 DEF Ripe, Implemented, EvidenceComplete, Reports
<1>4. QED
  BY <1>1, <1>3 DEF RipeReviews

LEMMA OpeningKeeps ==
  ASSUME VerdictInv, EvidenceInv', Opening
  PROVE  VerdictInv'
<1>1. /\ round' = round + 1 /\ workflow' # "ready" /\ UNCHANGED <<asg, active, decision, pending>>
      /\ TypeOK /\ round \in Nat /\ round \in Rounds /\ pending \in Nat /\ pending <= round
      /\ Implementer \in Roles /\ Reviewer \in Roles
  BY TypeFacts DEF Opening
<1>2. PICK t \in Tasks :
        /\ todo'[t] = {Step("assign", Implementer, round')}
        /\ \A u \in Tasks \ {t} : /\ todo'[u] = todo[u] /\ waits'[u] = waits[u]
                                  /\ \A x \in todo[u] : x.do \notin Deciding
  BY DEF Opening
<1>3. Judged(round) /\ Implemented(round)
  <2>1. Judged(round)
    BY DEF Opening, Verdict, Judged
  <2>2. QED
    BY <1>1, <2>1, JudgedRipe DEF Ripe
<1>4. /\ Step("assign", Implementer, round').do = "assign"
      /\ Step("assign", Implementer, round').round = round'
  BY DEF Step
<1>5. OwnKinds' /\ Ids(Reviewer)' = Ids(Reviewer)
  BY <1>1 DEF VerdictInv, OwnKinds, Ids
<1>6. RowsBehind'
  <2>1. ASSUME NEW r \in Roles, NEW i \in Ids(r)
        PROVE  asg[r][i].round <= round + 1
    BY <1>1, <2>1, RowRound DEF VerdictInv, RowsBehind, Rounds
  <2>2. QED
    BY <1>1, <2>1 DEF RowsBehind, Ids
<1>7. Past'
  <2>1. ASSUME NEW q \in Rounds, q < round + 1
        PROVE  Judged(q)
    <3>1. q < round \/ q = round
      BY <1>1, <2>1 DEF Rounds
    <3>2. QED
      BY <1>3, <3>1 DEF VerdictInv, Past
  <2>2. QED
    BY <1>1, <2>1 DEF Past, Judged, Reviews, Ids
<1>8. Reviewing'
  BY <1>1, <1>3 DEF VerdictInv, Reviewing, Working
<1>9. RipeReviews'
  BY <1>1, SameRipe DEF VerdictInv
<1>10. ~Announced'
  <2>1. ASSUME NEW u \in Tasks, NEW x \in todo'[u], x.do = "reopen"
        PROVE  x.round # round' + 1
    <3>1. u # t /\ x \in todo[u]
      BY <1>2, <1>4, <2>1
    <3>2. x.round = round + 1 \/ x.round = round
      BY <2>1, <3>1 DEF VerdictInv, Queues, Sound
    <3>3. QED
      BY <1>1, <3>2
  <2>2. QED
    BY <1>1, <2>1 DEF Announced
<1>11. Queues'
  <2>1. ASSUME NEW u \in Tasks, u # t
        PROVE  Sound(u, todo[u], waits[u])'
    <3>1. PICK S, w : S = todo[u] /\ w = waits[u]
      OBVIOUS
    <3>2. Sound(u, S, w) /\ \A x \in S : x.do \notin Deciding /\ x.round \in Nat
      BY <1>2, <2>1, <3>1, TakenStep DEF VerdictInv, Queues
    <3>3. ~Implemented(round)'
      <4>1. \A i \in Ids(Implementer) : asg[Implementer][i].round <= round
        BY <1>1 DEF VerdictInv, RowsBehind
      <4>2. \A i \in Ids(Implementer) : asg[Implementer][i].round # round + 1
        BY <1>1, <4>1
      <4>3. QED
        BY <1>1, <4>2 DEF Implemented, Reports, Ids
    <3>4. ASSUME NEW x \in S
          PROVE  /\ x.do # "reopen" => x.round <= round'
                 /\ x.do = "insert" =>
                      w = x.to /\ (\A y \in S : y = x \/ Rank(y.do) > 2) /\ x.to # Reviewer
                 /\ x.do = "reopen" =>
                      u \in Operators /\ w = Implementer /\ S = {x} /\ x.round = round'
      BY <1>1, <1>3, <3>2 DEF Sound
    <3>5. Sound(u, S, w)'
      <4>1. ASSUME NEW x \in S, x.do = "reopen"
            PROVE  x.round = round' /\ ~Implemented(round)'
        BY <3>3, <3>4, <4>1
      <4>2. QED
        BY <3>2, <3>4, <4>1 DEF Sound
    <3>6. todo'[u] = S /\ waits'[u] = w
      BY <1>2, <2>1, <3>1
    <3>7. QED
      BY <3>5, <3>6 DEF Sound
  <2>2. Sound(t, todo[t], waits[t])'
    <3>1. PICK x, w : x = Step("assign", Implementer, round') /\ w = waits'[t]
      OBVIOUS
    <3>2. x.do = "assign" /\ x.round = round' /\ round' \in Nat
      BY <1>1, <1>4, <3>1
    <3>3. Sound(t, {x}, w)'
      BY <3>2 DEF Sound, Deciding
    <3>4. QED
      BY <1>2, <3>1, <3>3 DEF Sound
  <2>3. QED
    BY <2>1, <2>2 DEF Queues
<1>12. (pending <= round)'
  BY <1>1
<1>13. OneVerdict'
  BY <1>1 DEF VerdictInv, OneVerdict, Verdict, Reviews, Ids
<1>14. QED
  BY <1>5, <1>6, <1>7, <1>8, <1>9, <1>10, <1>11, <1>12, <1>13 DEF VerdictInv, OneAtATime

LEMMA AnnouncingStep ==
  ASSUME VerdictInv, NEW t \in Tasks, NEW x \in todo[t], RouteApproval(t, x)
  PROVE  /\ t = Reviewer /\ Verdict(round, "approved")
         /\ UNCHANGED <<asg, active, decision, round, pending>>
         /\ workflow' \in {"ready", "needs_attention"}
         /\ \A u \in Tasks : todo'[u] = IF u = t THEN {} ELSE todo[u]
         /\ \A u \in Tasks \ {t} : waits'[u] = waits[u]
<1>1. x.do = "approved" /\ Sound(t, todo[t], waits[t]) /\ Run(t, {})
  BY TakenStep DEF RouteApproval, Takes
<1>2. t = Reviewer /\ Verdict(round, "approved")
  BY <1>1 DEF Sound, Deciding
<1>3. /\ \A u \in Tasks : todo'[u] = IF u = t THEN {} ELSE todo[u]
      /\ \A u \in Tasks \ {t} : waits'[u] = waits[u]
  BY <1>1, TypeFacts DEF Run, TypeOK
<1>4. QED
  BY <1>2, <1>3 DEF RouteApproval, Published

LEMMA AnnouncingKeeps ==
  ASSUME VerdictInv, EvidenceInv', Announcing
  PROVE  VerdictInv'
<1>1. PICK t \in Tasks : \E x \in todo[t] : RouteApproval(t, x)
  BY DEF Announcing
<1>2. /\ t = Reviewer /\ Verdict(round, "approved")
      /\ UNCHANGED <<asg, active, decision, round, pending>>
      /\ \A u \in Tasks : todo'[u] = IF u = t THEN {} ELSE todo[u]
      /\ \A u \in Tasks \ {t} : waits'[u] = waits[u]
  BY <1>1, AnnouncingStep
<1>3. OwnKinds' /\ RowsBehind' /\ (pending <= round)'
  BY <1>2 DEF VerdictInv, OwnKinds, RowsBehind, Ids
<1>4. Past' /\ Reviewing' /\ OneVerdict'
  BY <1>2 DEF VerdictInv, Past, Reviewing, OneVerdict, Working, Current, Judged, Verdict, Reviews,
              Ids
<1>5. RipeReviews'
  BY <1>2, SameRipe DEF VerdictInv
<1>6. NoVerdictPending'
  <2>1. ASSUME NEW u \in Tasks, NEW x \in todo'[u]
        PROVE  x.do \notin Deciding
    <3>1. u # Reviewer /\ x \in todo[u]
      BY <1>2, <2>1
    <3>2. QED
      BY <3>1 DEF VerdictInv, Queues, Sound
  <2>2. QED
    BY <2>1 DEF NoVerdictPending
<1>7. OneAtATime'
  BY <1>2, <1>6 DEF OneAtATime, Verdict, Reviews, Ids
<1>8. Queues'
  <2>1. PICK q : q = round
    OBVIOUS
  <2>2. SameJudgement(q) /\ (Ripe(q) => Ripe(q)')
    BY <1>2 DEF SameJudgement, Judged, Verdict, Ripe, Reviews, Implemented, EvidenceComplete,
                Reports, Ids
  <2>3. ASSUME NEW u \in Tasks
        PROVE  Sound(u, todo[u], waits[u])'
    <3>1. PICK S, w : S = todo'[u] /\ w = waits'[u]
      OBVIOUS
    <3>2. Sound(u, S, w)
      <4>1. CASE u = t
        BY <1>2, <3>1, <4>1 DEF Sound
      <4>2. CASE u # t
        BY <1>2, <3>1, <4>2 DEF VerdictInv, Queues
      <4>3. QED
        BY <4>1, <4>2
    <3>3. Sound(u, S, w)'
      BY <1>2, <2>1, <2>2, <3>2, SoundStays
    <3>4. QED
      BY <3>1, <3>3 DEF Sound
  <2>4. QED
    BY <2>3 DEF Queues
<1>9. QED
  BY <1>3, <1>4, <1>5, <1>7, <1>8 DEF VerdictInv

LEMMA NextVerdict == VerdictInv /\ [Next]_vars => VerdictInv'
<1> SUFFICES ASSUME VerdictInv, [Next]_vars
             PROVE  VerdictInv'
  OBVIOUS
<1>1. EvidenceInv'
  BY NextEvidence DEF VerdictInv
<1>2. StepKind
  BY NextKind
<1>3. QED
  BY <1>1, <1>2, IncidentalKeeps, AssigningKeeps, ReportingKeeps, OpeningKeeps, AnnouncingKeeps
     DEF StepKind

LEMMA InitVerdict == Init => VerdictInv
<1> SUFFICES ASSUME Init
             PROVE  VerdictInv
  OBVIOUS
<1>1. EvidenceInv
  BY InitEvidence
<1>2. /\ \A r \in Roles : Ids(r) = {} /\ ~Working(r)
      /\ \A t \in Tasks : todo[t] = {}
      /\ workflow = "connecting" /\ round = 1 /\ pending = 0
  BY DEF Init, Ids, Working
<1>3. Reviewer \in Roles
  BY DEF Roles
<1>4. OwnKinds /\ RowsBehind /\ RipeReviews /\ Reviewing
  BY <1>2, <1>3 DEF OwnKinds, RowsBehind, RipeReviews, Reviewing
<1>5. Past /\ OneVerdict
  BY <1>2, <1>3 DEF Past, Rounds, OneVerdict, Verdict, Reviews
<1>6. OneAtATime /\ Queues
  BY <1>2 DEF OneAtATime, Announced, Queues, Sound
<1>7. pending <= round
  BY <1>2
<1>8. QED
  BY <1>1, <1>4, <1>5, <1>6, <1>7 DEF VerdictInv

\* A run is announced as ready only in a round the reviewer approved, whatever is lost,
\* restarted, resumed or reopened, and however many operators act at once.
THEOREM ReadyRunsAreReviewed == Spec => []ReadyIsReviewed
<1>1. VerdictInv => ReadyIsReviewed
  BY DEF VerdictInv, OneAtATime, Announced, ReadyIsReviewed
<1>2. QED
  BY <1>1, InitVerdict, NextVerdict, PTL DEF Spec

LEMMA StepNeedsVerdict ==
  ASSUME VerdictInv, [Next]_vars
  PROVE  round' # round => /\ round' = round + 1
                           /\ \E v \in {"approved", "changes_requested"} : Verdict(round, v)
<1>1. StepKind
  BY NextKind
<1>2. ASSUME Announcing
      PROVE  round' = round
  BY <1>2, AnnouncingStep DEF Announcing
<1>3. ASSUME Reporting
      PROVE  round' = round
  BY <1>3 DEF Reporting, Report
<1>4. QED
  BY <1>1, <1>2, <1>3 DEF StepKind, Incidental, Assigning, Opening

\* Rounds are opened one after the other, each after a verdict on the one before: two
\* operators that reopen a ready run at once open one round, not two.
THEOREM RoundsNeedVerdicts == Spec => RoundNeedsVerdict
<1>1. VerdictInv /\ [Next]_vars =>
        [round' # round => /\ round' = round + 1
                           /\ \E v \in {"approved", "changes_requested"} : Verdict(round, v)]_vars
  BY StepNeedsVerdict
<1>2. QED
  BY <1>1, InitVerdict, NextVerdict, PTL DEF Spec, RoundNeedsVerdict
-----------------------------------------------------------------------------
(* The promise to the run's owner.  Each kind of step is one step of       *)
(* ReviewGate, or none that its owner sees.                                *)

SameFor(q) == /\ Implemented(q)' = Implemented(q)
              /\ Settled(q)' = Settled(q)
              /\ Stage(q)' = Stage(q)

LEMMA StageIs ==
  ASSUME VerdictInv, NEW q \in Rounds
  PROVE  /\ Verdict(q, "approved") => Stage(q) = "approved"
         /\ Verdict(q, "changes_requested") => Stage(q) = "changes_requested"
         /\ Reviews(q) # {} /\ ~Judged(q) => Stage(q) = "review"
         /\ Reviews(q) = {} => Stage(q) = "open"
<1>1. /\ ~(Verdict(q, "approved") /\ Verdict(q, "changes_requested"))
      /\ Verdict(q, "approved") \/ Verdict(q, "changes_requested") => Reviews(q) # {} /\ Judged(q)
  BY DEF VerdictInv, OneVerdict, Verdict, Judged
<1>2. QED
  BY <1>1 DEF Stage

LEMMA StageSame ==
  ASSUME NEW q, Reviews(q)' = Reviews(q),
         \A v \in {"approved", "changes_requested"} : Verdict(q, v)' <=> Verdict(q, v)
  PROVE  Stage(q)' = Stage(q)
  BY DEF Stage

LEMMA RipeSettled ==
  ASSUME NEW q, Ripe(q)
  PROVE  Settled(q) = Specialists
  BY DEF Ripe, EvidenceComplete, Settled

LEMMA PromiseStutter ==
  ASSUME UNCHANGED round, \A q \in Rounds : SameFor(q), (workflow' = "ready") = (workflow = "ready")
  PROVE  UNCHANGED Promise!vars
  BY DEF Promise!vars, SameFor

LEMMA PromiseWithdraw ==
  ASSUME UNCHANGED round, \A q \in Rounds : SameFor(q), workflow' # "ready"
  PROVE  Promise!Withdraw
  BY DEF Promise!Withdraw, SameFor

LEMMA PromisePublish ==
  ASSUME UNCHANGED round, round \in Rounds, \A q \in Rounds : SameFor(q),
         workflow' = "ready", Stage(round) = "approved"
  PROVE  Promise!Publish
  BY DEF Promise!Publish, SameFor

LEMMA PromiseSettle ==
  ASSUME UNCHANGED round, NEW p \in Rounds, p = round,
         \A q \in Rounds : Implemented(q)' = Implemented(q) /\ Stage(q)' = Stage(q),
         \A q \in Rounds : q # round => Settled(q)' = Settled(q),
         Settled(p) \subseteq Settled(p)', (workflow' = "ready") = (workflow = "ready")
  PROVE  Promise!Settle
<1>1. Settled(p)' \in SUBSET Specialists
  BY DEF Settled
<1>2. [q \in Rounds |-> Settled(q)'] =
        [[q \in Rounds |-> Settled(q)] EXCEPT ![round] = @ \cup Settled(p)']
  OBVIOUS
<1>3. QED
  BY <1>1, <1>2 DEF Promise!Settle

LEMMA PromiseImplement ==
  ASSUME UNCHANGED round, NEW p \in Rounds, p = round,
         \A q \in Rounds : Settled(q)' = Settled(q) /\ Stage(q)' = Stage(q),
         \A q \in Rounds : q # round => Implemented(q)' = Implemented(q),
         Implemented(p)', (workflow' = "ready") = (workflow = "ready")
  PROVE  Promise!Implement
  BY DEF Promise!Implement

LEMMA PromiseOpenReview ==
  ASSUME UNCHANGED round, NEW p \in Rounds, p = round,
         \A q \in Rounds : Implemented(q)' = Implemented(q) /\ Settled(q)' = Settled(q),
         \A q \in Rounds : q # round => Stage(q)' = Stage(q),
         Stage(p) = "open", Stage(p)' = "review", Implemented(p), Settled(p) = Specialists,
         (workflow' = "ready") = (workflow = "ready")
  PROVE  Promise!OpenReview
<1>1. [q \in Rounds |-> Stage(q)'] = [[q \in Rounds |-> Stage(q)] EXCEPT ![round] = "review"]
  OBVIOUS
<1>2. QED
  BY <1>1 DEF Promise!OpenReview

LEMMA PromiseDecide ==
  ASSUME UNCHANGED round, NEW p \in Rounds, p = round, NEW v \in {"approved", "changes_requested"},
         \A q \in Rounds : Implemented(q)' = Implemented(q) /\ Settled(q)' = Settled(q),
         \A q \in Rounds : q # round => Stage(q)' = Stage(q),
         Stage(p) = "review", Stage(p)' = v, (workflow' = "ready") = (workflow = "ready")
  PROVE  Promise!Decide(v)
<1>1. [q \in Rounds |-> Stage(q)'] = [[q \in Rounds |-> Stage(q)] EXCEPT ![round] = v]
  OBVIOUS
<1>2. QED
  BY <1>1 DEF Promise!Decide

LEMMA PromiseNextRound ==
  ASSUME round' = round + 1, round \in Rounds, round < MaxRounds, \A q \in Rounds : SameFor(q),
         Stage(round) \in {"approved", "changes_requested"}, workflow' # "ready"
  PROVE  Promise!NextRound
  BY DEF Promise!NextRound, Promise!Verdicts, SameFor

PromiseStep == Promise!Next \/ UNCHANGED Promise!vars
LEMMA PromiseActions ==
  /\ Promise!Implement \/ Promise!Settle \/ Promise!OpenReview \/ Promise!Publish
     \/ Promise!Withdraw \/ Promise!NextRound => PromiseStep
  /\ \A v \in {"approved", "changes_requested"} : Promise!Decide(v) => PromiseStep
  BY DEF PromiseStep, Promise!Next, Promise!Verdicts

\* Nothing a round has changes: the announcement is taken back at most.
LEMMA PromiseQuiet ==
  ASSUME UNCHANGED round, \A q \in Rounds : SameFor(q), workflow' = "ready" => workflow = "ready"
  PROVE  PromiseStep
<1>1. CASE workflow' = "ready"
  BY <1>1, PromiseStutter DEF PromiseStep
<1>2. CASE workflow' # "ready"
  BY <1>2, PromiseWithdraw, PromiseActions
<1>3. QED
  BY <1>1, <1>2

LEMMA SettledSame ==
  ASSUME UNCHANGED decision, NEW q \in Rounds,
         \A s \in Specialists : (Reports(s, q)' = {}) = (Reports(s, q) = {})
  PROVE  Settled(q)' = Settled(q)
  BY DEF Settled

LEMMA IncidentalPromise ==
  ASSUME VerdictInv, Incidental
  PROVE  PromiseStep
<1>1. /\ TypeOK /\ round \in Rounds /\ Kept /\ DecisionsFinal /\ UNCHANGED round
      /\ workflow' = "ready" => workflow = "ready"
  BY TypeFacts DEF Incidental
<1>2. \A q \in Rounds : SameJudgement(q) /\ (Reviews(q)' = Reviews(q))
  BY <1>1, KeptJudgement
<1>3. \A q \in Rounds : Stage(q)' = Stage(q)
  BY <1>2, StageSame DEF SameJudgement
<1>4. CASE UNCHANGED decision
  <2>1. \A q \in Rounds : Settled(q)' = Settled(q)
    BY <1>2, <1>4, SettledSame DEF SameJudgement
  <2>2. \A q \in Rounds : SameFor(q)
    BY <1>2, <1>3, <2>1 DEF SameFor, SameJudgement
  <2>3. QED
    BY <1>1, <2>2, PromiseQuiet
<1>5. CASE UNCHANGED workflow
  <2>1. PICK p \in Rounds : p = round
    BY <1>1
  <2>2. \A q \in Rounds : \A s \in Specialists : (Reports(s, q)' = {}) = (Reports(s, q) = {})
    BY <1>2 DEF SameJudgement
  <2>3. \A q \in Rounds : q # round => Settled(q)' = Settled(q)
    BY <1>1, <2>2 DEF DecisionsFinal, Settled
  <2>4. Settled(p) \subseteq Settled(p)'
    <3>1. \A s \in Specialists : decision[s][p] # "none" => decision'[s][p] = decision[s][p]
      BY <1>1 DEF DecisionsFinal
    <3>2. QED
      BY <2>2, <3>1 DEF Settled
  <2>5. \A q \in Rounds : Implemented(q)' = Implemented(q) /\ Stage(q)' = Stage(q)
    BY <1>2, <1>3 DEF SameJudgement
  <2>6. Promise!Settle
    BY <1>1, <1>5, <2>1, <2>3, <2>4, <2>5, PromiseSettle
  <2>7. QED
    BY <2>6, PromiseActions
<1>6. QED
  BY <1>4, <1>5 DEF Incidental

LEMMA AssigningPromise ==
  ASSUME VerdictInv, VerdictInv', Assigning
  PROVE  PromiseStep
<1>1. /\ TypeOK /\ round \in Rounds /\ UNCHANGED <<round, decision>>
      /\ workflow' = "ready" => workflow = "ready"
  BY TypeFacts DEF Assigning
<1>2. PICK r \in Roles, n \in Rounds : Added(r, n)
  BY DEF Assigning
<1>3. \A q \in Rounds :
        /\ SameJudgement(q)
        /\ Reviews(q)' = Reviews(q) \cup
                            (IF r = Reviewer /\ q = n THEN {Len(asg[Reviewer]) + 1} ELSE {})
  BY <1>1, <1>2, AddedJudgement
<1>4. \A q \in Rounds : Implemented(q)' = Implemented(q) /\ Settled(q)' = Settled(q)
  BY <1>1, <1>3, SettledSame DEF SameJudgement
<1>5. \A q \in Rounds : ~(r = Reviewer /\ q = n) => Stage(q)' = Stage(q)
  BY <1>3, StageSame DEF SameJudgement
<1>6. CASE r # Reviewer
  <2>1. \A q \in Rounds : SameFor(q)
    BY <1>4, <1>5, <1>6 DEF SameFor
  <2>2. QED
    BY <1>1, <2>1, PromiseQuiet
<1>7. CASE r = Reviewer
  <2>1. n = round /\ Ripe(n) /\ ~Judged(n)
    BY <1>2, <1>7 DEF Added
  <2>2. workflow # "ready" /\ workflow' # "ready"
    <3>1. ~Verdict(n, "approved")
      BY <2>1 DEF Judged, Verdict
    <3>2. QED
      BY <1>1, <2>1, <3>1 DEF VerdictInv, OneAtATime, Announced
  <2>3. Stage(n)' = "review"
    <3>1. Reviews(n)' # {} /\ ~Judged(n)'
      BY <1>3, <1>7, <2>1 DEF SameJudgement
    <3>2. \A v \in {"approved", "changes_requested"} : ~Verdict(n, v)'
      BY <3>1 DEF Verdict, Judged
    <3>3. QED
      BY <3>1, <3>2 DEF Stage
  <2>4. CASE Reviews(n) = {}
    <3>1. Stage(n) = "open"
      BY <2>4, StageIs
    <3>2. Settled(n) = Specialists /\ Implemented(n)
      BY <2>1, RipeSettled DEF Ripe
    <3>3. \A q \in Rounds : q # round => Stage(q)' = Stage(q)
      BY <1>5, <2>1
    <3>4. Promise!OpenReview
      BY <1>1, <1>4, <2>1, <2>2, <2>3, <3>1, <3>2, <3>3, PromiseOpenReview
    <3>5. QED
      BY <3>4, PromiseActions
  <2>5. CASE Reviews(n) # {}
    <3>1. Stage(n) = "review"
      BY <2>1, <2>5, StageIs
    <3>2. \A q \in Rounds : SameFor(q)
      BY <1>4, <1>5, <2>3, <3>1 DEF SameFor
    <3>3. QED
      BY <1>1, <3>2, PromiseQuiet
  <2>6. QED
    BY <2>4, <2>5
<1>8. QED
  BY <1>6, <1>7

LEMMA ReportingPromise ==
  ASSUME VerdictInv, Reporting
  PROVE  PromiseStep
<1>1. PICK r \in Roles, v \in {"none", "approved", "changes_requested"} : Report(r, v)
  BY DEF Reporting
<1>2. /\ TypeOK /\ round \in Rounds /\ Reviewer \in Roles /\ Specialists \subseteq Roles
      /\ Reviewer # Implementer /\ Reviewer \notin Specialists /\ Implementer \notin Specialists
      /\ UNCHANGED <<round, decision, workflow>>
  BY <1>1, TypeFacts, ConstantAssumption DEF Report, Reviewer, Implementer
<1>3. ReportedRow(r, v) /\ active[r] \in Ids(r) /\ Current(r) = asg[r][active[r]]
  BY <1>1, <1>2, ReportRows
<1>4. /\ Current(r).round \in Rounds /\ Current(r).round <= round
      /\ r = Reviewer => v \in {"approved", "changes_requested"}
  BY <1>1, ReportQueues
<1>5. PICK p \in Rounds : p = round
  BY <1>2
<1>6. \A q \in Rounds :
        /\ \A x \in Roles \ {r} : Reports(x, q)' = Reports(x, q)
        /\ Implemented(q) => Implemented(q)'
        /\ r # Implementer => Implemented(q)' = Implemented(q)
  BY <1>2, <1>3, ReportGrows
<1>7. r \notin Specialists => \A q \in Rounds : Settled(q)' = Settled(q)
  BY <1>2, <1>6, SettledSame
<1>8. r # Reviewer => \A q \in Rounds : Stage(q)' = Stage(q)
  BY <1>2, <1>3, OtherReport, StageSame
\* A report for a round that was left behind brings nothing that round did not have.
<1>9. \A q \in Rounds : q # round => Ripe(q) \/ q # Current(r).round
  BY <1>4, PastRipe
<1>10. CASE r = Reviewer
  <2>1. /\ \A q \in Rounds : Reviews(q)' = Reviews(q)
        /\ Reviews(p) # {} /\ ~Judged(p)
        /\ \A d \in {"approved", "changes_requested"} : Verdict(p, d)' <=> d = v
        /\ \A q \in Rounds : q # round =>
             \A d \in {"approved", "changes_requested"} : Verdict(q, d)' <=> Verdict(q, d)
    BY <1>1, <1>4, <1>5, <1>10, ReviewReport
  <2>2. Stage(p) = "review"
    BY <2>1, StageIs
  <2>3. Stage(p)' = v
    <3>1. Reviews(p)' # {} /\ v \in {"approved", "changes_requested"}
      BY <1>4, <1>10, <2>1
    <3>2. QED
      BY <2>1, <3>1 DEF Stage
  <2>4. \A q \in Rounds : q # round => Stage(q)' = Stage(q)
    BY <2>1, StageSame
  <2>5. \A q \in Rounds : Implemented(q)' = Implemented(q) /\ Settled(q)' = Settled(q)
    BY <1>2, <1>6, <1>7, <1>10
  <2>6. Promise!Decide(v)
    BY <1>2, <1>4, <1>5, <1>10, <2>2, <2>3, <2>4, <2>5, PromiseDecide
  <2>7. QED
    BY <1>4, <1>10, <2>6, PromiseActions
<1>11. CASE r = Implementer
  <2>1. \A q \in Rounds : q # round => Implemented(q)' = Implemented(q)
    <3>1. ASSUME NEW q \in Rounds, q # round
          PROVE  Implemented(q)' = Implemented(q)
      <4>1. CASE Ripe(q)
        <5>1. Implemented(q) /\ Implemented(q)'
          BY <1>6, <4>1 DEF Ripe
        <5>2. QED
          BY <5>1 DEF Implemented
      <4>2. CASE q # Current(r).round
        <5>1. Ids(r)' = Ids(r) /\ \A i \in Ids(r) : asg'[r][i].round = asg[r][i].round
          BY <1>3 DEF ReportedRow, Ids
        <5>2. \A i \in Ids(r) : asg[r][i].round = q => asg'[r][i] = asg[r][i]
          BY <1>3, <4>2 DEF ReportedRow
        <5>3. Reports(r, q)' = Reports(r, q)
          BY <5>1, <5>2 DEF Reports
        <5>4. \A i \in Reports(r, q) : asg'[r][i] = asg[r][i]
          BY <5>2 DEF Reports
        <5>5. QED
          BY <1>11, <5>3, <5>4 DEF Implemented
      <4>3. QED
        BY <1>9, <3>1, <4>1, <4>2
    <3>2. QED
      BY <3>1
  <2>2. \A q \in Rounds : Settled(q)' = Settled(q) /\ Stage(q)' = Stage(q)
    BY <1>2, <1>7, <1>8, <1>11
  <2>3. CASE Implemented(p)'
    <3>1. Promise!Implement
      BY <1>2, <1>5, <2>1, <2>2, <2>3, PromiseImplement
    <3>2. QED
      BY <3>1, PromiseActions
  <2>4. CASE ~Implemented(p)'
    <3>1. \A q \in Rounds : Implemented(q)' = Implemented(q)
      <4>1. Implemented(p)' = Implemented(p)
        BY <1>6, <2>4 DEF Implemented
      <4>2. QED
        BY <1>5, <2>1, <4>1
    <3>2. \A q \in Rounds : SameFor(q)
      BY <2>2, <3>1 DEF SameFor
    <3>3. QED
      BY <1>2, <3>2, PromiseQuiet
  <2>5. QED
    BY <2>3, <2>4
<1>12. CASE r \in Specialists
  <2>1. \A q \in Rounds : q # round => Settled(q)' = Settled(q)
    <3>1. ASSUME NEW q \in Rounds, q # round
          PROVE  Settled(q)' = Settled(q)
      <4>1. CASE Ripe(q)
        <5>1. Reports(r, q) \subseteq Reports(r, q)'
          BY <1>2, <1>3, ReportGrows
        <5>2. Settled(q) = Specialists
          BY <4>1, RipeSettled
        <5>3. Settled(q) \subseteq Settled(q)' /\ Settled(q)' \subseteq Specialists
          BY <1>2, <1>6, <5>1 DEF Settled
        <5>4. QED
          BY <5>2, <5>3
      <4>2. CASE q # Current(r).round
        <5>1. Ids(r)' = Ids(r) /\ \A i \in Ids(r) : asg'[r][i].round = asg[r][i].round
          BY <1>3 DEF ReportedRow, Ids
        <5>2. \A i \in Ids(r) : asg[r][i].round = q => asg'[r][i] = asg[r][i]
          BY <1>3, <4>2 DEF ReportedRow
        <5>3. Reports(r, q)' = Reports(r, q)
          BY <5>1, <5>2 DEF Reports
        <5>4. \A s \in Specialists : Reports(s, q)' = Reports(s, q)
          BY <1>2, <1>6, <5>3
        <5>5. QED
          BY <1>2, <5>4, SettledSame
      <4>3. QED
        BY <1>9, <3>1, <4>1, <4>2
    <3>2. QED
      BY <3>1
  <2>2. Settled(p) \subseteq Settled(p)'
    <3>1. Reports(r, p) \subseteq Reports(r, p)'
      BY <1>2, <1>3, ReportGrows
    <3>2. QED
      BY <1>2, <1>6, <3>1 DEF Settled
  <2>3. \A q \in Rounds : Implemented(q)' = Implemented(q) /\ Stage(q)' = Stage(q)
    BY <1>2, <1>6, <1>8, <1>12
  <2>4. Promise!Settle
    BY <1>2, <1>5, <2>1, <2>2, <2>3, PromiseSettle
  <2>5. QED
    BY <2>4, PromiseActions
<1>13. QED
  BY <1>10, <1>11, <1>12 DEF Roles
LEMMA OpeningPromise ==
  ASSUME VerdictInv, VerdictInv', Opening
  PROVE  PromiseStep
<1>1. /\ round' = round + 1 /\ workflow' # "ready"
      /\ UNCHANGED <<asg, active, decision, pending>>
  BY DEF Opening
<1>2. PICK v \in {"approved", "changes_requested"} : Verdict(round, v)
  BY DEF Opening
<1>3. round \in Rounds /\ round' \in Rounds /\ MaxRounds \in Nat
  BY TypeFacts, ConstantAssumption DEF VerdictInv, EvidenceInv, Typing, TypeOK
<1>4. round < MaxRounds
  BY <1>1, <1>3 DEF Rounds
<1>5. Stage(round) \in {"approved", "changes_requested"}
  BY <1>2, <1>3, StageIs
<1>6. \A q \in Rounds : SameFor(q)
  BY <1>1 DEF SameFor, Implemented, Settled, Stage, Reports, Reviews, Verdict, Ids
<1>7. Promise!NextRound
  BY <1>1, <1>3, <1>4, <1>5, <1>6, PromiseNextRound
<1>8. QED
  BY <1>7, PromiseActions

LEMMA AnnouncingPromise ==
  ASSUME VerdictInv, Announcing
  PROVE  PromiseStep
<1>1. /\ Verdict(round, "approved") /\ UNCHANGED <<asg, active, decision, round, pending>>
  BY AnnouncingStep DEF Announcing
<1>2. round \in Rounds
  BY TypeFacts
<1>3. Stage(round) = "approved"
  BY <1>1, <1>2, StageIs
<1>4. \A q \in Rounds : SameFor(q)
  BY <1>1 DEF SameFor, Implemented, Settled, Stage, Reports, Reviews, Verdict, Ids
<1>5. CASE workflow' = "ready"
  BY <1>1, <1>2, <1>3, <1>4, <1>5, PromisePublish, PromiseActions
<1>6. CASE workflow' # "ready"
  BY <1>1, <1>4, <1>6, PromiseWithdraw, PromiseActions
<1>7. QED
  BY <1>5, <1>6

LEMMA StepKeepsPromise == VerdictInv /\ [Next]_vars => [Promise!Next]_(Promise!vars)
<1> SUFFICES ASSUME VerdictInv, [Next]_vars
             PROVE  PromiseStep
  BY DEF PromiseStep
<1>1. VerdictInv'
  BY NextVerdict
<1>2. StepKind
  BY NextKind
<1>3. QED
  BY <1>1, <1>2, IncidentalPromise, AssigningPromise, ReportingPromise, OpeningPromise,
     AnnouncingPromise DEF StepKind

LEMMA InitKeepsPromise == Init => Promise!Init
<1> SUFFICES ASSUME Init
             PROVE  Promise!Init
  OBVIOUS
<1>1. /\ \A r \in Roles : Ids(r) = {}
      /\ workflow = "connecting" /\ round = 1
      /\ Implementer \in Roles /\ Reviewer \in Roles /\ Specialists \subseteq Roles
  BY DEF Init, Ids, Roles
<1>2. \A q \in Rounds : ~Implemented(q) /\ Reviews(q) = {}
  BY <1>1 DEF Implemented, Reports, Reviews
<1>3. \A q \in Rounds : Settled(q) = {}
  <2>1. \A s \in Specialists, q \in Rounds : decision[s][q] # "skipped" /\ Reports(s, q) = {}
    BY <1>1 DEF Init, Reports
  <2>2. QED
    BY <2>1 DEF Settled
<1>4. \A q \in Rounds : Stage(q) = "open"
  <2>1. \A q \in Rounds : ~Verdict(q, "approved") /\ ~Verdict(q, "changes_requested")
    BY <1>2 DEF Verdict
  <2>2. QED
    BY <1>2, <2>1 DEF Stage
<1>5. QED
  BY <1>1, <1>2, <1>3, <1>4 DEF Promise!Init, Promise!Rounds, Rounds

\* Whatever the workers, their connections and the operators do, the broker keeps the
\* promise to the run's owner: every step it takes is one of ReviewGate, or one the owner
\* does not see.
THEOREM PromiseKept == Spec => KeepsPromise
<1>1. VerdictInv /\ [Next]_vars => [Promise!Next]_(Promise!vars)
  BY StepKeepsPromise
<1>2. QED
  BY <1>1, InitVerdict, NextVerdict, InitKeepsPromise, PTL DEF Spec, KeepsPromise, Promise!Spec
-----------------------------------------------------------------------------
(* Work is given once.  A step that will become an assignment is the only  *)
(* one for its role, and the role is free for it: so an implementation, a  *)
(* specialist's evidence and a held-back repair are never given twice, and *)
(* a run that is ready, or held back, waits for nobody.  Two operators who *)
(* reopen a ready run together break it when their messages are read late, *)
(* so this part assumes that they do not.                                  *)

\* The steps that become an assignment of their role; those of a start before the first.
Giving(x)  == x.do \in {"initial", "probe", "assign", "insert", "planned"}
Opens(x)   == x.do \in {"baseline", "begin", "decide"}

\* Nothing has been assigned or decided.
Fresh == /\ round = 1 /\ pending = 0 /\ \A r \in Roles : Ids(r) = {}
         /\ \A s \in Specialists : \A q \in Rounds : decision[s][q] = "none"

\* Role r may be given work of round q.
Free(r, q) ==
  /\ ~Working(r)
  /\ r = Implementer => ~Implemented(q)
  /\ r \in Specialists => decision[r][q] = "run" /\ \A i \in Ids(r) : asg[r][i].round # q

\* The reviewer has not acknowledged its assignment.
Unread == Working(Reviewer) => Current(Reviewer).state # "accepted"

\* What task t may have to do while it waits for w.
Proper(S, w) == \A x \in S :
  /\ Giving(x) /\ x.to # Reviewer =>
       /\ Free(x.to, x.round)
       /\ \A y \in S : Giving(y) /\ y.to = x.to => y = x
  /\ x.do = "insert" /\ x.to = Reviewer => Unread
  /\ x.do = "planned" => x.to = Implementer
  /\ x.do = "resume" => S = {x} /\ w = x.to /\ Working(x.to)
  /\ x.do = "reopen" => x.round = round + 1
  /\ x.do = "implemented" => Implemented(x.round)
  /\ Opens(x) => Fresh /\ \A y \in S : Giving(y) => y.do = "initial" /\ y.to = Implementer
  /\ x.do = "decide" => \A y \in S : y.do = "decide" => y = x

\* Two tasks never give the same role work, nor reopen the run both; a start is alone.
Apart(S, T) == \A x \in S, y \in T :
  /\ ~(Giving(x) /\ Giving(y) /\ x.to = y.to /\ x.to # Reviewer)
  /\ ~(x.do = "reopen" /\ y.do = "reopen")
  /\ ~Opens(x)

RoleKinds == \A r \in Roles : \A i \in Ids(r) : asg[r][i].kind = "evidence" <=> r \in Specialists
OnlyOpen  == \A r \in Roles : \A i \in Ids(r) :
               /\ r # Reviewer /\ asg[r][i].state # "completed" => i = active[r]
               /\ asg[r][i].state = "accepted" => i = active[r]
OneRow    == \A s \in Specialists : \A i \in Ids(s) :
               /\ \A j \in Ids(s) : asg[s][i].round = asg[s][j].round => i = j
               /\ decision[s][asg[s][i].round] = "run"
Building  == Working(Implementer) => ~Implemented(Current(Implementer).round)
Later     == \A s \in Specialists : \A q \in Rounds :
               decision[s][q] # "none" /\ q > 1 => Implemented(q)
AllProper    == \A t \in Tasks : Proper(todo[t], waits[t])
Separate  == \A t, u \in Tasks : t # u => Apart(todo[t], todo[u])
Unstarted == workflow = "connecting" => Fresh /\ \A t \in Tasks : todo[t] = {}
Unpaused  == workflow = "ready" => ~paused

\* Nothing for the implementer is under way.
Held == \A t \in Tasks : \A x \in todo[t] : ~(Giving(x) /\ x.to = Implementer)
Parked ==
  pending # 0 =>
    /\ pending = round /\ round > 1 /\ ~Implemented(round) /\ ~Working(Implementer)
    /\ workflow \in {"needs_attention", "routing", "uncertain"}
    /\ workflow = "needs_attention" => Held

OnceInv ==
  /\ VerdictInv
  /\ RoleKinds /\ OnlyOpen /\ OneRow /\ Building /\ Later
  /\ AllProper /\ Separate
  /\ Unstarted /\ Unpaused /\ Parked

LEMMA OnceFacts ==
  ASSUME OnceInv
  PROVE  /\ VerdictInv /\ TypeOK /\ round \in Rounds /\ round \in Nat /\ pending \in Nat
         /\ Implementer \in Roles /\ Reviewer \in Roles /\ Specialists \subseteq Roles
         /\ Roles \subseteq Tasks /\ Operators \subseteq Tasks /\ Implementer # Reviewer
         /\ Implementer \notin Specialists /\ Reviewer \notin Specialists
         /\ Roles = {Implementer, Reviewer} \cup Specialists
         /\ Roles \cap Operators = {}
  BY TypeFacts, ConstantAssumption DEF OnceInv, Implementer, Reviewer, Roles

\* A round that is complete has nothing left to give, and nobody works for it.
LEMMA OpenRow ==
  ASSUME OnceInv, NEW r \in Roles, Working(r)
  PROVE  /\ active[r] \in Ids(r) /\ Current(r) = asg[r][active[r]]
         /\ asg[r][active[r]].state # "completed"
         /\ Current(r).round \in Rounds /\ Current(r).round <= round
<1>1. VerdictInv /\ TypeOK
  BY OnceFacts
<1>2. active[r] \in Ids(r)
  BY <1>1, CurrentRow
<1>3. Current(r) = asg[r][active[r]] /\ Current(r).state # "completed"
  BY <1>1 DEF Current, VerdictInv, EvidenceInv, ActiveUnfinished
<1>4. asg[r][active[r]].round \in Rounds /\ asg[r][active[r]].round <= round
  BY <1>1, <1>2, RowRound DEF VerdictInv, RowsBehind
<1>5. QED
  BY <1>2, <1>3, <1>4

LEMMA WorkedRound ==
  ASSUME OnceInv, NEW r \in Roles, Working(r), r # Reviewer
  PROVE  ~Ripe(Current(r).round)
<1>1. CASE r = Implementer
  BY <1>1 DEF OnceInv, Building, Ripe
<1>2. CASE r \in Specialists
  <2>1. PICK i, q : i = active[r] /\ q = Current(r).round
    OBVIOUS
  <2>2. /\ i \in Ids(r) /\ asg[r][i].state # "completed" /\ asg[r][i].round = q
    BY <2>1, OpenRow
  <2>3. decision[r][q] = "run" /\ \A j \in Ids(r) : asg[r][j].round = q => i = j
    BY <1>2, <2>2 DEF OnceInv, OneRow
  <2>4. Reports(r, q) = {}
    BY <2>2, <2>3 DEF Reports
  <2>5. QED
    BY <1>2, <2>1, <2>3, <2>4 DEF Ripe, EvidenceComplete
<1>3. QED
  BY <1>1, <1>2, OnceFacts

LEMMA GivenRound ==
  ASSUME OnceInv, NEW t \in Tasks, NEW x \in todo[t], Giving(x), x.to # Reviewer
  PROVE  /\ ~Ripe(x.round) /\ x.round = round /\ Free(x.to, x.round) /\ x.to \in Roles
<1>1. /\ x.to \in Roles /\ x.round \in Rounds /\ x.round <= round
  BY OnceFacts, TakenStep DEF Giving
<1>2. Free(x.to, x.round)
  BY DEF OnceInv, AllProper, Proper
<1>3. ~Ripe(x.round)
  <2>1. CASE x.to = Implementer
    BY <1>2, <2>1 DEF Free, Ripe
  <2>2. CASE x.to \in Specialists
    <3>1. decision[x.to][x.round] = "run" /\ Reports(x.to, x.round) = {}
      BY <1>2, <2>2 DEF Free, Reports
    <3>2. QED
      BY <2>2, <3>1 DEF Ripe, EvidenceComplete
  <2>3. QED
    BY <1>1, <2>1, <2>2, OnceFacts
<1>4. x.round = round
  BY <1>1, <1>3, PastRipe, OnceFacts
<1>5. QED
  BY <1>1, <1>2, <1>3, <1>4

LEMMA JudgedCalm ==
  ASSUME OnceInv, Judged(round)
  PROVE  /\ Implemented(round) /\ pending = 0
         /\ \A r \in Roles : ~Working(r)
         /\ \A t \in Tasks : \A x \in todo[t] : Giving(x) => x.to = Reviewer
<1>1. Ripe(round)
  BY JudgedRipe, OnceFacts
<1>2. \A q \in Rounds : q <= round => Ripe(q)
  BY <1>1, PastRipe, OnceFacts
<1>3. Implemented(round) /\ pending = 0
  BY <1>1 DEF Ripe, OnceInv, Parked
<1>4. ~Working(Reviewer)
  BY DEF OnceInv, VerdictInv, Reviewing
<1>5. ASSUME NEW r \in Roles, r # Reviewer
      PROVE  ~Working(r)
  BY <1>2, <1>5, OpenRow, WorkedRound
<1>6. \A t \in Tasks : \A x \in todo[t] : Giving(x) => x.to = Reviewer
  BY <1>1, GivenRound
<1>7. QED
  BY <1>3, <1>4, <1>5, <1>6

LEMMA ParkedCalm ==
  ASSUME OnceInv, pending # 0, NEW r \in Roles
  PROVE  ~Working(r)
<1>1. /\ pending = round /\ round > 1 /\ ~Implemented(round) /\ ~Working(Implementer)
  BY DEF OnceInv, Parked
<1>2. CASE r = Reviewer
  <2>1. SUFFICES ASSUME Working(Reviewer)
                 PROVE  FALSE
    BY <1>2
  <2>2. active[Reviewer] \in Ids(Reviewer) /\ asg[Reviewer][active[Reviewer]].round = round
    BY <2>1, OpenRow, OnceFacts DEF OnceInv, VerdictInv, Reviewing
  <2>3. QED
    BY <1>1, <2>2 DEF OnceInv, VerdictInv, RipeReviews, Ripe
<1>3. CASE r \in Specialists
  <2>1. SUFFICES ASSUME Working(r)
                 PROVE  FALSE
    OBVIOUS
  <2>2. PICK q \in Rounds : q = Current(r).round /\ q <= round
    BY <2>1, OpenRow
  <2>3. q = round
    BY <2>1, <2>2, <1>3, WorkedRound, PastRipe, OnceFacts
  <2>4. decision[r][q] = "run"
    BY <1>3, <2>1, <2>2, OpenRow DEF OnceInv, OneRow
  <2>5. QED
    BY <1>1, <1>3, <2>2, <2>3, <2>4 DEF OnceInv, Later
<1>4. QED
  BY <1>1, <1>2, <1>3, OnceFacts

-----------------------------------------------------------------------------
(* A quiet step gives nobody anything: rows are edited at most, queues     *)
(* lose steps or trade one for the next of the same work.                  *)

Grown == \A s \in Specialists : \A q \in Rounds :
           decision[s][q] # "none" => decision'[s][q] = decision[s][q]

TablesQuiet ==
  /\ Kept /\ Grown /\ UNCHANGED round
  /\ \A r \in Roles : \A i \in Ids(r) :
       asg'[r][i].state = "accepted" =>
         asg[r][i].state = "accepted" \/ (i = active[r] /\ \A t \in Tasks : waits'[t] # r)

\* The queue S goes on with what T had.
Inherits(T, S) ==
  /\ S # {} => T # {}
  /\ \A x \in S :
       /\ x.do \in {"reopen", "implemented", "planned"} => x \in T
       /\ x.do = "resume" => S = T
       /\ Opens(x) => x \in T /\ \A y \in S : Giving(y) => y \in T
       /\ Giving(x) /\ x.to # Reviewer =>
            /\ \E y \in T : Giving(y) /\ y.to = x.to /\ y.round = x.round
            /\ \A y \in S : Giving(y) /\ y.to = x.to => y = x
       /\ x.do = "insert" /\ x.to = Reviewer => x \in T \/ Unread

HandsQuiet ==
  \A u \in Tasks : /\ Inherits(todo[u], todo'[u])
                   /\ (\E x \in todo'[u] : x.do = "resume") => waits'[u] = waits[u]

FlowQuiet ==
  /\ UNCHANGED pending
  /\ workflow' = "connecting" => workflow = "connecting"
  /\ workflow' = "ready" => workflow = "ready" /\ (paused' => paused)
  /\ pending # 0 => workflow' \in {workflow, "uncertain"}

InertStep == TablesQuiet /\ HandsQuiet /\ FlowQuiet /\ UNCHANGED decision

LEMMA KeptFacts ==
  ASSUME OnceInv, TablesQuiet
  PROVE  /\ \A r \in Roles : Ids(r)' = Ids(r) /\ Working(r)' = Working(r)
         /\ \A q : Implemented(q)' = Implemented(q)
         /\ \A r \in Roles : \A q \in Rounds : Free(r, q) => Free(r, q)'
         /\ Fresh /\ UNCHANGED <<pending, decision>> => Fresh'
<1>1. \A r \in Roles : Ids(r)' = Ids(r) /\ Working(r)' = Working(r)
  BY DEF TablesQuiet, Kept, Ids, Working
<1>2. ASSUME NEW q
      PROVE  Implemented(q)' = Implemented(q)
  <2>1. Implementer \in Roles
    BY OnceFacts
  <2>2. Reports(Implementer, q)' = Reports(Implementer, q)
    BY <1>1, <2>1 DEF TablesQuiet, Kept, Reports
  <2>3. \A i \in Reports(Implementer, q) : asg'[Implementer][i].kind = asg[Implementer][i].kind
    BY <2>1 DEF TablesQuiet, Kept, Reports
  <2>4. QED
    BY <2>2, <2>3 DEF Implemented
<1>3. ASSUME NEW r \in Roles, NEW q \in Rounds, Free(r, q)
      PROVE  Free(r, q)'
  <2>1. \A i \in Ids(r) : asg'[r][i].round = asg[r][i].round
    BY DEF TablesQuiet, Kept
  <2>2. QED
    BY <1>1, <1>2, <1>3, <2>1 DEF Free, TablesQuiet, Grown
<1>4. Fresh /\ UNCHANGED <<pending, decision>> => Fresh'
  BY <1>1 DEF Fresh, TablesQuiet
<1>5. QED
  BY <1>1, <1>2, <1>3, <1>4

LEMMA KeptTables ==
  ASSUME OnceInv, TablesQuiet
  PROVE  RoleKinds' /\ OnlyOpen' /\ OneRow' /\ Building' /\ (UNCHANGED decision => Later')
<1>1. /\ \A r \in Roles : Ids(r)' = Ids(r) /\ Working(r)' = Working(r)
      /\ \A q : Implemented(q)' = Implemented(q)
      /\ Kept /\ Grown /\ UNCHANGED <<round, active>>
      /\ Implementer \in Roles /\ Reviewer \in Roles /\ Specialists \subseteq Roles
  BY KeptFacts, OnceFacts DEF TablesQuiet, Kept
<1>2. RoleKinds'
  BY <1>1 DEF Kept, OnceInv, RoleKinds
<1>3. OnlyOpen'
  <2>1. \A r \in Roles : \A i \in Ids(r) :
          /\ asg'[r][i].state = "completed" <=> asg[r][i].state = "completed"
          /\ asg'[r][i].state = "accepted" => asg[r][i].state = "accepted" \/ i = active[r]
    BY <1>1 DEF Kept, TablesQuiet
  <2>2. QED
    BY <1>1, <2>1 DEF OnceInv, OnlyOpen
<1>4. OneRow'
  <2>1. \A s \in Specialists : Ids(s)' = Ids(s) /\ \A i \in Ids(s) : asg'[s][i].round = asg[s][i].round
    BY <1>1 DEF Kept
  <2>2. \A s \in Specialists : \A i \in Ids(s) : asg[s][i].round \in Rounds
    BY <1>1, RowRound, OnceFacts
  <2>3. \A s \in Specialists : \A i \in Ids(s) : decision'[s][asg[s][i].round] = "run"
    BY <1>1, <2>2 DEF OnceInv, OneRow, Grown
  <2>4. QED
    BY <1>1, <2>1, <2>3 DEF OnceInv, OneRow
<1>5. Building'
  <2>1. CASE ~Working(Implementer)
    BY <1>1, <2>1 DEF Building
  <2>2. CASE Working(Implementer)
    <3>1. PICK q : q = Current(Implementer).round
      OBVIOUS
    <3>2. active[Implementer] \in Ids(Implementer) /\ q = asg[Implementer][active[Implementer]].round
      BY <1>1, <2>2, <3>1, OpenRow
    <3>3. Current(Implementer)'.round = q
      BY <1>1, <3>2 DEF Kept, Current
    <3>4. ~Implemented(q)'
      BY <1>1, <2>2, <3>1 DEF OnceInv, Building
    <3>5. QED
      BY <3>3, <3>4 DEF Building, Implemented, Reports, Ids
  <2>3. QED
    BY <2>1, <2>2
<1>6. UNCHANGED decision => Later'
  BY <1>1 DEF OnceInv, Later
<1>7. QED
  BY <1>2, <1>3, <1>4, <1>5, <1>6

LEMMA UnreadStays ==
  ASSUME OnceInv, TablesQuiet, Unread, NEW t \in Tasks, waits'[t] = Reviewer
  PROVE  Unread'
<1>1. CASE ~Working(Reviewer)
  BY <1>1, KeptFacts, OnceFacts DEF TablesQuiet, Unread
<1>2. CASE Working(Reviewer)
  <2>1. PICK n : n = active[Reviewer]
    OBVIOUS
  <2>2. /\ n \in Ids(Reviewer) /\ Current(Reviewer) = asg[Reviewer][n]
        /\ active'[Reviewer] = n /\ Reviewer \in Roles
    BY <1>2, <2>1, OpenRow, OnceFacts DEF TablesQuiet, Kept
  <2>3. asg'[Reviewer][n].state # "accepted"
    BY <1>2, <2>2 DEF TablesQuiet, Unread
  <2>4. QED
    BY <2>2, <2>3 DEF Unread, Current
<1>3. QED
  BY <1>1, <1>2

\* What a task may have to do, it may still have to do.
LEMMA ProperStays ==
  ASSUME OnceInv, TablesQuiet, NEW S, NEW w, Proper(S, w), S \subseteq Steps,
         UNCHANGED <<pending, decision>> \/ \A x \in S : ~Opens(x),
         (\E x \in S : x.do = "insert" /\ x.to = Reviewer) => Unread'
  PROVE  Proper(S, w)'
<1>1. /\ \A r \in Roles : Working(r)' = Working(r)
      /\ \A q : Implemented(q)' = Implemented(q)
      /\ \A r \in Roles : \A q \in Rounds : Free(r, q) => Free(r, q)'
      /\ Fresh /\ UNCHANGED <<pending, decision>> => Fresh'
      /\ UNCHANGED round
  BY KeptFacts DEF TablesQuiet
<1>2. \A x \in S : x.to \in Roles /\ x.round \in Rounds
  BY DEF Steps
<1>3. QED
  BY <1>1, <1>2 DEF Proper, Giving, Opens

\* Inserting a review waits for the reviewer to read.
LEMMA InsertWaits ==
  ASSUME VerdictInv', NEW t \in Tasks, NEW x \in todo'[t], x.do = "insert"
  PROVE  waits'[t] = x.to
  BY DEF VerdictInv, Queues, Sound

LEMMA QuietProper ==
  ASSUME OnceInv, VerdictInv', InertStep
  PROVE  AllProper' /\ Separate'
<1>1. ASSUME NEW t \in Tasks
      PROVE  Proper(todo[t], waits[t])'
  <2>1. PICK S, w : S = todo'[t] /\ w = waits'[t]
    OBVIOUS
  <2>2. PICK T, v : T = todo[t] /\ v = waits[t]
    OBVIOUS
  <2>3. /\ Inherits(T, S) /\ Proper(T, v)
        /\ (\E x \in S : x.do = "resume") => w = v
    BY <2>1, <2>2 DEF InertStep, HandsQuiet, OnceInv, AllProper
  <2>4. S \subseteq Steps
    <3>1. TypeOK'
      BY DEF VerdictInv, EvidenceInv, Typing
    <3>2. QED
      BY <2>1, <3>1 DEF TypeOK
  <2>5. Proper(S, w)
    <3>1. ASSUME NEW x \in S, Giving(x), x.to # Reviewer
          PROVE  /\ Free(x.to, x.round)
                 /\ \A y \in S : Giving(y) /\ y.to = x.to => y = x
      <4>1. /\ \E y \in T : Giving(y) /\ y.to = x.to /\ y.round = x.round
            /\ \A y \in S : Giving(y) /\ y.to = x.to => y = x
        BY <2>3, <3>1 DEF Inherits
      <4>2. PICK y \in T : Giving(y) /\ y.to = x.to /\ y.round = x.round
        BY <4>1
      <4>3. Free(y.to, y.round)
        BY <2>3, <3>1, <4>2 DEF Proper
      <4>4. QED
        BY <4>1, <4>2, <4>3
    <3>2. ASSUME NEW x \in S
          PROVE  /\ x.do = "insert" /\ x.to = Reviewer => Unread
                 /\ x.do = "planned" => x.to = Implementer
                 /\ x.do = "resume" => S = {x} /\ w = x.to /\ Working(x.to)
                 /\ x.do = "reopen" => x.round = round + 1
                 /\ x.do = "implemented" => Implemented(x.round)
      <4>1. /\ x.do \in {"reopen", "implemented", "planned"} => x \in T
            /\ x.do = "resume" => S = T
        BY <2>3, <3>2 DEF Inherits
      <4>2. x.do = "insert" /\ x.to = Reviewer => x \in T \/ Unread
        BY <2>3, <3>2 DEF Inherits
      <4>3. x \in T => /\ x.do = "insert" /\ x.to = Reviewer => Unread
                       /\ x.do = "planned" => x.to = Implementer
                       /\ x.do = "resume" => T = {x} /\ v = x.to /\ Working(x.to)
                       /\ x.do = "reopen" => x.round = round + 1
                       /\ x.do = "implemented" => Implemented(x.round)
        BY <2>3 DEF Proper
      <4>4. QED
        BY <2>3, <3>2, <4>1, <4>2, <4>3
    <3>3. ASSUME NEW x \in S, Opens(x)
          PROVE  Fresh /\ \A y \in S : Giving(y) => y.do = "initial" /\ y.to = Implementer
      <4>1. x \in T /\ \A y \in S : Giving(y) => y \in T
        BY <2>3, <3>3 DEF Inherits
      <4>2. Fresh /\ \A y \in T : Giving(y) => y.do = "initial" /\ y.to = Implementer
        BY <2>3, <3>3, <4>1 DEF Proper
      <4>3. QED
        BY <4>1, <4>2
    <3>4. ASSUME NEW x \in S, x.do = "decide", NEW y \in S, y.do = "decide"
          PROVE  y = x
      BY <2>3, <3>4 DEF Inherits, Proper, Opens
    <3>5. QED
      BY <3>1, <3>2, <3>3, <3>4 DEF Proper
  <2>6. (\E x \in S : x.do = "insert" /\ x.to = Reviewer) => Unread'
    <3>1. ASSUME NEW x \in S, x.do = "insert", x.to = Reviewer
          PROVE  Unread'
      <4>1. waits'[t] = Reviewer
        BY <2>1, <3>1, InsertWaits
      <4>2. Unread
        BY <2>5, <3>1 DEF Proper
      <4>3. QED
        BY <4>1, <4>2, UnreadStays DEF InertStep
    <3>2. QED
      BY <3>1
  <2>7. Proper(S, w)'
    BY <2>4, <2>5, <2>6, ProperStays DEF InertStep, FlowQuiet
  <2>8. QED
    BY <2>1, <2>7 DEF Proper, Giving, Opens
<1>2. ASSUME NEW t \in Tasks, NEW u \in Tasks, t # u
      PROVE  Apart(todo[t], todo[u])'
  <2>1. Apart(todo[t], todo[u]) /\ Inherits(todo[t], todo'[t]) /\ Inherits(todo[u], todo'[u])
    BY <1>2 DEF InertStep, HandsQuiet, OnceInv, Separate
  <2>2. ASSUME NEW x \in todo'[t], NEW y \in todo'[u]
        PROVE  /\ ~(Giving(x) /\ Giving(y) /\ x.to = y.to /\ x.to # Reviewer)
               /\ ~(x.do = "reopen" /\ y.do = "reopen")
               /\ ~Opens(x)
    <3>1. ~(Giving(x) /\ Giving(y) /\ x.to = y.to /\ x.to # Reviewer)
      BY <2>1, <2>2 DEF Apart, Inherits
    <3>2. ~(x.do = "reopen" /\ y.do = "reopen")
      BY <2>1, <2>2 DEF Apart, Inherits
    <3>3. ~Opens(x)
      <4>1. SUFFICES ASSUME Opens(x)
                     PROVE  FALSE
        OBVIOUS
      <4>2. x \in todo[t] /\ todo[u] # {}
        BY <2>1, <2>2, <4>1 DEF Inherits
      <4>3. QED
        BY <2>1, <4>1, <4>2 DEF Apart
    <3>4. QED
      BY <3>1, <3>2, <3>3
  <2>3. QED
    BY <2>2 DEF Apart, Giving, Opens
<1>3. AllProper'
  BY <1>1 DEF AllProper
<1>4. Separate'
  BY <1>2 DEF Separate
<1>5. QED
  BY <1>3, <1>4

LEMMA QuietKeeps ==
  ASSUME OnceInv, VerdictInv', InertStep
  PROVE  OnceInv'
<1>1. RoleKinds' /\ OnlyOpen' /\ OneRow' /\ Building' /\ Later'
  BY KeptTables DEF InertStep
<1>2. AllProper' /\ Separate'
  BY QuietProper
<1>3. /\ \A r \in Roles : Ids(r)' = Ids(r) /\ Working(r)' = Working(r)
      /\ \A q : Implemented(q)' = Implemented(q)
      /\ Fresh => Fresh'
      /\ UNCHANGED <<round, pending>> /\ Implementer \in Roles
  BY KeptFacts, OnceFacts DEF InertStep, TablesQuiet, FlowQuiet
<1>4. Unstarted'
  <2>1. SUFFICES ASSUME workflow' = "connecting"
                 PROVE  Fresh' /\ \A t \in Tasks : todo'[t] = {}
    BY DEF Unstarted
  <2>2. Fresh /\ \A t \in Tasks : todo[t] = {}
    BY <2>1 DEF InertStep, FlowQuiet, OnceInv, Unstarted
  <2>3. QED
    BY <1>3, <2>2 DEF InertStep, HandsQuiet, Inherits
<1>5. Unpaused'
  <2>1. workflow' = "ready" => workflow = "ready" /\ (paused' => paused)
    BY DEF InertStep, FlowQuiet
  <2>2. QED
    BY <2>1 DEF OnceInv, Unpaused
<1>6. Parked'
  <2>1. SUFFICES ASSUME pending # 0
                 PROVE  /\ pending' = round' /\ round' > 1 /\ ~Implemented(round)'
                        /\ ~Working(Implementer)'
                        /\ workflow' \in {"needs_attention", "routing", "uncertain"}
                        /\ workflow' = "needs_attention" => Held'
    BY <1>3 DEF Parked
  <2>2. /\ pending = round /\ round > 1 /\ ~Implemented(round) /\ ~Working(Implementer)
        /\ workflow \in {"needs_attention", "routing", "uncertain"}
        /\ workflow = "needs_attention" => Held
    BY <2>1 DEF OnceInv, Parked
  <2>3. workflow' \in {workflow, "uncertain"}
    BY <2>1 DEF InertStep, FlowQuiet
  <2>4. Held => Held'
    <3>1. Implementer # Reviewer
      BY OnceFacts
    <3>2. QED
      BY <3>1 DEF InertStep, HandsQuiet, Inherits, Held, Giving
  <2>5. ~Implemented(round)'
    <3>1. PICK q : q = round
      OBVIOUS
    <3>2. ~Implemented(q)'
      BY <1>3, <2>2, <3>1
    <3>3. QED
      BY <1>3, <3>1, <3>2 DEF Implemented, Reports, Ids
  <2>6. QED
    BY <1>3, <2>2, <2>3, <2>4, <2>5
<1>7. QED
  BY <1>1, <1>2, <1>4, <1>5, <1>6 DEF OnceInv

-----------------------------------------------------------------------------
(* A step that does give work: what it gives is proper, and the other      *)
(* tasks keep apart from it.                                               *)

\* Task t is left with S while it waits for w; the others go on as they were.
Left(t, S, w) ==
  \A u \in Tasks : /\ todo'[u] = IF u = t THEN S ELSE todo[u]
                   /\ waits'[u] = IF u = t THEN w ELSE waits[u]

Alone(t, S) == \A u \in Tasks \ {t} : Apart(S, todo[u]) /\ Apart(todo[u], S)

LEMMA LeftBy ==
  ASSUME TypeOK, NEW t \in Tasks, NEW S, NEW r, Run(t, S) \/ Pause(t, S) \/ Drain(t, r, S)
  PROVE  \E w : Left(t, S, w) /\ (Drain(t, r, S) => w = r)
<1>1. \A u \in Tasks : todo'[u] = IF u = t THEN S ELSE todo[u]
  BY TodoIs
<1>2. PICK w : /\ \A u \in Tasks : waits'[u] = IF u = t THEN w ELSE waits[u]
               /\ Drain(t, r, S) => w = r
  BY WaitsIs
<1>3. QED
  BY <1>1, <1>2 DEF Left

LEMMA HandsMove ==
  ASSUME OnceInv, NEW t \in Tasks, NEW S, NEW w, Left(t, S, w), Proper(S, w)', Alone(t, S),
         \A u \in Tasks \ {t} : \E T, v : T = todo[u] /\ v = waits[u] /\ Proper(T, v)'
  PROVE  AllProper' /\ Separate'
<1>1. ASSUME NEW u \in Tasks
      PROVE  Proper(todo[u], waits[u])'
  <2>1. PICK T, v : T = todo'[u] /\ v = waits'[u]
    OBVIOUS
  <2>2. Proper(T, v)'
    <3>1. CASE u = t
      BY <2>1, <3>1 DEF Left
    <3>2. CASE u # t
      BY <2>1, <3>2 DEF Left
    <3>3. QED
      BY <3>1, <3>2
  <2>3. QED
    BY <2>1, <2>2 DEF Proper, Giving, Opens
<1>2. ASSUME NEW u \in Tasks, NEW v \in Tasks, u # v
      PROVE  Apart(todo[u], todo[v])'
  <2>1. Apart(todo'[u], todo'[v])
    BY <1>2 DEF Left, Alone, OnceInv, Separate
  <2>2. QED
    BY <2>1 DEF Apart, Giving, Opens
<1>3. QED
  BY <1>1, <1>2 DEF AllProper, Separate

\* Whoever is given work is given it after the start, unless by the start itself.
LEMMA StartedFresh ==
  ASSUME OnceInv, ~Fresh
  PROVE  \A t \in Tasks : \A x \in todo[t] : ~Opens(x)
  BY DEF OnceInv, AllProper, Proper

LEMMA FreshRows ==
  ASSUME OnceInv, Fresh
  PROVE  /\ \A r \in Roles : Ids(r) = {} /\ ~Working(r)
         /\ \A q : ~Implemented(q)
<1>1. \A r \in Roles : Ids(r) = {}
  BY DEF Fresh
<1>2. \A r \in Roles : ~Working(r)
  BY <1>1, OpenRow
<1>3. \A q : ~Implemented(q)
  BY <1>1, OnceFacts DEF Implemented, Reports
<1>4. QED
  BY <1>1, <1>2, <1>3

LEMMA GivingStarted ==
  ASSUME OnceInv, NEW t \in Tasks, NEW x \in Ready(t), Giving(x)
  PROVE  \A u \in Tasks : \A y \in todo[u] : ~Opens(y)
<1>1. x \in todo[t] /\ \A y \in todo[t] : Rank(x.do) <= Rank(y.do)
  BY DEF Ready
<1>2. ASSUME NEW y \in todo[t], Opens(y)
      PROVE  FALSE
  <2>1. x.do = "initial"
    BY <1>1, <1>2 DEF OnceInv, AllProper, Proper
  <2>2. Rank(x.do) = 4
    BY <2>1, Ranks
  <2>3. Rank(y.do) \in {1, 2, 3}
    <3>1. "baseline" \in Ranked[1] /\ "begin" \in Ranked[2] /\ "decide" \in Ranked[3]
      BY DEF Ranked
    <3>2. Rank("baseline") = 1 /\ Rank("begin") = 2 /\ Rank("decide") = 3
      BY <3>1, RankIs
    <3>3. QED
      BY <1>2, <3>2 DEF Opens
  <2>4. QED
    BY <1>1, <1>2, <2>2, <2>3
<1>3. ASSUME NEW u \in Tasks, u # t, NEW y \in todo[u]
      PROVE  ~Opens(y)
  BY <1>1, <1>3 DEF OnceInv, Separate, Apart
<1>4. QED
  BY <1>2, <1>3

\* The tables stay, and task t is left with S.
LEMMA TablesMove ==
  ASSUME OnceInv, VerdictInv', TablesQuiet, UNCHANGED decision,
         NEW t \in Tasks, NEW S, NEW w, Left(t, S, w), Alone(t, S), Proper(S, w), S \subseteq Steps,
         \A x \in S : ~(x.do = "insert" /\ x.to = Reviewer),
         UNCHANGED pending \/ (\A u \in Tasks : \A x \in todo[u] \cup S : ~Opens(x))
  PROVE  AllProper' /\ Separate'
<1>1. Proper(S, w)'
  BY ProperStays
<1>2. ASSUME NEW u \in Tasks \ {t}
      PROVE  \E T, v : T = todo[u] /\ v = waits[u] /\ Proper(T, v)'
  <2>1. PICK T, v : T = todo[u] /\ v = waits[u]
    OBVIOUS
  <2>2. Proper(T, v) /\ T \subseteq Steps /\ T = todo'[u] /\ v = waits'[u]
    BY <2>1, OnceFacts DEF OnceInv, AllProper, Left, TypeOK
  <2>3. (\E x \in T : x.do = "insert" /\ x.to = Reviewer) => Unread'
    <3>1. ASSUME NEW x \in T, x.do = "insert", x.to = Reviewer
          PROVE  Unread'
      <4>1. waits'[u] = Reviewer
        BY <2>2, <3>1, InsertWaits
      <4>2. Unread
        BY <2>2, <3>1 DEF Proper
      <4>3. QED
        BY <4>1, <4>2, UnreadStays
    <3>2. QED
      BY <3>1
  <2>4. Proper(T, v)'
    BY <2>1, <2>2, <2>3, ProperStays
  <2>5. QED
    BY <2>1, <2>4
<1>3. QED
  BY <1>1, <1>2, HandsMove

\* The rows, the pointers and the decisions are as they were.
LEMMA SameTablesQuiet ==
  ASSUME UNCHANGED <<asg, active, decision, round>>
  PROVE  TablesQuiet /\ Kept
  BY SameKept DEF TablesQuiet, Grown

\* The parts that only the tables and the workflow speak of.
LEMMA SameRest ==
  ASSUME OnceInv, UNCHANGED <<asg, active, decision, round, pending>>, workflow' # "connecting",
         Unpaused', Parked', AllProper', Separate', VerdictInv'
  PROVE  OnceInv'
<1>1. RoleKinds' /\ OnlyOpen' /\ OneRow' /\ Building' /\ Later'
  BY SameTablesQuiet, KeptTables
<1>2. Unstarted'
  BY DEF Unstarted
<1>3. QED
  BY <1>1, <1>2 DEF OnceInv

\* No repair is held back: nothing to keep parked.
LEMMA NoneParked ==
  ASSUME pending' = 0
  PROVE  Parked'
  BY DEF Parked

LEMMA StartOnce ==
  ASSUME OnceInv, VerdictInv', NEW r \in Roles, StartWorkflow(r)
  PROVE  OnceInv'
<1> DEFINE S == {Step("baseline", x, 1) : x \in Roles} \cup
                {Step("begin", r, 1), Step("decide", r, 1), Step("initial", Implementer, 1),
                 Step("started", r, 1)}
<1>1. /\ r \in Tasks /\ TypeOK /\ UNCHANGED <<asg, active, decision, round, pending>>
      /\ workflow = "connecting" /\ workflow' = "initializing" /\ Run(r, S)
  BY OnceFacts DEF StartWorkflow
<1>2. Fresh /\ \A t \in Tasks : todo[t] = {}
  BY <1>1 DEF OnceInv, Unstarted
<1>3. PICK w : Left(r, S, w)
  BY <1>1, LeftBy
<1>4. /\ \A x \in S : x.do \in {"baseline", "begin", "decide", "initial", "started"} /\ x.round = 1
      /\ \A x \in S : x.do = "decide" => x = Step("decide", r, 1)
      /\ \A x \in S : x.do = "initial" => x = Step("initial", Implementer, 1)
  BY DEF Step
<1>5. S \subseteq Steps
  <2>1. {"baseline", "begin", "decide", "initial", "started"} \subseteq UNION {Ranked[k] : k \in DOMAIN Ranked}
    <3>1. /\ "baseline" \in Ranked[1] /\ "begin" \in Ranked[2] /\ "decide" \in Ranked[3]
          /\ "initial" \in Ranked[4] /\ "started" \in Ranked[6] /\ {1, 2, 3, 4, 6} \subseteq DOMAIN Ranked
      BY DEF Ranked
    <3>2. QED
      BY <3>1
  <2>2. Implementer \in Roles /\ 1 \in Rounds
    BY OnceFacts, ConstantAssumption DEF Rounds
  <2>3. QED
    BY <2>1, <2>2 DEF Steps, Step
<1>6. Step("initial", Implementer, 1).to = Implementer
  BY DEF Step
<1> HIDE DEF S
<1>7. Free(Implementer, 1)
  BY <1>2, FreshRows, OnceFacts DEF Free
<1>8. Proper(S, w)
  BY <1>2, <1>4, <1>6, <1>7 DEF Proper, Giving, Opens
<1>9. Alone(r, S)
  BY <1>2 DEF Alone, Apart
<1>10. AllProper' /\ Separate'
  BY <1>1, <1>3, <1>4, <1>5, <1>8, <1>9, TablesMove, SameTablesQuiet
<1>11. QED
  <2>1. pending' = 0
    BY <1>1, <1>2 DEF Fresh
  <2>2. Unpaused' /\ Parked'
    BY <1>1, <2>1, NoneParked DEF Unpaused
  <2>3. QED
    BY <1>1, <1>10, <2>2, SameRest

\* The message of an operator goes to a worker that works, so the run has begun.
LEMMA SendOnce ==
  ASSUME OnceInv, VerdictInv', NEW o \in Operators, NEW r \in Roles, Send(o, r)
  PROVE  OnceInv'
<1> DEFINE S == {Step("resume", r, round)}
<1>1. /\ o \in Tasks /\ TypeOK /\ UNCHANGED <<asg, active, decision, round, pending, workflow, paused>>
      /\ workflow = "needs_attention" /\ Working(r) /\ Idle(o) /\ Drain(o, r, S)
  BY OnceFacts DEF Send, durable
<1>2. Left(o, S, r)
  BY <1>1, LeftBy
<1>3. \A x \in S : x.do = "resume" /\ x.to = r /\ S = {x}
  BY DEF Step
<1>4. S \subseteq Steps
  <2>1. "resume" \in Ranked[2] /\ 2 \in DOMAIN Ranked
    BY DEF Ranked
  <2>2. QED
    BY <2>1, OnceFacts DEF Steps, Step
<1> HIDE DEF S
<1>5. Proper(S, r)
  BY <1>1, <1>3 DEF Proper, Giving, Opens
<1>6. \A u \in Tasks : \A x \in todo[u] : ~Opens(x)
  BY <1>1, FreshRows, StartedFresh
<1>7. Alone(o, S)
  BY <1>3, <1>6 DEF Alone, Apart, Giving, Opens
<1>8. AllProper' /\ Separate'
  BY <1>1, <1>2, <1>3, <1>4, <1>5, <1>7, TablesMove, SameTablesQuiet
<1>9. pending' = 0
  BY <1>1, ParkedCalm
<1>10. Unpaused' /\ Parked'
  BY <1>1, <1>9, NoneParked DEF Unpaused
<1>11. QED
  BY <1>1, <1>8, <1>10, SameRest

\* Two operators who reopen a ready run one after the other both do so only when the
\* implementer is slow to read the message of the first.
OneReopens == Implementer \in SlowRoles => \A o, p \in Operators : o = p

LEMMA NoneReopens ==
  ASSUME OnceInv, OneReopens, Calm, NEW o \in Operators, Idle(o)
  PROVE  \A u \in Tasks : \A x \in todo[u] : x.do # "reopen"
<1>1. SUFFICES ASSUME NEW u \in Tasks, NEW x \in todo[u], x.do = "reopen"
               PROVE  FALSE
  OBVIOUS
<1>2. u \in Operators /\ waits[u] = Implementer
  BY <1>1, TakenStep, OnceFacts DEF Sound
<1>3. Suspended(u) /\ Implementer # Nothing
  BY <1>1, OnceFacts, ConstantAssumption DEF Calm
<1>4. Implementer \in SlowRoles
  BY <1>2, <1>3 DEF Suspended
<1>5. u = o
  BY <1>2, <1>4 DEF OneReopens
<1>6. QED
  BY <1>1, <1>5 DEF Idle

LEMMA JudgedStarted ==
  ASSUME OnceInv, Judged(round)
  PROVE  \A u \in Tasks : \A x \in todo[u] : ~Opens(x)
  BY JudgedCalm, FreshRows, StartedFresh

LEMMA ReopenOnce ==
  ASSUME OnceInv, VerdictInv', OneReopens, Calm, NEW o \in Operators, Reopen(o)
  PROVE  OnceInv'
<1> DEFINE S == {Step("reopen", Implementer, round + 1)}
<1>1. /\ o \in Tasks /\ TypeOK /\ UNCHANGED <<asg, active, decision, round, pending, workflow, paused>>
      /\ workflow = "ready" /\ Idle(o) /\ Drain(o, Implementer, S) /\ round < MaxRounds
  BY OnceFacts DEF Reopen, durable
<1>2. Left(o, S, Implementer)
  BY <1>1, LeftBy
<1>3. \A x \in S : x.do = "reopen" /\ x.round = round + 1
  BY DEF Step
<1>4. S \subseteq Steps
  <2>1. "reopen" \in Ranked[2] /\ 2 \in DOMAIN Ranked
    BY DEF Ranked
  <2>2. round + 1 \in Rounds
    BY <1>1, OnceFacts, ConstantAssumption DEF Rounds
  <2>3. QED
    BY <2>1, <2>2, OnceFacts DEF Steps, Step
<1> HIDE DEF S
<1>5. Proper(S, Implementer)
  BY <1>3 DEF Proper, Giving, Opens
<1>6. Judged(round)
  <2>1. Verdict(round, "approved")
    BY <1>1 DEF OnceInv, VerdictInv, OneAtATime, Announced
  <2>2. QED
    BY <2>1 DEF Verdict, Judged
<1>7. \A u \in Tasks : \A x \in todo[u] : ~Opens(x) /\ x.do # "reopen"
  BY <1>1, <1>6, JudgedStarted, NoneReopens
<1>8. Alone(o, S)
  BY <1>3, <1>7 DEF Alone, Apart, Giving, Opens
<1>9. AllProper' /\ Separate'
  BY <1>1, <1>2, <1>3, <1>4, <1>5, <1>8, TablesMove, SameTablesQuiet
<1>10. pending' = 0
  BY <1>1, <1>6, JudgedCalm
<1>11. Unpaused' /\ Parked'
  BY <1>1, <1>10, NoneParked DEF Unpaused, OnceInv
<1>12. QED
  BY <1>1, <1>9, <1>11, SameRest

\* The repair held back is the current round's, and nothing else gives it.
LEMMA ApproveOnce ==
  ASSUME OnceInv, VerdictInv', NEW o \in Operators, ApproveRepair(o)
  PROVE  OnceInv'
<1> DEFINE S == {Step("assign", Implementer, pending), Step("confirm", Implementer, pending)}
<1>1. /\ o \in Tasks /\ TypeOK /\ UNCHANGED <<asg, active, decision, round, pending, paused>>
      /\ workflow = "needs_attention" /\ pending # 0 /\ workflow' = "routing" /\ Run(o, S)
  BY OnceFacts DEF ApproveRepair, RepairHeld
<1>2. /\ pending = round /\ round > 1 /\ ~Implemented(round) /\ ~Working(Implementer) /\ Held
  BY <1>1 DEF OnceInv, Parked
<1>3. PICK w : Left(o, S, w)
  BY <1>1, LeftBy
<1>4. /\ \A x \in S : x.do \in {"assign", "confirm"} /\ x.to = Implementer /\ x.round = round
      /\ \A x, y \in S : x.do = "assign" /\ y.do = "assign" => x = y
  BY <1>2 DEF Step
<1>5. S \subseteq Steps
  <2>1. "assign" \in Ranked[5] /\ "confirm" \in Ranked[6] /\ {5, 6} \subseteq DOMAIN Ranked
    BY DEF Ranked
  <2>2. QED
    BY <1>2, <2>1, OnceFacts DEF Steps, Step
<1> HIDE DEF S
<1>6. Proper(S, w)
  <2>1. Free(Implementer, round)
    BY <1>2, OnceFacts DEF Free
  <2>2. QED
    BY <1>4, <2>1 DEF Proper, Giving, Opens
<1>7. \A u \in Tasks : \A x \in todo[u] : ~Opens(x)
  <2>1. ~Fresh
    BY <1>1 DEF Fresh
  <2>2. QED
    BY <2>1, StartedFresh
<1>8. Alone(o, S)
  BY <1>2, <1>4, <1>7 DEF Alone, Apart, Giving, Opens, Held
<1>9. AllProper' /\ Separate'
  BY <1>1, <1>3, <1>4, <1>5, <1>6, <1>8, TablesMove, SameTablesQuiet
<1>10. Parked'
  <2>1. ~Implemented(round)'
    BY <1>1, <1>2 DEF Implemented, Reports, Ids
  <2>2. ~Working(Implementer)'
    BY <1>1, <1>2 DEF Working
  <2>3. QED
    BY <1>1, <1>2, <2>1, <2>2 DEF Parked
<1>11. QED
  <2>1. Unpaused'
    BY <1>1 DEF Unpaused
  <2>2. QED
    BY <1>1, <1>9, <1>10, <2>1, SameRest

\* The limit holds the implementer's repair back: what would give it is gone.
LEMMA HoldOnce ==
  ASSUME OnceInv, VerdictInv', NEW t \in Tasks, NEW x \in Ready(t), Giving(x), x.to = Implementer,
         x.round > 1, Pause(t, Rest(t, x)), UNCHANGED <<asg, active, decision, round, paused>>,
         workflow' = "needs_attention", pending' = x.round
  PROVE  OnceInv'
<1> DEFINE S == Rest(t, x)
<1>1. x \in todo[t] /\ S = todo[t] \ {x} /\ TypeOK /\ \A y \in todo[t] : Rank(x.do) <= Rank(y.do)
  BY OnceFacts DEF Ready, Rest
<1>2. /\ x.round = round /\ Free(Implementer, round)
      /\ \A y \in todo[t] : Giving(y) /\ y.to = Implementer => y = x
  BY <1>1, GivenRound, OnceFacts DEF OnceInv, AllProper, Proper
<1>3. PICK w : Left(t, S, w)
  BY <1>1, LeftBy
<1>4. \A u \in Tasks : \A y \in todo[u] : ~Opens(y)
  BY GivingStarted
<1>5. Plain(S) \/ x.do = "inform"
  BY RestPlain, OnceFacts
<1>6. x.do # "inform" /\ \A y \in S : y.do # "insert"
  BY <1>5 DEF Giving, Plain
<1>7. S \subseteq Steps
  BY <1>1 DEF TypeOK
<1>8. \A y \in S : y.do # "resume"
  BY <1>1 DEF OnceInv, AllProper, Proper
<1> HIDE DEF S
<1>9. Proper(S, w)
  BY <1>1, <1>4, <1>6, <1>8 DEF OnceInv, AllProper, Proper
<1>10. Alone(t, S)
  BY <1>1 DEF OnceInv, Separate, Alone, Apart
<1>11. AllProper' /\ Separate'
  BY <1>1, <1>3, <1>4, <1>6, <1>7, <1>9, <1>10, TablesMove, SameTablesQuiet
<1>12. Held'
  <2>1. ASSUME NEW u \in Tasks, NEW y \in todo'[u], Giving(y), y.to = Implementer
        PROVE  FALSE
    <3>1. CASE u = t
      BY <1>1, <1>2, <1>3, <2>1, <3>1 DEF Left
    <3>2. CASE u # t
      <4>1. y \in todo[u]
        BY <1>3, <2>1, <3>2 DEF Left
      <4>2. Apart(todo[t], todo[u]) /\ Implementer # Reviewer
        BY <3>2, OnceFacts DEF OnceInv, Separate
      <4>3. QED
        BY <1>1, <2>1, <4>1, <4>2 DEF Apart
    <3>3. QED
      BY <3>1, <3>2
  <2>2. QED
    BY <2>1 DEF Held, Giving
<1>13. Parked'
  <2>1. ~Implemented(round)' /\ ~Working(Implementer)'
    BY <1>2, OnceFacts DEF Free, Implemented, Reports, Ids, Working
  <2>2. QED
    BY <1>2, <1>12, <2>1 DEF Parked
<1>14. RoleKinds' /\ OnlyOpen' /\ OneRow' /\ Building' /\ Later'
  BY SameTablesQuiet, KeptTables
<1>15. Unstarted' /\ Unpaused'
  BY DEF Unstarted, Unpaused
<1>16. QED
  BY <1>11, <1>13, <1>14, <1>15 DEF OnceInv

\* The announcement: the pause is looked at when the state is written.
LEMMA ApprovalOnce ==
  ASSUME OnceInv, VerdictInv', NEW t \in Tasks, NEW x \in todo[t], RouteApproval(t, x)
  PROVE  OnceInv'
<1>1. /\ x.do = "approved" /\ Run(t, {}) /\ TypeOK
      /\ UNCHANGED <<asg, active, decision, round, pending, paused>>
      /\ workflow' = Published("ready")
  BY OnceFacts DEF RouteApproval, Takes
<1>2. Judged(round)
  <2>1. Verdict(round, "approved")
    BY <1>1, TakenStep, OnceFacts DEF Sound, Deciding
  <2>2. QED
    BY <2>1 DEF Verdict, Judged
<1>3. PICK w : Left(t, {}, w)
  BY <1>1, LeftBy
<1>4. Proper({}, w) /\ Alone(t, {})
  BY DEF Proper, Alone, Apart
<1>5. AllProper' /\ Separate'
  BY <1>1, <1>3, <1>4, TablesMove, SameTablesQuiet
<1>6. workflow' = "ready" => ~paused'
  BY <1>1 DEF Published
<1>7. Parked' /\ Unpaused' /\ workflow' # "connecting"
  BY <1>1, <1>2, <1>6, JudgedCalm, NoneParked DEF Unpaused, Published
<1>8. QED
  BY <1>1, <1>5, <1>7, SameRest

-----------------------------------------------------------------------------
(* A new row.                                                              *)

\* Task t is about to give r an assignment of round q, by taking its step x.
Gives(t, x, r, q) ==
  /\ x \in Ready(t) /\ q = x.round
  /\ \/ Giving(x) /\ x.to = r
     \/ x.do = "gate" /\ r = Reviewer /\ GateOpen(q)

LEMMA GateUnread ==
  ASSUME OnceInv, NEW q \in Rounds, q <= round, GateOpen(q)
  PROVE  Unread /\ ~Fresh
<1>1. q = round
  BY GateCurrent, OnceFacts
<1>2. ~Working(Reviewer)
  <2>1. SUFFICES ASSUME Working(Reviewer)
                 PROVE  FALSE
    OBVIOUS
  <2>2. PICK i \in Ids(Reviewer) : i = active[Reviewer] /\ Current(Reviewer) = asg[Reviewer][i]
    BY <2>1, OpenRow, OnceFacts
  <2>3. asg[Reviewer][i].round = q
    BY <1>1, <2>1, <2>2 DEF OnceInv, VerdictInv, Reviewing
  <2>4. QED
    BY <2>2, <2>3 DEF GateOpen
<1>3. ~Fresh
  BY FreshRows DEF GateOpen
<1>4. QED
  BY <1>2, <1>3 DEF Unread

LEMMA GivesFacts ==
  ASSUME OnceInv, NEW t \in Tasks, NEW x, NEW r \in Roles, NEW q, Gives(t, x, r, q)
  PROVE  /\ x \in todo[t] /\ q \in Rounds /\ q <= round
         /\ r # Reviewer => /\ Free(r, q)
                            /\ \A y \in Rest(t, x) : ~(Giving(y) /\ y.to = r)
                            /\ \A u \in Tasks \ {t} : \A y \in todo[u] : ~(Giving(y) /\ y.to = r)
         /\ r = Reviewer => Unread
         /\ \A u \in Tasks : \A y \in todo[u] : ~Opens(y)
         /\ \A y \in Rest(t, x) : y.do \notin {"resume", "reopen", "insert"}
<1>1. x \in todo[t] /\ x.do # "reopen" /\ x.do # "inform" /\ x.do # "resume"
  BY DEF Gives, Giving, Ready
<1>2. q \in Rounds /\ q <= round
  BY <1>1, TakenStep, OnceFacts DEF Gives
<1>3. ASSUME r # Reviewer
      PROVE  /\ Free(r, q)
             /\ \A y \in Rest(t, x) : ~(Giving(y) /\ y.to = r)
             /\ \A u \in Tasks \ {t} : \A y \in todo[u] : ~(Giving(y) /\ y.to = r)
  <2>1. Giving(x) /\ x.to = r /\ x.round = q
    BY <1>3 DEF Gives
  <2>2. Free(r, q) /\ \A y \in todo[t] : Giving(y) /\ y.to = r => y = x
    BY <1>1, <1>3, <2>1 DEF OnceInv, AllProper, Proper
  <2>3. \A u \in Tasks \ {t} : Apart(todo[t], todo[u])
    BY DEF OnceInv, Separate
  <2>4. QED
    BY <1>1, <1>3, <2>1, <2>2, <2>3 DEF Apart, Rest
<1>4. ASSUME r = Reviewer
      PROVE  Unread
  <2>1. CASE x.do = "gate" /\ GateOpen(q)
    BY <1>2, <2>1, GateUnread
  <2>2. CASE Giving(x) /\ x.to = Reviewer
    <3>1. x.do # "planned"
      BY <1>1, <2>2, OnceFacts DEF OnceInv, AllProper, Proper
    <3>2. x.do \notin {"initial", "probe", "assign"}
      BY <1>1, <2>2, OnceFacts, TypeFacts DEF EvidenceInv, ReviewQueue
    <3>3. x.do = "insert"
      BY <2>2, <3>1, <3>2 DEF Giving
    <3>4. QED
      BY <1>1, <2>2, <3>3 DEF OnceInv, AllProper, Proper
  <2>3. QED
    BY <1>4, <2>1, <2>2 DEF Gives
<1>5. \A u \in Tasks : \A y \in todo[u] : ~Opens(y)
  <2>1. CASE x.do = "gate" /\ GateOpen(q)
    BY <1>2, <2>1, GateUnread, StartedFresh
  <2>2. CASE Giving(x)
    BY <2>2, GivingStarted DEF Gives
  <2>3. QED
    BY <2>1, <2>2 DEF Gives
<1>6. Plain(Rest(t, x))
  BY <1>1, RestPlain, OnceFacts DEF Gives
<1>7. \A y \in Rest(t, x) : y.do # "resume"
  <2>1. \A y \in todo[t] : y.do = "resume" => todo[t] = {y}
    BY DEF OnceInv, AllProper, Proper
  <2>2. QED
    BY <1>1, <2>1 DEF Rest
<1>8. QED
  BY <1>1, <1>2, <1>3, <1>4, <1>5, <1>6, <1>7 DEF Plain

LEMMA CreatedRow ==
  ASSUME OnceInv, NEW r \in Roles, NEW q, NEW kind, Create(r, q, kind)
  PROVE  /\ Ids(r)' = Ids(r) \cup {Len(asg[r]) + 1} /\ Len(asg[r]) + 1 \notin Ids(r)
         /\ active'[r] = Len(asg[r]) + 1 /\ Working(r)'
         /\ asg'[r][Len(asg[r]) + 1] = New(q, kind)
         /\ \A i \in Ids(r) : asg'[r][i] = asg[r][i]
         /\ \A u \in Roles \ {r} : /\ Ids(u)' = Ids(u) /\ asg'[u] = asg[u]
                                   /\ active'[u] = active[u] /\ Working(u)' = Working(u)
         /\ \A n : Implemented(n)' = Implemented(n)
<1>1. /\ Len(asg'[r]) = Len(asg[r]) + 1 /\ Len(asg[r]) \in Nat
      /\ asg'[r][Len(asg[r]) + 1] = New(q, kind)
      /\ \A i \in Ids(r) : asg'[r][i] = asg[r][i]
      /\ \A u \in Roles \ {r} : asg'[u] = asg[u]
      /\ active'[r] = Len(asg[r]) + 1
      /\ \A u \in Roles \ {r} : active'[u] = active[u]
  BY CreateKeepsRows, OnceFacts
<1>2. Ids(r)' = Ids(r) \cup {Len(asg[r]) + 1} /\ Len(asg[r]) + 1 \notin Ids(r)
  BY <1>1 DEF Ids
<1>3. \A u \in Roles \ {r} : Ids(u)' = Ids(u) /\ Working(u)' = Working(u)
  BY <1>1 DEF Ids, Working
<1>4. Working(r)'
  BY <1>1 DEF Working
<1>5. ASSUME NEW n
      PROVE  Implemented(n)' = Implemented(n)
  <2>1. New(q, kind).state = "delivering"
    BY DEF New
  <2>2. Reports(Implementer, n)' = Reports(Implementer, n)
    BY <1>1, <1>2, <1>3, <2>1, OnceFacts DEF Reports
  <2>3. \A i \in Reports(Implementer, n) : asg'[Implementer][i] = asg[Implementer][i]
    BY <1>1, OnceFacts DEF Reports
  <2>4. QED
    BY <2>2, <2>3 DEF Implemented
<1>6. QED
  BY <1>1, <1>2, <1>3, <1>4, <1>5

LEMMA CreateTables ==
  ASSUME OnceInv, NEW r \in Roles, NEW q \in Rounds, NEW kind, Create(r, q, kind),
         kind = "evidence" <=> r \in Specialists,
         r # Reviewer => Free(r, q), r = Reviewer => Unread, UNCHANGED <<round, decision>>
  PROVE  RoleKinds' /\ OnlyOpen' /\ OneRow' /\ Building' /\ Later'
<1> DEFINE n == Len(asg[r]) + 1
<1>1. /\ Ids(r)' = Ids(r) \cup {n} /\ n \notin Ids(r)
      /\ active'[r] = n
      /\ asg'[r][n] = New(q, kind)
      /\ \A i \in Ids(r) : asg'[r][i] = asg[r][i]
      /\ \A u \in Roles \ {r} : /\ Ids(u)' = Ids(u) /\ asg'[u] = asg[u]
                                /\ active'[u] = active[u] /\ Working(u)' = Working(u)
      /\ \A m : Implemented(m)' = Implemented(m)
  BY CreatedRow
<1>2. /\ New(q, kind).round = q /\ New(q, kind).kind = kind /\ New(q, kind).state = "delivering"
  BY DEF New
<1>3. /\ Implementer \in Roles /\ Reviewer \in Roles /\ Specialists \subseteq Roles
      /\ Reviewer \notin Specialists /\ Implementer # Reviewer
  BY OnceFacts
<1> HIDE DEF n
<1>4. RoleKinds'
  BY <1>1, <1>2 DEF OnceInv, RoleKinds
<1>5. OnlyOpen'
  <2>1. ASSUME NEW i \in Ids(r)
        PROVE  /\ r # Reviewer => asg[r][i].state = "completed"
               /\ asg[r][i].state # "accepted"
    <3>1. /\ r # Reviewer /\ asg[r][i].state # "completed" => i = active[r]
          /\ asg[r][i].state = "accepted" => i = active[r]
      BY <2>1 DEF OnceInv, OnlyOpen
    <3>2. i # 0
      BY <2>1 DEF Ids
    <3>3. r # Reviewer => active[r] = 0
      BY DEF Free, Working
    <3>4. r = Reviewer => active[r] = 0 \/ asg[r][active[r]].state # "accepted"
      BY DEF Unread, Working, Current
    <3>5. QED
      BY <3>1, <3>2, <3>3, <3>4
  <2>2. QED
    BY <1>1, <1>2, <2>1 DEF OnceInv, OnlyOpen
<1>6. OneRow'
  <2>1. r \in Specialists => decision[r][q] = "run" /\ \A i \in Ids(r) : asg[r][i].round # q
    BY <1>3 DEF Free
  <2>2. QED
    BY <1>1, <1>2, <1>3, <2>1 DEF OnceInv, OneRow
<1>7. Building'
  <2>1. CASE r = Implementer
    <3>1. Current(Implementer)'.round = q
      BY <1>1, <1>2, <2>1 DEF Current
    <3>2. ~Implemented(q)'
      BY <1>1, <1>3, <2>1 DEF Free
    <3>3. QED
      BY <3>1, <3>2 DEF Building, Implemented, Reports, Ids
  <2>2. CASE r # Implementer
    <3>1. PICK m : m = Current(Implementer).round
      OBVIOUS
    <3>2. Current(Implementer)'.round = m /\ Working(Implementer)' = Working(Implementer)
      BY <1>1, <1>3, <2>2, <3>1 DEF Current
    <3>3. Working(Implementer) => ~Implemented(m)'
      BY <1>1, <3>1 DEF OnceInv, Building
    <3>4. QED
      BY <3>2, <3>3 DEF Building, Implemented, Reports, Ids
  <2>3. QED
    BY <2>1, <2>2
<1>8. Later'
  BY <1>1 DEF OnceInv, Later
<1>9. QED
  BY <1>4, <1>5, <1>6, <1>7, <1>8

\* What another task has to do, it may still do when r has been given its assignment.
LEMMA CreateProper ==
  ASSUME OnceInv, NEW r \in Roles, NEW q, NEW kind, Create(r, q, kind), UNCHANGED <<round, decision>>,
         NEW S, NEW w, S \subseteq Steps, Proper(S, w), \A y \in S : ~Opens(y),
         r # Reviewer => \A y \in S : ~(Giving(y) /\ y.to = r)
  PROVE  Proper(S, w)'
<1>1. /\ Working(r)' /\ active'[r] = Len(asg[r]) + 1
      /\ asg'[r][Len(asg[r]) + 1] = New(q, kind)
      /\ \A u \in Roles \ {r} : /\ Ids(u)' = Ids(u) /\ asg'[u] = asg[u]
                                /\ active'[u] = active[u] /\ Working(u)' = Working(u)
      /\ \A m : Implemented(m)' = Implemented(m)
  BY CreatedRow
<1>2. \A y \in S : y.to \in Roles /\ y.round \in Rounds
  BY DEF Steps
<1>3. ASSUME NEW u \in Roles \ {r}, NEW m, Free(u, m)
      PROVE  Free(u, m)'
  BY <1>1, <1>3 DEF Free
<1>4. Unread => Unread'
  <2>1. CASE r = Reviewer
    <3>1. Current(Reviewer)' = New(q, kind)
      BY <1>1, <2>1 DEF Current
    <3>2. QED
      BY <3>1 DEF Unread, New
  <2>2. CASE r # Reviewer
    <3>1. Current(Reviewer)' = Current(Reviewer)
      BY <1>1, <2>2, OnceFacts DEF Current
    <3>2. QED
      BY <1>1, <2>2, <3>1, OnceFacts DEF Unread
  <2>3. QED
    BY <2>1, <2>2
<1>5. \A u \in Roles : Working(u) => Working(u)'
  BY <1>1
<1>6. ASSUME NEW y \in S, Giving(y), y.to # Reviewer
      PROVE  Free(y.to, y.round)'
  <2>1. y.to \in Roles \ {r} /\ Free(y.to, y.round)
    BY <1>2, <1>6 DEF Proper
  <2>2. PICK u, m : u = y.to /\ m = y.round
    OBVIOUS
  <2>3. Free(u, m)'
    BY <1>3, <2>1, <2>2
  <2>4. QED
    BY <2>2, <2>3
<1>7. QED
  BY <1>1, <1>2, <1>4, <1>5, <1>6 DEF Proper, Giving, Opens

LEMMA CreateOnce ==
  ASSUME OnceInv, VerdictInv', NEW t \in Tasks, NEW x, NEW r \in Roles, NEW q, Gives(t, x, r, q),
         NEW kind, Create(r, q, kind), kind = "evidence" <=> r \in Specialists,
         UNCHANGED <<round, decision, paused>>,
         NEW S, S \subseteq Rest(t, x), NEW w, Left(t, S, w),
         pending' = IF SettlesRepair(r, q) THEN 0 ELSE pending,
         workflow' \in IF SettlesRepair(r, q) THEN {"active", "needs_attention", "uncertain"}
                                              ELSE {workflow, "uncertain"}
  PROVE  OnceInv'
<1>1. /\ x \in todo[t] /\ q \in Rounds /\ q <= round
      /\ r # Reviewer => /\ Free(r, q)
                         /\ \A y \in Rest(t, x) : ~(Giving(y) /\ y.to = r)
                         /\ \A u \in Tasks \ {t} : \A y \in todo[u] : ~(Giving(y) /\ y.to = r)
      /\ r = Reviewer => Unread
      /\ \A u \in Tasks : \A y \in todo[u] : ~Opens(y)
      /\ \A y \in Rest(t, x) : y.do \notin {"resume", "reopen", "insert"}
  BY GivesFacts
<1>2. RoleKinds' /\ OnlyOpen' /\ OneRow' /\ Building' /\ Later'
  BY <1>1, CreateTables
<1>3. S \subseteq todo[t] /\ S \subseteq Steps /\ \A u \in Tasks : todo[u] \subseteq Steps
  BY OnceFacts DEF Rest, TypeOK
<1>4. AllProper' /\ Separate'
  <2>1. Proper(S, w)
    BY <1>1, <1>3 DEF OnceInv, AllProper, Proper
  <2>2. Proper(S, w)'
    BY <1>1, <1>3, <2>1, CreateProper
  <2>3. ASSUME NEW u \in Tasks \ {t}
        PROVE  \E T, v : T = todo[u] /\ v = waits[u] /\ Proper(T, v)'
    <3>1. PICK T, v : T = todo[u] /\ v = waits[u]
      OBVIOUS
    <3>2. Proper(T, v) /\ T \subseteq Steps
      BY <1>3, <3>1 DEF OnceInv, AllProper
    <3>3. Proper(T, v)'
      BY <1>1, <3>1, <3>2, CreateProper
    <3>4. QED
      BY <3>1, <3>3
  <2>4. Alone(t, S)
    BY <1>3 DEF OnceInv, Separate, Alone, Apart
  <2>5. QED
    BY <2>2, <2>3, <2>4, HandsMove
<1>5. workflow # "connecting"
  BY <1>1 DEF OnceInv, Unstarted
<1>6. Unstarted' /\ Unpaused'
  BY <1>5 DEF OnceInv, Unstarted, Unpaused
<1>7. Parked'
  <2>1. SUFFICES ASSUME pending' # 0
                 PROVE  Parked'
    BY NoneParked
  <2>2. ~SettlesRepair(r, q) /\ pending' = pending /\ workflow' \in {workflow, "uncertain"} /\ pending # 0
    BY <2>1
  <2>3. /\ pending = round /\ round > 1 /\ ~Implemented(round) /\ ~Working(Implementer)
        /\ workflow \in {"needs_attention", "routing", "uncertain"}
        /\ workflow = "needs_attention" => Held
    BY <2>2 DEF OnceInv, Parked
  <2>4. r # Implementer
    <3>1. SUFFICES ASSUME r = Implementer
                   PROVE  FALSE
      OBVIOUS
    <3>2. Giving(x) /\ x.to # Reviewer /\ x.round = q
      BY <3>1, OnceFacts DEF Gives
    <3>3. q = round
      BY <1>1, <3>2, GivenRound
    <3>4. QED
      BY <2>2, <2>3, <3>1, <3>3 DEF SettlesRepair
  <2>5. Working(Implementer)' = Working(Implementer) /\ \A m : Implemented(m)' = Implemented(m)
    BY <2>4, CreatedRow, OnceFacts
  <2>6. ~Implemented(round)'
    <3>1. PICK m : m = round
      OBVIOUS
    <3>2. ~Implemented(m)' /\ round' = m
      BY <2>3, <2>5, <3>1
    <3>3. QED
      BY <3>2 DEF Implemented, Reports, Ids
  <2>7. Held => Held'
    BY <1>3 DEF Held, Left, Giving
  <2>8. QED
    BY <2>2, <2>3, <2>5, <2>6, <2>7 DEF Parked
<1>8. QED
  BY <1>2, <1>4, <1>6, <1>7 DEF OnceInv

LEMMA InsertOnce ==
  ASSUME OnceInv, VerdictInv', NEW t \in Tasks, NEW x, NEW r \in Roles, NEW q, Gives(t, x, r, q),
         Insert(t, r, q, Rest(t, x)), UNCHANGED <<round, decision, paused>>
  PROVE  OnceInv'
<1>1. TypeOK /\ Implementer # Reviewer
  BY OnceFacts
<1>2. CASE RepairLimitReached(r, q)
  <2>1. /\ r = Implementer /\ q > 1 /\ workflow' = "needs_attention" /\ pending' = q
        /\ Pause(t, Rest(t, x)) /\ UNCHANGED <<asg, active>>
    BY <1>2 DEF Insert, RepairLimitReached
  <2>2. x \in Ready(t) /\ Giving(x) /\ x.to = Implementer /\ x.round = q
    BY <1>1, <2>1 DEF Gives
  <2>3. QED
    BY <2>1, <2>2, HoldOnce
<1>3. CASE ~RepairLimitReached(r, q)
  <2>1. PICK kind : kind = KindFor(t, r)
    OBVIOUS
  <2>2. Create(r, q, kind)
    BY <1>3, <2>1 DEF Insert
  <2>3. kind = "evidence" <=> r \in Specialists
    BY <2>1, OnceFacts DEF KindFor
  <2>4. pending' = IF SettlesRepair(r, q) THEN 0 ELSE pending
    BY <1>3 DEF Insert
  <2>5. PICK state : /\ state = IF SettlesRepair(r, q) THEN Published("active") ELSE workflow
                     /\ \/ Drain(t, r, Rest(t, x)) /\ workflow' = state
                        \/ Abandon(t) /\ workflow' = Outcome(t, state)
    BY <1>3 DEF Insert
  <2>6. workflow' \in IF SettlesRepair(r, q) THEN {"active", "needs_attention", "uncertain"}
                                             ELSE {workflow, "uncertain"}
    BY <2>5 DEF Published, Outcome
  <2>7. PICK S, w : S \subseteq Rest(t, x) /\ Left(t, S, w)
    <3>1. CASE Drain(t, r, Rest(t, x))
      BY <1>1, <3>1, LeftBy
    <3>2. CASE Abandon(t)
      <4>1. Run(t, {})
        BY <3>2 DEF Abandon
      <4>2. PICK w : Left(t, {}, w)
        BY <1>1, <4>1, LeftBy
      <4>3. QED
        BY <4>2
    <3>3. QED
      BY <2>5, <3>1, <3>2
  <2>8. QED
    BY <2>2, <2>3, <2>4, <2>6, <2>7, CreateOnce
<1>4. QED
  BY <1>2, <1>3

-----------------------------------------------------------------------------
(* The steps that give nothing.                                            *)

LEMMA InheritsPart ==
  ASSUME OnceInv, NEW t \in Tasks, NEW S, S \subseteq todo[t],
         S = todo[t] \/ \A x \in S : x.do # "resume"
  PROVE  Inherits(todo[t], S)
<1>1. Proper(todo[t], waits[t])
  BY DEF OnceInv, AllProper
<1>2. QED
  BY <1>1 DEF Inherits, Proper

\* Task t is left with S, which has nothing new to give.
LEMMA InertMove ==
  ASSUME OnceInv, VerdictInv', TablesQuiet, UNCHANGED decision, FlowQuiet,
         NEW t \in Tasks, NEW S, NEW w, Left(t, S, w), Inherits(todo[t], S),
         \A x \in S : x.do # "resume"
  PROVE  OnceInv'
<1>1. ASSUME NEW u \in Tasks
      PROVE  /\ Inherits(todo[u], todo'[u])
             /\ (\E x \in todo'[u] : x.do = "resume") => waits'[u] = waits[u]
  <2>1. CASE u = t
    BY <2>1 DEF Left
  <2>2. CASE u # t
    <3>1. todo'[u] = todo[u] /\ waits'[u] = waits[u]
      BY <2>2 DEF Left
    <3>2. Inherits(todo[u], todo[u])
      BY InheritsPart
    <3>3. QED
      BY <3>1, <3>2
  <2>3. QED
    BY <2>1, <2>2
<1>2. HandsQuiet
  BY <1>1 DEF HandsQuiet
<1>3. QED
  BY <1>2, QuietKeeps DEF InertStep

\* No task moves.
LEMMA InertEdit ==
  ASSUME OnceInv, VerdictInv', TablesQuiet, FlowQuiet, UNCHANGED <<decision, todo, waits>>
  PROVE  OnceInv'
<1>1. \A u \in Tasks : Inherits(todo[u], todo[u])
  BY InheritsPart
<1>2. HandsQuiet
  BY <1>1 DEF HandsQuiet
<1>3. QED
  BY <1>2, QuietKeeps DEF InertStep

\* Task t drops what it has done, or gives up.
LEMMA InertPart ==
  ASSUME OnceInv, VerdictInv', TablesQuiet, UNCHANGED decision, FlowQuiet,
         NEW t \in Tasks, NEW S, S \subseteq todo[t], \A x \in S : x.do # "resume",
         NEW r, Run(t, S) \/ Pause(t, S) \/ Drain(t, r, S)
  PROVE  OnceInv'
<1>1. Inherits(todo[t], S)
  BY InheritsPart
<1>2. PICK w : Left(t, S, w)
  BY LeftBy, OnceFacts
<1>3. QED
  BY <1>1, <1>2, InertMove

\* A step of a queue that also holds a message to a waiting worker is that message.
LEMMA RestNoResume ==
  ASSUME OnceInv, NEW t \in Tasks, NEW x \in todo[t]
  PROVE  \A y \in Rest(t, x) : y.do # "resume"
<1>1. \A y \in todo[t] : y.do = "resume" => todo[t] = {y}
  BY DEF OnceInv, AllProper, Proper
<1>2. QED
  BY <1>1 DEF Rest

LEMMA InertRest ==
  ASSUME OnceInv, VerdictInv', TablesQuiet, UNCHANGED decision, FlowQuiet,
         NEW t \in Tasks, NEW x \in todo[t],
         NEW r, Run(t, Rest(t, x)) \/ Pause(t, Rest(t, x)) \/ Drain(t, r, Rest(t, x))
  PROVE  OnceInv'
<1>1. Rest(t, x) \subseteq todo[t]
  BY DEF Rest
<1>2. QED
  BY <1>1, RestNoResume, InertPart

LEMMA GiveUpOnce ==
  ASSUME OnceInv, VerdictInv', NEW t \in Tasks, Abandon(t), workflow' = Outcome(t, workflow),
         UNCHANGED <<asg, active, decision, round, pending, paused>>
  PROVE  OnceInv'
<1>1. Run(t, {})
  BY DEF Abandon
<1>2. workflow' \in {workflow, "uncertain"}
  BY DEF Outcome
<1>3. FlowQuiet
  BY <1>2 DEF FlowQuiet
<1>4. QED
  BY <1>1, <1>3, InertPart, SameTablesQuiet

\* The tables, the round and the flow stay as they are.
LEMMA SameFlow ==
  ASSUME UNCHANGED <<pending, paused>>, workflow' \in {workflow, "uncertain"}
  PROVE  FlowQuiet
  BY DEF FlowQuiet

LEMMA SendOnlyOnce ==
  ASSUME OnceInv, VerdictInv', NEW t \in Tasks, NEW x \in todo[t], SendOnly(t, x)
  PROVE  OnceInv'
<1>1. UNCHANGED <<asg, active, decision, round, pending, paused>>
  BY DEF SendOnly
<1>2. CASE (Run(t, Rest(t, x)) \/ Drain(t, x.to, Rest(t, x))) /\ UNCHANGED workflow
  BY <1>1, <1>2, SameTablesQuiet, SameFlow, InertRest
<1>3. CASE Abandon(t) /\ workflow' = Outcome(t, workflow)
  BY <1>1, <1>3, GiveUpOnce
<1>4. QED
  BY <1>2, <1>3 DEF SendOnly

LEMMA AssignOnce ==
  ASSUME OnceInv, VerdictInv', NEW t \in Tasks, NEW x, NEW r \in Roles, NEW q, Gives(t, x, r, q),
         x.do \in {"initial", "probe", "assign", "gate"},
         Assign(t, r, q, Rest(t, x)), UNCHANGED <<round, decision, paused>>
  PROVE  OnceInv'
<1> DEFINE S == Rest(t, x)
           i == Step("insert", r, q)
<1>1. /\ x \in todo[t] /\ S = todo[t] \ {x}
      /\ r = Reviewer => Unread
      /\ \A u \in Tasks : \A y \in todo[u] : ~Opens(y)
      /\ \A y \in S : y.do \notin {"resume", "reopen", "insert"}
      /\ r # Reviewer => Giving(x) /\ x.to = r /\ x.round = q /\ \A y \in S : ~(Giving(y) /\ y.to = r)
  BY GivesFacts DEF Rest, Gives
<1>2. i.do = "insert" /\ i.to = r /\ i.round = q
  BY DEF Step
<1>3. TypeOK
  BY OnceFacts
<1>4. CASE ~Known(r)
  <2>1. Run(t, S) /\ UNCHANGED <<workflow, pending, asg, active>>
    BY <1>4 DEF Assign
  <2>2. QED
    BY <1>1, <2>1, InertRest, SameTablesQuiet, SameFlow
<1>5. CASE Known(r) /\ r \in owed \cup Retained
  <2>1. UNCHANGED <<pending, asg, active>>
    BY <1>5 DEF Assign
  <2>2. CASE Drain(t, r, S \cup {i}) /\ UNCHANGED workflow
    <3>1. PICK w : Left(t, S \cup {i}, w)
      BY <1>3, <2>2, LeftBy
    <3>2. Inherits(todo[t], S)
      BY <1>1, InheritsPart
    <3> HIDE DEF S, i
    <3>3. Inherits(todo[t], S \cup {i})
      <4>1. ASSUME NEW y \in S
            PROVE  /\ y.do \in {"reopen", "implemented", "planned"} => y \in todo[t]
                   /\ y.do # "resume" /\ ~Opens(y)
                   /\ Giving(y) /\ y.to # Reviewer =>
                        /\ \E z \in todo[t] : Giving(z) /\ z.to = y.to /\ z.round = y.round
                        /\ \A z \in S \cup {i} : Giving(z) /\ z.to = y.to => z = y
                   /\ ~(y.do = "insert" /\ y.to = Reviewer)
        <5>1. y \in todo[t] /\ y.do # "resume" /\ y.do # "insert" /\ ~Opens(y)
          BY <1>1, <4>1
        <5>2. ASSUME Giving(y), y.to # Reviewer
              PROVE  \A z \in S \cup {i} : Giving(z) /\ z.to = y.to => z = y
          <6>1. \A z \in S : Giving(z) /\ z.to = y.to => z = y
            BY <3>2, <4>1, <5>2 DEF Inherits
          <6>2. i.to # y.to
            BY <1>1, <1>2, <4>1, <5>2
          <6>3. QED
            BY <6>1, <6>2
        <5>3. QED
          BY <5>1, <5>2
      <4>2. /\ ~Opens(i) /\ i.do = "insert" /\ i.to = r /\ i.round = q
            /\ r # Reviewer =>
                 /\ \E z \in todo[t] : Giving(z) /\ z.to = r /\ z.round = q
                 /\ \A z \in S \cup {i} : Giving(z) /\ z.to = r => z = i
            /\ r = Reviewer => Unread
        BY <1>1, <1>2 DEF Opens
      <4>3. todo[t] # {}
        BY <1>1
      <4>4. QED
        BY <4>1, <4>2, <4>3 DEF Inherits
    <3>4. \A y \in S \cup {i} : y.do # "resume"
      BY <1>1, <1>2
    <3>5. QED
      BY <2>1, <2>2, <3>1, <3>3, <3>4, InertMove, SameTablesQuiet, SameFlow
  <2>3. CASE Abandon(t) /\ workflow' = Outcome(t, workflow)
    BY <2>1, <2>3, GiveUpOnce
  <2>4. QED
    BY <1>5, <2>2, <2>3 DEF Assign
<1>6. CASE Known(r) /\ r \notin owed \cup Retained
  BY <1>6, InsertOnce DEF Assign
<1>7. QED
  BY <1>4, <1>5, <1>6

LEMMA DeliveryOnce ==
  ASSUME OnceInv, VerdictInv', NEW t \in Tasks,
         \/ \E x \in todo[t] : Assignments(t, x) \/ Gate(t, x)
         \/ Drained(t) \/ DrainFails(t)
  PROVE  OnceInv'
<1>1. ASSUME NEW x \in todo[t], Assignments(t, x)
      PROVE  OnceInv'
  <2>1. x \in Ready(t) /\ x.to \in Roles /\ UNCHANGED <<round, decision, paused>>
    BY <1>1, TakenStep, OnceFacts DEF Assignments, Takes
  <2>2. CASE x.do \in {"initial", "probe", "assign"} /\ Assign(t, x.to, x.round, Rest(t, x))
    <3>1. Gives(t, x, x.to, x.round)
      BY <2>1, <2>2 DEF Gives, Giving
    <3>2. PICK r, q : r = x.to /\ q = x.round
      OBVIOUS
    <3>3. QED
      BY <2>1, <2>2, <3>1, <3>2, AssignOnce
  <2>3. CASE x.do = "insert" /\ Insert(t, x.to, x.round, Rest(t, x))
    <3>1. Gives(t, x, x.to, x.round)
      BY <2>1, <2>3 DEF Gives, Giving
    <3>2. PICK r, q : r = x.to /\ q = x.round
      OBVIOUS
    <3>3. QED
      BY <2>1, <2>3, <3>1, <3>2, InsertOnce
  <2>4. QED
    BY <1>1, <2>2, <2>3 DEF Assignments, Takes
<1>2. ASSUME NEW x \in todo[t], Gate(t, x)
      PROVE  OnceInv'
  <2>1. x \in Ready(t) /\ x.do = "gate" /\ UNCHANGED <<round, decision, paused>>
    BY <1>2 DEF Gate, Takes
  <2>2. CASE GateOpen(x.round) /\ Assign(t, Reviewer, x.round, Rest(t, x))
    <3>1. PICK q : q = x.round
      OBVIOUS
    <3>2. Gives(t, x, Reviewer, q)
      BY <2>1, <2>2, <3>1 DEF Gives
    <3>3. QED
      BY <2>1, <2>2, <3>1, <3>2, AssignOnce, OnceFacts
  <2>3. CASE Run(t, Rest(t, x)) /\ UNCHANGED <<workflow, pending, asg, active>>
    BY <2>1, <2>3, InertRest, SameTablesQuiet, SameFlow
  <2>4. QED
    BY <1>2, <2>2, <2>3 DEF Gate
<1>3. CASE Drained(t)
  BY <1>3, InertPart, SameTablesQuiet, SameFlow DEF Drained, durable
<1>4. CASE DrainFails(t)
  BY <1>4, GiveUpOnce DEF DrainFails
<1>5. QED
  BY <1>1, <1>2, <1>3, <1>4

LEMMA StartupOnce ==
  ASSUME OnceInv, VerdictInv', NEW t \in Tasks, NEW x \in todo[t],
         Baseline(t, x) \/ Begin(t, x) \/ Started(t, x) \/ Inform(t, x)
  PROVE  OnceInv'
<1>1. CASE Baseline(t, x)
  BY <1>1, SendOnlyOnce DEF Baseline
<1>2. CASE Begin(t, x)
  <2>1. /\ Run(t, Rest(t, x)) /\ x.do = "begin" /\ workflow' = Published("active")
        /\ UNCHANGED <<asg, active, decision, round, pending, paused>>
    BY <1>2 DEF Begin, Takes
  <2>2. pending = 0
    BY <2>1 DEF OnceInv, AllProper, Proper, Opens, Fresh
  <2>3. FlowQuiet
    BY <2>1, <2>2 DEF FlowQuiet, Published
  <2>4. QED
    BY <2>1, <2>3, InertRest, SameTablesQuiet
<1>3. CASE Started(t, x)
  BY <1>3, InertRest, SameTablesQuiet, SameFlow DEF Started, durable
<1>4. CASE Inform(t, x)
  <2>1. CASE SendOnly(t, x)
    BY <2>1, SendOnlyOnce
  <2>2. CASE Run(t, Rest(t, x)) /\ UNCHANGED durable
    BY <2>2, InertRest, SameTablesQuiet, SameFlow DEF durable
  <2>3. QED
    BY <1>4, <2>1, <2>2 DEF Inform
<1>5. QED
  BY <1>1, <1>2, <1>3, <1>4

\* Before anything is assigned the probe is decided on, and it may be given work.
LEMMA DecideOnce ==
  ASSUME OnceInv, VerdictInv', NEW t \in Tasks, NEW x \in todo[t], DecideProbe(t, x)
  PROVE  OnceInv'
<1> DEFINE S == Rest(t, x)
           p == Step("probe", Probe, 1)
<1>1. /\ x.do = "decide" /\ S = todo[t] \ {x} /\ TypeOK /\ \A y \in todo[t] : Rank(x.do) <= Rank(y.do)
      /\ UNCHANGED <<workflow, round, pending, paused, asg, active>>
  BY OnceFacts DEF DecideProbe, Takes, Ready, Rest
<1>2. /\ Fresh /\ \A y \in todo[t] : Giving(y) => y.do = "initial" /\ y.to = Implementer
      /\ \A y \in todo[t] : y.do = "decide" => y = x
      /\ Proper(todo[t], waits[t])
  BY <1>1 DEF OnceInv, AllProper, Proper, Opens
<1>3. \A u \in Tasks \ {t} : todo[u] = {}
  <2>1. \A u \in Tasks \ {t} : Apart(todo[t], todo[u])
    BY DEF OnceInv, Separate
  <2>2. QED
    BY <1>1, <2>1 DEF Apart, Opens
<1>4. \A y \in S : ~Opens(y)
  <2>1. "baseline" \in Ranked[1] /\ "begin" \in Ranked[2] /\ "decide" \in Ranked[3]
    BY DEF Ranked
  <2>2. Rank("baseline") = 1 /\ Rank("begin") = 2 /\ Rank("decide") = 3
    BY <2>1, RankIs
  <2>3. ASSUME NEW y \in S, Opens(y)
        PROVE  FALSE
    BY <1>1, <1>2, <2>2, <2>3 DEF Opens
  <2>4. QED
    BY <2>3
<1>5. \A y \in S : y.do # "resume"
  BY RestNoResume
<1>6. CASE UNCHANGED decision /\ Pause(t, S)
  BY <1>1, <1>6, InertRest, SameTablesQuiet, SameFlow
<1>7. CASE Probe \in Specialists /\ \E d \in Choices(Probe) :
             /\ decision[Probe][1] \in {"none", d}
             /\ decision' = [decision EXCEPT ![Probe][1] = d]
             /\ Pause(t, S \cup IF d = "run" THEN {p} ELSE {})
  <2>1. PICK d \in Choices(Probe) : /\ decision' = [decision EXCEPT ![Probe][1] = d]
                                    /\ Pause(t, S \cup IF d = "run" THEN {p} ELSE {})
    BY <1>7
  <2>2. PICK U : U = S \cup IF d = "run" THEN {p} ELSE {}
    OBVIOUS
  <2>3. PICK w : Left(t, U, w)
    BY <1>1, <2>1, <2>2, LeftBy
  <2>4. 1 \in Rounds /\ Probe \in Roles
    BY <1>7, OnceFacts, ConstantAssumption DEF Rounds
  <2>5. \A s \in Specialists : \A q \in Rounds :
          decision'[s][q] = IF s = Probe /\ q = 1 THEN d ELSE decision[s][q]
    BY <1>1, <1>7, <2>1, <2>4 DEF TypeOK
  <2>6. TablesQuiet
    <3>1. Grown
      BY <1>2, <2>5 DEF Grown, Fresh
    <3>2. QED
      BY <1>1, <3>1, SameKept DEF TablesQuiet
  <2>7. \A r \in Roles : Ids(r) = {} /\ ~Working(r)
    BY <1>2, FreshRows
  <2>8. /\ \A q : Implemented(q)' = Implemented(q)
        /\ \A r \in Roles : Ids(r)' = Ids(r) /\ Working(r)' = Working(r)
        /\ \A r \in Roles : \A q \in Rounds : Free(r, q) => Free(r, q)'
    BY <2>6, KeptFacts
  <2>9. p.do = "probe" /\ p.to = Probe /\ p.round = 1
    BY DEF Step
  <2>10. d = "run" => Free(Probe, 1)'
    <3>1. \A i \in Ids(Probe)' : FALSE
      BY <2>4, <2>7, <2>8
    <3>2. ~Working(Probe)'
      BY <2>4, <2>7, <2>8
    <3>3. d = "run" => decision'[Probe][1] = "run"
      BY <1>7, <2>4, <2>5
    <3>4. QED
      BY <1>7, <3>1, <3>2, <3>3, OnceFacts DEF Free
  <2>11. Proper(U, w)'
    <3>1. \A y \in S : y.to \in Roles /\ y.round \in Rounds
      BY <1>1 DEF TypeOK, Steps
    <3>2. ASSUME NEW y \in S
          PROVE  /\ Giving(y) => /\ Free(y.to, y.round)' /\ y.to = Implementer
                                 /\ \A z \in S : Giving(z) /\ z.to = y.to => z = y
                 /\ y.do # "insert" /\ y.do # "planned" /\ y.do # "resume" /\ ~Opens(y)
                 /\ y.do = "reopen" => y.round = round' + 1
                 /\ y.do = "implemented" => Implemented(y.round)'
      <4>1. y \in todo[t] /\ y.to \in Roles /\ y.round \in Rounds
        BY <1>1, <3>1
      <4>2. Giving(y) => y.do = "initial" /\ y.to = Implementer
        BY <1>2, <4>1
      <4>3. Giving(y) => Free(y.to, y.round) /\ \A z \in S : Giving(z) /\ z.to = y.to => z = y
        BY <1>1, <1>2, <4>1, <4>2, OnceFacts DEF Proper
      <4>4. PICK r, q : r = y.to /\ q = y.round
        OBVIOUS
      <4>5. Giving(y) => Free(r, q)'
        BY <2>8, <4>1, <4>3, <4>4
      <4>6. y.do = "implemented" => Implemented(q)'
        BY <1>2, <2>8, <4>1, <4>4 DEF Proper
      <4>7. y.do = "reopen" => y.round = round' + 1
        BY <1>1, <1>2, <4>1 DEF Proper
      <4>8. y.do # "insert" /\ y.do # "planned"
        BY <4>2 DEF Giving
      <4>9. QED
        BY <1>4, <1>5, <4>2, <4>3, <4>4, <4>5, <4>6, <4>7, <4>8
    <3>3. Probe # Implementer
      BY <1>7, OnceFacts
    <3> HIDE DEF S, p
    <3>4. QED
      BY <2>2, <2>9, <2>10, <3>2, <3>3 DEF Proper, Giving, Opens
  <2>12. Alone(t, U) /\ \A u \in Tasks \ {t} : \E T, v : T = todo[u] /\ v = waits[u] /\ Proper(T, v)'
    BY <1>3 DEF Alone, Apart, Proper
  <2>13. AllProper' /\ Separate'
    BY <2>3, <2>11, <2>12, HandsMove
  <2>14. RoleKinds' /\ OnlyOpen' /\ OneRow' /\ Building'
    BY <2>6, KeptTables
  <2>15. Later'
    BY <2>5, <2>8, <1>2 DEF Later, Fresh
  <2>16. workflow # "connecting" /\ pending' = 0
    BY <1>1, <1>2 DEF OnceInv, Unstarted, Fresh
  <2>17. Unstarted' /\ Unpaused' /\ Parked'
    BY <1>1, <2>16, NoneParked DEF OnceInv, Unstarted, Unpaused
  <2>18. QED
    BY <2>13, <2>14, <2>15, <2>17 DEF OnceInv
<1>8. QED
  BY <1>6, <1>7 DEF DecideProbe

LEMMA RoutingOnce ==
  ASSUME OnceInv, VerdictInv', NEW t \in Tasks, NEW x \in todo[t],
         RouteEvidence(t, x) \/ RoutePlan(t, x) \/ RouteRejection(t, x)
  PROVE  OnceInv'
<1> DEFINE q == x.round
<1>1. /\ TypeOK /\ x.do # "resume"
      /\ UNCHANGED <<asg, active, decision, round, pending, workflow, paused>>
  BY OnceFacts DEF RouteEvidence, RoutePlan, RouteRejection, Takes, durable
<1>2. TablesQuiet /\ FlowQuiet
  BY <1>1, SameTablesQuiet, SameFlow
<1>3. ASSUME NEW S, Run(t, S), \A y \in S : y.do \in {"inform", "gate", "advance", "assign"},
             \A y \in S : y.do = "assign" => x.do = "planned" /\ y = Step("assign", Implementer, q)
      PROVE  OnceInv'
  <2>1. PICK w : Left(t, S, w)
    BY <1>1, <1>3, LeftBy
  <2>2. \A y \in S : y.do = "assign" => Giving(x) /\ y.to = Implementer /\ x.to = Implementer /\ y.round = x.round
    BY <1>3 DEF Giving, Step, OnceInv, AllProper, Proper
  <2>3. \A y, z \in S : y.do = "assign" /\ z.do = "assign" => y = z
    BY <1>3
  <2>4. Inherits(todo[t], S)
    BY <1>3, <2>2, <2>3 DEF Inherits, Giving, Opens
  <2>5. QED
    BY <1>1, <1>2, <1>3, <2>1, <2>4, InertMove
<1>4. CASE RouteEvidence(t, x)
  <2>1. PICK S : S = {Step("inform", Implementer, q), Step("inform", Reviewer, q), Step("gate", Reviewer, q)}
    OBVIOUS
  <2>2. Run(t, S) /\ \A y \in S : y.do \in {"inform", "gate"}
    BY <1>4, <2>1 DEF RouteEvidence, Step
  <2>3. QED
    BY <1>3, <2>2
<1>5. CASE RoutePlan(t, x)
  <2>1. PICK S : S = {Step("inform", Implementer, q)} \cup
                     IF Phased THEN {Step("assign", Implementer, q)} ELSE {}
    OBVIOUS
  <2>2. /\ Run(t, S) /\ x.do = "planned" /\ \A y \in S : y.do \in {"inform", "assign"}
        /\ \A y \in S : y.do = "assign" => y = Step("assign", Implementer, q)
    BY <1>5, <2>1 DEF RoutePlan, Takes, Step
  <2>3. QED
    BY <1>3, <2>2
<1>6. CASE RouteRejection(t, x)
  <2>1. PICK S : S = {Step("inform", Implementer, q), Step("advance", Implementer, q)}
    OBVIOUS
  <2>2. Run(t, S) /\ \A y \in S : y.do \in {"inform", "advance"}
    BY <1>6, <2>1 DEF RouteRejection, Step
  <2>3. QED
    BY <1>3, <2>2
<1>7. QED
  BY <1>4, <1>5, <1>6

\* The specialists decided on with an implementation have neither work nor a row of its
\* round: those that run are given it once, by this step.
LEMMA UndecidedFree ==
  ASSUME OnceInv, NEW q \in Rounds, q <= round, NEW s \in Undecided(q)
  PROVE  /\ ~Working(s) /\ \A i \in Ids(s) : asg[s][i].round # q
         /\ \A u \in Tasks : \A y \in todo[u] : ~(Giving(y) /\ y.to = s)
<1>1. s \in Specialists /\ s \in Roles /\ decision[s][q] = "none" /\ s # Reviewer
  BY OnceFacts DEF Undecided
<1>2. ~Ripe(q)
  BY <1>1 DEF Ripe, EvidenceComplete
<1>3. q = round
  BY <1>2, PastRipe, OnceFacts
<1>4. ~Working(s)
  <2>1. SUFFICES ASSUME Working(s)
                 PROVE  FALSE
    OBVIOUS
  <2>2. PICK n : n = Current(s).round
    OBVIOUS
  <2>3. n \in Rounds /\ n <= round /\ ~Ripe(n) /\ active[s] \in Ids(s) /\ asg[s][active[s]].round = n
    BY <1>1, <2>1, <2>2, OpenRow, WorkedRound
  <2>4. n = round
    BY <2>3, PastRipe, OnceFacts
  <2>5. decision[s][n] = "run"
    BY <1>1, <2>3 DEF OnceInv, OneRow
  <2>6. QED
    BY <1>1, <1>3, <2>4, <2>5
<1>5. \A i \in Ids(s) : asg[s][i].round # q
  BY <1>1 DEF OnceInv, OneRow
<1>6. ASSUME NEW u \in Tasks, NEW y \in todo[u], Giving(y), y.to = s
      PROVE  FALSE
  <2>1. y.round = round /\ Free(y.to, y.round)
    BY <1>1, <1>6, GivenRound
  <2>2. QED
    BY <1>1, <1>3, <1>6, <2>1 DEF Free
<1>7. QED
  BY <1>4, <1>5, <1>6

LEMMA ImplementedOnce ==
  ASSUME OnceInv, VerdictInv', NEW t \in Tasks, NEW x \in todo[t], RouteImplementation(t, x)
  PROVE  OnceInv'
<1> DEFINE q == x.round
<1>1. q = x.round
  OBVIOUS
<1>2. /\ TypeOK /\ x.do = "implemented" /\ q \in Rounds /\ q <= round
      /\ UNCHANGED <<workflow, round, pending, paused, asg, active>>
  BY <1>1, TakenStep, OnceFacts DEF RouteImplementation, Takes
<1>3. Implemented(q)
  BY <1>1, <1>2 DEF OnceInv, AllProper, Proper
<1>4. PICK run \in SUBSET Undecided(q) :
        /\ decision' = [s \in Specialists |->
                         IF s \in Undecided(q)
                         THEN [decision[s] EXCEPT ![q] = IF s \in run THEN "run" ELSE "skipped"]
                         ELSE decision[s]]
        /\ Run(t, {Step("inform", s, q) : s \in run \cup {Reviewer}} \cup
                  {Step("assign", s, q) : s \in run} \cup {Step("gate", Reviewer, q)})
  BY DEF RouteImplementation
<1> HIDE DEF q
<1>5. PICK S : S = {Step("inform", s, q) : s \in run \cup {Reviewer}} \cup
                   {Step("assign", s, q) : s \in run} \cup {Step("gate", Reviewer, q)}
  OBVIOUS
<1>6. PICK w : Left(t, S, w)
  BY <1>2, <1>4, <1>5, LeftBy
<1>7. /\ \A y \in S : y.do \in {"inform", "assign", "gate"}
      /\ \A y \in S : y.do = "assign" => y.to \in run /\ y.round = q
      /\ \A y, z \in S : y.do = "assign" /\ z.do = "assign" /\ y.to = z.to => y = z
  BY <1>5 DEF Step
<1>8. \A s \in Specialists : \A n \in Rounds :
        decision'[s][n] = IF s \in Undecided(q) /\ n = q
                          THEN IF s \in run THEN "run" ELSE "skipped"
                          ELSE decision[s][n]
  BY <1>2, <1>4 DEF TypeOK
<1>9. TablesQuiet
  <2>1. Grown
    BY <1>8 DEF Grown, Undecided
  <2>2. QED
    BY <1>2, <2>1, SameKept DEF TablesQuiet
<1>10. /\ \A n : Implemented(n)' = Implemented(n)
       /\ \A r \in Roles : Ids(r)' = Ids(r) /\ Working(r)' = Working(r)
       /\ \A r \in Roles : \A n \in Rounds : Free(r, n) => Free(r, n)'
  BY <1>9, KeptFacts
<1>11. run \subseteq Specialists /\ run \subseteq Roles /\ Reviewer \notin run /\ Implementer \notin run
  BY OnceFacts DEF Undecided
<1>12. ASSUME NEW s \in run
       PROVE  Free(s, q)'
  <2>1. s \in Undecided(q) /\ s \in Specialists /\ s \in Roles /\ s # Implementer
    BY <1>11
  <2>2. ~Working(s) /\ \A i \in Ids(s) : asg[s][i].round # q
    BY <1>2, <2>1, UndecidedFree
  <2>3. decision'[s][q] = "run"
    BY <1>2, <1>8, <2>1
  <2>4. QED
    BY <1>2, <1>10, <2>1, <2>2, <2>3 DEF Free
<1>13. Proper(S, w)'
  <2>1. ASSUME NEW y \in S, y.do = "assign"
        PROVE  Free(y.to, y.round)'
    <3>1. PICK s : s = y.to
      OBVIOUS
    <3>2. Free(s, q)' /\ y.round = q
      BY <1>7, <1>12, <2>1, <3>1
    <3>3. QED
      BY <3>1, <3>2
  <2>2. QED
    BY <1>7, <2>1 DEF Proper, Giving, Opens
<1>14. \A u \in Tasks : \A y \in todo[u] : ~Opens(y)
  BY <1>3, FreshRows, StartedFresh
<1>15. ASSUME NEW u \in Tasks \ {t}
       PROVE  \E T, v : T = todo[u] /\ v = waits[u] /\ Proper(T, v)'
  <2>1. PICK T, v : T = todo[u] /\ v = waits[u]
    OBVIOUS
  <2>2. Proper(T, v) /\ T \subseteq Steps
    BY <1>2, <2>1 DEF OnceInv, AllProper, TypeOK
  <2>3. Unread => Unread'
    BY <1>2 DEF Unread, Working, Current
  <2>4. (\E y \in T : y.do = "insert" /\ y.to = Reviewer) => Unread'
    BY <2>2, <2>3 DEF Proper
  <2>5. \A y \in T : ~Opens(y)
    BY <1>14, <2>1
  <2>6. Proper(T, v)'
    BY <1>9, <2>2, <2>4, <2>5, ProperStays
  <2>7. QED
    BY <2>1, <2>6
<1>16. Alone(t, S)
  <2>1. ASSUME NEW u \in Tasks \ {t}, NEW y \in S, NEW z \in todo[u]
        PROVE  /\ ~(Giving(y) /\ Giving(z) /\ y.to = z.to)
               /\ y.do # "reopen" /\ ~Opens(y) /\ ~Opens(z)
    <3>1. ASSUME Giving(y), Giving(z), y.to = z.to
          PROVE  FALSE
      <4>1. y.to \in Undecided(q)
        BY <1>7, <3>1 DEF Giving
      <4>2. QED
        BY <1>2, <3>1, <4>1, UndecidedFree
    <3>2. QED
      BY <1>7, <1>14, <3>1 DEF Opens
  <2>2. QED
    BY <2>1 DEF Alone, Apart
<1>17. AllProper' /\ Separate'
  BY <1>6, <1>13, <1>15, <1>16, HandsMove
<1>18. RoleKinds' /\ OnlyOpen' /\ OneRow' /\ Building'
  BY <1>9, KeptTables
<1>19. Later'
  <2>1. ASSUME NEW s \in Specialists, NEW n \in Rounds, decision'[s][n] # "none", n > 1
        PROVE  Implemented(n)'
    <3>1. CASE s \in Undecided(q) /\ n = q
      BY <1>3, <1>10, <3>1
    <3>2. CASE ~(s \in Undecided(q) /\ n = q)
      <4>1. decision[s][n] # "none"
        BY <1>8, <2>1, <3>2
      <4>2. Implemented(n)
        BY <2>1, <4>1 DEF OnceInv, Later
      <4>3. QED
        BY <1>10, <4>2
    <3>3. QED
      BY <3>1, <3>2
  <2>2. QED
    BY <2>1 DEF Later
<1>20. Unstarted' /\ Unpaused'
  <2>1. workflow # "connecting"
    BY DEF OnceInv, Unstarted
  <2>2. QED
    BY <1>2, <2>1 DEF OnceInv, Unstarted, Unpaused
<1>21. Parked'
  <2>1. Held => Held'
    <3>1. Held => \A u \in Tasks : \A y \in todo'[u] : ~(Giving(y) /\ y.to = Implementer)
      BY <1>6, <1>7, <1>11 DEF Held, Left, Giving
    <3>2. QED
      BY <3>1 DEF Held, Giving
  <2>2. ~Implemented(round) => ~Implemented(round)'
    BY <1>2 DEF Implemented, Reports, Ids
  <2>3. ~Working(Implementer) => ~Working(Implementer)'
    BY <1>2 DEF Working
  <2>4. QED
    BY <1>2, <2>1, <2>2, <2>3 DEF OnceInv, Parked
<1>22. QED
  BY <1>17, <1>18, <1>19, <1>20, <1>21 DEF OnceInv

LEMMA ResumeOnce ==
  ASSUME OnceInv, VerdictInv', NEW t \in Tasks, NEW x \in todo[t],
         Resume(t, x) \/ Confirm(t, x) \/ Answer(t, x)
  PROVE  OnceInv'
<1>1. CASE Resume(t, x)
  <2>1. /\ Run(t, {}) /\ UNCHANGED <<active, decision, round, pending, paused>> /\ x.to \in Roles
        /\ workflow' \in {workflow, Published("active")}
        /\ x.do = "resume"
    BY <1>1, TakenStep, OnceFacts DEF Resume, Takes
  <2>2. Working(x.to)
    BY <2>1 DEF OnceInv, AllProper, Proper
  <2>3. PICK r : r = x.to
    OBVIOUS
  <2>4. r \in Roles /\ Working(r) /\ asg' = [asg EXCEPT ![r][active[r]].owes = "resumed"]
    BY <1>1, <2>1, <2>2, <2>3 DEF Resume
  <2>5. active[r] \in Ids(r) /\ asg[r] \in Seq(Assignment) /\ asg[r][active[r]] \in Assignment
    BY <2>4, CurrentRow, OnceFacts DEF TypeOK
  <2>6. Kept
    BY <2>1, <2>4, <2>5, OwesKept, OnceFacts
  <2>7. \A u \in Roles : \A i \in Ids(u) : asg'[u][i].state = asg[u][i].state
    BY <2>4, <2>5, OnceFacts DEF TypeOK, Assignment, Ids
  <2>8. TablesQuiet
    BY <2>1, <2>6, <2>7 DEF TablesQuiet, Grown
  <2>9. pending = 0
    BY <2>4, ParkedCalm
  <2>10. FlowQuiet
    BY <2>1, <2>9, PublishedActive DEF FlowQuiet, Published
  <2>11. QED
    BY <2>1, <2>8, <2>10, InertPart
<1>2. CASE Confirm(t, x)
  <2>1. UNCHANGED <<asg, active, decision, round, pending, paused>>
    BY <1>2 DEF Confirm
  <2>2. CASE workflow' = "uncertain" /\ Run(t, {})
    BY <2>1, <2>2, InertPart, SameTablesQuiet, SameFlow
  <2>3. CASE Pause(t, {Step("answer", Implementer, x.round)}) /\ UNCHANGED workflow
    <3>1. PICK S : S = {Step("answer", Implementer, x.round)}
      OBVIOUS
    <3>2. PICK w : Left(t, S, w)
      BY <2>3, <3>1, LeftBy, OnceFacts
    <3>3. \A y \in S : y.do = "answer"
      BY <3>1 DEF Step
    <3>4. Inherits(todo[t], S)
      BY <3>3 DEF Inherits, Giving, Opens
    <3>5. QED
      BY <2>1, <2>3, <3>2, <3>3, <3>4, InertMove, SameTablesQuiet, SameFlow
  <2>4. QED
    BY <1>2, <2>2, <2>3 DEF Confirm
<1>3. CASE Answer(t, x)
  BY <1>3, InertPart, SameTablesQuiet, SameFlow DEF Answer, durable
<1>4. QED
  BY <1>1, <1>2, <1>3

\* A round opens when nothing is left of the last one: only its implementer gets work.
LEMMA OpenOnce ==
  ASSUME OnceInv, VerdictInv', NEW t \in Tasks, Judged(round), round' = round + 1,
         workflow' = Published("active"), Pause(t, {Step("assign", Implementer, round + 1)}),
         UNCHANGED <<asg, active, decision, pending, paused>>,
         \A u \in Tasks \ {t} : \A y \in todo[u] : y.do # "reopen"
  PROVE  OnceInv'
<1>0. PICK q, S : q = round + 1 /\ S = {Step("assign", Implementer, q)}
  OBVIOUS
<1>1. /\ Implemented(round) /\ pending = 0
      /\ \A r \in Roles : ~Working(r)
      /\ \A u \in Tasks : \A x \in todo[u] : Giving(x) => x.to = Reviewer
  BY JudgedCalm
<1>2. PICK w : Left(t, S, w)
  BY <1>0, LeftBy, OnceFacts
<1>3. \A y \in S : y.do = "assign" /\ y.to = Implementer /\ y.round = q
  BY <1>0 DEF Step
<1>4. \A y, z \in S : y = z
  BY <1>0
<1>5. q \in Rounds
  <2>1. round' \in Rounds
    BY DEF VerdictInv, EvidenceInv, Typing, TypeOK
  <2>2. QED
    BY <1>0, <2>1
<1>6. ~Implemented(q)
  BY <1>0, OnceFacts DEF OnceInv, VerdictInv, RowsBehind, Implemented, Reports
<1>7. /\ \A n : Implemented(n)' = Implemented(n)
      /\ \A r \in Roles : Working(r)' = Working(r) /\ Ids(r)' = Ids(r)
      /\ Unread'
  <2>1. \A n : Implemented(n)' = Implemented(n)
    BY DEF Implemented, Reports, Ids
  <2>2. \A r \in Roles : Working(r)' = Working(r) /\ Ids(r)' = Ids(r)
    BY DEF Working, Ids
  <2>3. Unread'
    BY <1>1, <2>2, OnceFacts DEF Unread
  <2>4. QED
    BY <2>1, <2>2, <2>3
<1>8. Free(Implementer, q)'
  BY <1>1, <1>6, <1>7, OnceFacts DEF Free
<1>9. Proper(S, w)'
  BY <1>3, <1>4, <1>8 DEF Proper, Giving, Opens
<1>10. \A u \in Tasks : \A y \in todo[u] : ~Opens(y)
  BY JudgedStarted
<1>11. ASSUME NEW u \in Tasks \ {t}
       PROVE  \E T, v : T = todo[u] /\ v = waits[u] /\ Proper(T, v)'
  <2>1. PICK T, v : T = todo[u] /\ v = waits[u]
    OBVIOUS
  <2>2. Proper(T, v) /\ T \subseteq Steps
    BY <2>1, OnceFacts DEF OnceInv, AllProper, TypeOK
  <2>3. ASSUME NEW y \in T
        PROVE  /\ Giving(y) => y.to = Reviewer
               /\ y.do # "resume" /\ y.do # "reopen" /\ y.do # "planned" /\ ~Opens(y)
               /\ y.do = "implemented" => Implemented(y.round)'
    <3>1. Giving(y) => y.to = Reviewer
      BY <1>1, <2>1, <2>3
    <3>2. y.do # "resume"
      BY <1>1, <2>2, <2>3 DEF Proper, Steps
    <3>3. y.do # "planned"
      BY <2>2, <2>3, <3>1, OnceFacts DEF Proper, Giving
    <3>4. y.do = "implemented" => Implemented(y.round)'
      <4>1. PICK n : n = y.round
        OBVIOUS
      <4>2. y.do = "implemented" => Implemented(n)'
        BY <1>7, <2>2, <2>3, <4>1 DEF Proper
      <4>3. QED
        BY <4>1, <4>2
    <3>5. QED
      BY <1>10, <2>1, <2>3, <3>1, <3>2, <3>3, <3>4
  <2>4. Proper(T, v)'
    BY <1>7, <2>3 DEF Proper, Giving, Opens
  <2>5. QED
    BY <2>1, <2>4
<1>12. Alone(t, S)
  <2>1. ASSUME NEW u \in Tasks \ {t}, NEW y \in S, NEW z \in todo[u]
        PROVE  /\ ~(Giving(z) /\ z.to # Reviewer)
               /\ y.do # "reopen" /\ ~Opens(y) /\ ~Opens(z) /\ y.to = Implementer
    BY <1>1, <1>3, <1>10, <2>1 DEF Opens
  <2>2. QED
    BY <2>1, OnceFacts DEF Alone, Apart
<1>13. AllProper' /\ Separate'
  BY <1>2, <1>9, <1>11, <1>12, HandsMove
<1>14. RoleKinds' /\ OnlyOpen' /\ OneRow' /\ Building' /\ Later'
  <2>1. RoleKinds' /\ OnlyOpen' /\ OneRow'
    BY <1>7 DEF OnceInv, RoleKinds, OnlyOpen, OneRow, Ids
  <2>2. Building'
    BY <1>1, <1>7, OnceFacts DEF Building
  <2>3. Later'
    BY <1>7 DEF OnceInv, Later
  <2>4. QED
    BY <2>1, <2>2, <2>3
<1>15. Unstarted' /\ Unpaused' /\ Parked'
  <2>1. workflow' \in {"active", "needs_attention"}
    BY DEF Published
  <2>2. QED
    BY <1>1, <2>1, NoneParked DEF Unstarted, Unpaused
<1>16. QED
  BY <1>13, <1>14, <1>15 DEF OnceInv

LEMMA OpeningOnce ==
  ASSUME OnceInv, VerdictInv', NEW t \in Tasks, NEW x \in todo[t], Advance(t, x) \/ Reopened(t, x)
  PROVE  OnceInv'
<1>1. Sound(t, todo[t], waits[t]) /\ round \in Nat
  BY TakenStep, OnceFacts
<1>2. CASE Advance(t, x)
  <2>1. x.do = "advance" /\ OpenRound(t, x.round + 1)
    BY <1>2 DEF Advance, Takes
  <2>2. x.round = round /\ Verdict(round, "changes_requested")
    BY <1>1, <2>1 DEF Sound, Deciding
  <2>3. Judged(round)
    BY <2>2 DEF Verdict, Judged
  <2>4. \A u \in Tasks : \A y \in todo[u] : y.do # "reopen"
    <3>1. SUFFICES ASSUME NEW u \in Tasks, NEW y \in todo[u], y.do = "reopen"
                   PROVE  FALSE
      OBVIOUS
    <3>2. Announced
      BY <3>1 DEF OnceInv, AllProper, Proper, Announced
    <3>3. QED
      BY <2>1, <3>2 DEF OnceInv, VerdictInv, OneAtATime, NoVerdictPending, Deciding
  <2>5. QED
    BY <2>1, <2>2, <2>3, <2>4, OpenOnce DEF OpenRound
<1>3. CASE Reopened(t, x)
  <2>1. x.do = "reopen" /\ OpenRound(t, x.round)
    BY <1>3 DEF Reopened, Takes
  <2>2. x.round = round + 1
    BY <2>1 DEF OnceInv, AllProper, Proper
  <2>3. Judged(round)
    <3>1. Announced
      BY <2>1, <2>2 DEF Announced
    <3>2. QED
      BY <3>1 DEF OnceInv, VerdictInv, OneAtATime, Verdict, Judged
  <2>4. \A u \in Tasks \ {t} : \A y \in todo[u] : y.do # "reopen"
    BY <2>1 DEF OnceInv, Separate, Apart
  <2>5. QED
    BY <2>1, <2>2, <2>3, <2>4, OpenOnce DEF OpenRound
<1>4. QED
  BY <1>2, <1>3

LEMMA HangUpOnce ==
  ASSUME OnceInv, VerdictInv', ExtendCalls \/ Restart \/ \E o \in Operators : HangUp(o)
  PROVE  OnceInv'
<1>1. CASE ExtendCalls
  <2>1. FlowQuiet
    BY <1>1 DEF ExtendCalls, FlowQuiet
  <2>2. QED
    BY <1>1, <2>1, InertEdit, SameTablesQuiet DEF ExtendCalls, memory
<1>2. CASE Restart
  <2>1. FlowQuiet /\ TablesQuiet /\ UNCHANGED decision
    BY <1>2, SameTablesQuiet, SameFlow DEF Restart
  <2>2. HandsQuiet
    BY <1>2 DEF Restart, HandsQuiet, Inherits
  <2>3. QED
    BY <2>1, <2>2, QuietKeeps DEF InertStep
<1>3. CASE \E o \in Operators : HangUp(o)
  BY <1>3, GiveUpOnce, OnceFacts DEF HangUp
<1>4. QED
  BY <1>1, <1>2, <1>3

LEMMA ControlsOnce ==
  ASSUME OnceInv, VerdictInv', OneReopens, Calm, Controls
  PROVE  OnceInv'
<1>1. ASSUME NEW o \in Operators, (\E r \in Roles : Send(o, r)) \/ Reopen(o) \/ ApproveRepair(o) \/ HangUp(o)
      PROVE  OnceInv'
  BY <1>1, SendOnce, ReopenOnce, ApproveOnce, HangUpOnce
<1>2. QED
  BY <1>1 DEF Controls

\* An edit of one row, which an acknowledgement of its assignment may be.
LEMMA StateQuiet ==
  ASSUME OnceInv, NEW r \in Roles, NEW n \in Ids(r), asg[r][n].state # "completed",
         NEW st \in {"accepted", "uncertain"},
         asg' = [asg EXCEPT ![r][n].state = st], UNCHANGED <<active, decision, round>>,
         st = "accepted" => n = active[r] /\ \A t \in Tasks : waits'[t] # r
  PROVE  TablesQuiet
<1>1. Kept
  BY StateKept, OnceFacts
<1>2. asg[r] \in Seq(Assignment) /\ asg[r][n] \in Assignment
  BY OnceFacts, RowType DEF TypeOK, Ids
<1>3. \A u \in Roles : \A i \in Ids(u) :
        asg'[u][i].state = IF u = r /\ i = n THEN st ELSE asg[u][i].state
  BY <1>2, OnceFacts DEF TypeOK, Assignment, Ids
<1>4. QED
  BY <1>1, <1>3 DEF TablesQuiet, Grown

LEMMA OwesQuiet ==
  ASSUME OnceInv, NEW r \in Roles, NEW n \in Ids(r), NEW owes \in {"report", "reminder", "retry", "attention", "resumed", "nothing"},
         asg' = [asg EXCEPT ![r][n].owes = owes], UNCHANGED <<active, decision, round>>
  PROVE  TablesQuiet
<1>1. Kept
  BY OwesKept, OnceFacts
<1>2. asg[r] \in Seq(Assignment) /\ asg[r][n] \in Assignment
  BY OnceFacts, RowType DEF TypeOK, Ids
<1>3. \A u \in Roles : \A i \in Ids(u) : asg'[u][i].state = asg[u][i].state
  BY <1>2, OnceFacts DEF TypeOK, Assignment, Ids
<1>4. QED
  BY <1>1, <1>3 DEF TablesQuiet, Grown

LEMMA ConnectionsOnce ==
  ASSUME OnceInv, VerdictInv', Connections
  PROVE  OnceInv'
<1>1. ASSUME NEW r \in Roles, Connect(r) \/ Lose(r) \/ Unregister(r)
      PROVE  OnceInv'
  BY <1>1, InertEdit, SameTablesQuiet, SameFlow DEF Connect, Lose, Unregister, durable
<1>2. ASSUME NEW r \in Roles, StartWorkflow(r)
      PROVE  OnceInv'
  BY <1>2, StartOnce
<1>3. ASSUME NEW r \in Roles, Recover(r)
      PROVE  OnceInv'
  <2>1. UNCHANGED <<active, decision, round, pending, paused, todo, waits>> /\ TypeOK
        /\ workflow # "connecting"
    BY <1>3, OnceFacts DEF Recover
  <2>2. CASE UNCHANGED <<asg, workflow>>
    BY <2>1, <2>2, InertEdit, SameTablesQuiet, SameFlow
  <2>3. CASE /\ Newest(r) # 0 /\ asg[r][Newest(r)].state \in {"delivering", "uncertain"}
             /\ asg' = [asg EXCEPT ![r][Newest(r)].state = "uncertain"]
             /\ workflow' = "uncertain"
    <3>1. Newest(r) \in Ids(r) /\ asg[r][Newest(r)].state # "completed"
      BY <2>1, <2>3, NewestRow
    <3>2. TablesQuiet
      BY <2>1, <2>3, <3>1, StateQuiet
    <3>3. QED
      BY <2>1, <2>3, <3>2, InertEdit, SameFlow
  <2>4. CASE /\ Newest(r) # 0 /\ asg[r][Newest(r)].state = "accepted"
             /\ \E owes \in {"retry", "attention"} : Await(r, Newest(r), owes)
    <3>1. PICK owes \in {"retry", "attention"} : Await(r, Newest(r), owes)
      BY <2>4
    <3>2. Newest(r) \in Ids(r)
      BY <2>1, <2>4, NewestRow
    <3>3. TablesQuiet
      BY <2>1, <3>1, <3>2, OwesQuiet DEF Await
    <3>4. Working(r)
      <4>1. Newest(r) = active[r]
        BY <2>4, <3>2 DEF OnceInv, OnlyOpen
      <4>2. QED
        BY <2>4, <4>1 DEF Working
    <3>5. FlowQuiet
      <4>1. pending = 0
        BY <3>4, ParkedCalm
      <4>2. workflow' \in {workflow, "needs_attention"} /\ (workflow' = "ready" => workflow = "ready")
        BY <3>1 DEF Await
      <4>3. QED
        BY <2>1, <4>1, <4>2 DEF FlowQuiet
    <3>6. QED
      BY <2>1, <3>3, <3>5, InertEdit
  <2>5. QED
    BY <1>3, <2>2, <2>3, <2>4 DEF Recover
<1>4. QED
  BY <1>1, <1>2, <1>3 DEF Connections

LEMMA MessagesOnce ==
  ASSUME OnceInv, VerdictInv', NEW r \in Roles,
         \/ Ack(r) \/ AckUncertain(r)
         \/ Remind(r) \/ RecoveryTurn(r) \/ RaiseAttention(r) \/ DenyTurn(r)
         \/ \E s \in {"idle", "active"} : Lifecycle(r, s)
  PROVE  OnceInv'
<1>1. Working(r) => /\ active[r] \in Ids(r) /\ asg[r][active[r]].state # "completed"
                    /\ pending = 0 /\ workflow # "ready" /\ workflow # "connecting"
  <2>1. SUFFICES ASSUME Working(r)
                 PROVE  /\ active[r] \in Ids(r) /\ asg[r][active[r]].state # "completed"
                        /\ pending = 0 /\ workflow # "ready" /\ workflow # "connecting"
    OBVIOUS
  <2>2. active[r] \in Ids(r) /\ asg[r][active[r]].state # "completed"
    BY <2>1, OpenRow
  <2>3. pending = 0
    BY <2>1, ParkedCalm
  <2>4. workflow # "ready"
    <3>1. SUFFICES ASSUME workflow = "ready"
                   PROVE  FALSE
      OBVIOUS
    <3>2. Judged(round)
      BY <3>1 DEF OnceInv, VerdictInv, OneAtATime, Announced, Verdict, Judged
    <3>3. QED
      BY <2>1, <3>2, JudgedCalm
  <2>5. workflow # "connecting"
    BY <2>1, FreshRows DEF OnceInv, Unstarted
  <2>6. QED
    BY <2>2, <2>3, <2>4, <2>5
<1>2. ASSUME Working(r), TablesQuiet, UNCHANGED <<decision, pending, memory>>,
             workflow' \in {workflow, "active", "needs_attention", "uncertain"}
      PROVE  OnceInv'
  <2>1. FlowQuiet
    BY <1>1, <1>2 DEF FlowQuiet
  <2>2. QED
    BY <1>2, <2>1, InertEdit DEF memory
<1>3. CASE Ack(r)
  <2>1. \A t \in Tasks : waits'[t] # r
    BY <1>3 DEF Ack, memory, Reading
  <2>2. /\ Working(r) /\ asg' = [asg EXCEPT ![r][active[r]].state = "accepted"]
        /\ UNCHANGED <<workflow, active, decision, round, pending, memory>>
    BY <1>3 DEF Ack
  <2>3. TablesQuiet
    BY <1>1, <2>1, <2>2, StateQuiet
  <2>4. QED
    BY <1>2, <2>2, <2>3
<1>4. CASE AckUncertain(r)
  <2>1. /\ Working(r) /\ asg' = [asg EXCEPT ![r][active[r]].state = "uncertain"]
        /\ workflow' = "uncertain" /\ UNCHANGED <<active, decision, round, pending, memory>>
    BY <1>4 DEF AckUncertain
  <2>2. TablesQuiet
    BY <1>1, <2>1, StateQuiet
  <2>3. QED
    BY <1>2, <2>1, <2>2
<1>5. CASE Remind(r) \/ RecoveryTurn(r) \/ RaiseAttention(r) \/ DenyTurn(r)
  <2>1. PICK owes \in {"reminder", "retry", "attention"} :
          asg' = [asg EXCEPT ![r][active[r]].owes = owes]
    BY <1>5 DEF Remind, RecoveryTurn, RaiseAttention, DenyTurn, Await
  <2>2. /\ Working(r) /\ UNCHANGED <<active, decision, round, pending, memory>>
        /\ workflow' \in {workflow, "active", "needs_attention", "uncertain"}
    BY <1>5 DEF Remind, RecoveryTurn, RaiseAttention, DenyTurn, Await
  <2>3. TablesQuiet
    BY <1>1, <2>1, <2>2, OwesQuiet
  <2>4. QED
    BY <1>2, <2>2, <2>3
<1>6. CASE \E s \in {"idle", "active"} : Lifecycle(r, s)
  <2>1. UNCHANGED <<asg, active, decision, round, pending, paused, memory>>
    BY <1>6 DEF Lifecycle
  <2>2. CASE Working(r)
    <3>1. workflow' \in {workflow, "active", "needs_attention", "uncertain"}
      BY <1>6 DEF Lifecycle
    <3>2. TablesQuiet
      BY <2>1, SameTablesQuiet
    <3>3. QED
      BY <1>2, <2>1, <2>2, <3>1, <3>2
  <2>3. CASE ~Working(r)
    <3>1. workflow' = workflow
      BY <1>6, <2>3 DEF Lifecycle
    <3>2. TablesQuiet /\ FlowQuiet
      BY <2>1, <3>1, SameTablesQuiet, SameFlow
    <3>3. QED
      BY <2>1, <3>2, InertEdit DEF memory
  <2>4. QED
    BY <2>2, <2>3
<1>7. QED
  BY <1>3, <1>4, <1>5, <1>6

\* A report ends the work of a role that reads, so no message waits for it; a plan makes
\* the implementer free again, any other report leaves its round as it found it or done.
LEMMA ReportOnce ==
  ASSUME OnceInv, VerdictInv', NEW r \in Roles, NEW v \in {"none", "approved", "changes_requested"},
         Report(r, v)
  PROVE  OnceInv'
<1>1. PICK q, n : q = Current(r).round /\ n = active[r]
  OBVIOUS
<1>2. /\ Working(r) /\ Reading(r) /\ TypeOK
      /\ UNCHANGED <<workflow, round, pending, paused, decision>>
      /\ r \in Tasks /\ todo[r] = {}
  BY OnceFacts DEF Report, Reading, Idle
<1>3. /\ n \in Ids(r) /\ Current(r) = asg[r][n] /\ ReportedRow(r, v) /\ asg[r][n] \in Assignment
  BY <1>1, <1>2, ReportRows, OnceFacts, CurrentRow
<1>4. /\ q \in Rounds /\ q <= round /\ asg[r][n].round = q
      /\ \A u \in Tasks : waits[u] # r
  BY <1>1, <1>3, ReportQueues, OnceFacts
<1>5. /\ \A u \in Roles : Ids(u)' = Ids(u)
      /\ \A u \in Roles \ {r} : asg'[u] = asg[u] /\ active'[u] = active[u] /\ Working(u)' = Working(u)
      /\ active'[r] = 0 /\ ~Working(r)'
      /\ \A i \in Ids(r) : /\ asg'[r][i].round = asg[r][i].round
                           /\ asg'[r][i].kind = asg[r][i].kind
                           /\ asg'[r][i].state = IF i = n THEN "completed" ELSE asg[r][i].state
  BY <1>1, <1>3 DEF ReportedRow, Ids, Working
<1>6. /\ \A m \in Rounds : Implemented(m) => Implemented(m)'
      /\ r # Implementer => \A m \in Rounds : Implemented(m)' = Implemented(m)
  BY <1>2, <1>3, ReportGrows
<1>7. r = Implementer => \A m : asg[r][n].kind # "implementation" \/ m # q => Implemented(m)' = Implemented(m)
  <2>1. ASSUME r = Implementer, NEW m, asg[r][n].kind # "implementation" \/ m # q
        PROVE  Implemented(m)' = Implemented(m)
    <3>1. \A i \in Ids(r) : (asg'[r][i].round = m /\ asg'[r][i].state = "completed" /\ asg'[r][i].kind = "implementation")
                        <=> (asg[r][i].round = m /\ asg[r][i].state = "completed" /\ asg[r][i].kind = "implementation")
      BY <1>3, <1>4, <1>5, <2>1
    <3>2. QED
      BY <1>5, <2>1, <3>1 DEF Implemented, Reports
  <2>2. QED
    BY <2>1
<1>8. asg[r][n].kind = "implementation" /\ r = Implementer => Implemented(q)'
  BY <1>3, <1>4, <1>5 DEF Implemented, Reports
<1>9. /\ asg[r][n].kind = "evidence" <=> r \in Specialists
      /\ asg[r][n].kind = "review" <=> r = Reviewer
      /\ asg[r][n].kind \in {"plan", "implementation", "review", "evidence"}
  BY <1>3 DEF OnceInv, RoleKinds, VerdictInv, OwnKinds, Assignment
<1>10. PICK x : /\ Pause(r, {x}) /\ x.to = r /\ x.round = q
                /\ x.do \in {"evidence", "planned", "implemented", "approved", "rejected"}
                /\ x.do = "planned" <=> asg[r][n].kind = "plan"
                /\ x.do = "implemented" <=> asg[r][n].kind = "implementation"
  <2> DEFINE route == CASE Current(r).kind = "evidence"       -> "evidence"
                        [] Current(r).kind = "plan"           -> "planned"
                        [] Current(r).kind = "implementation" -> "implemented"
                        [] v = "approved"                     -> "approved"
                        [] OTHER                              -> "rejected"
  <2>1. Pause(r, {Step(route, r, Current(r).round)})
    BY DEF Report
  <2>2. /\ route \in {"evidence", "planned", "implemented", "approved", "rejected"}
        /\ route = "planned" <=> Current(r).kind = "plan"
        /\ route = "implemented" <=> Current(r).kind = "implementation"
    <3>1. CASE Current(r).kind = "review"
      <4>1. route \in {"approved", "rejected"}
        BY <3>1, <1>2 DEF Report
      <4>2. QED
        BY <3>1, <4>1
    <3>2. CASE Current(r).kind # "review"
      <4>1. v = "none" /\ Current(r).kind \in {"plan", "implementation", "evidence"}
        BY <1>3, <1>9, <3>2 DEF Report
      <4>2. QED
        BY <4>1
    <3>3. QED
      BY <3>1, <3>2
  <2>3. PICK x : x = Step(route, r, Current(r).round)
    OBVIOUS
  <2>4. x.do = route /\ x.to = r /\ x.round = q
    BY <1>1, <2>3 DEF Step
  <2> HIDE DEF route
  <2>5. QED
    BY <1>3, <2>1, <2>2, <2>3, <2>4
<1>11. PICK w : Left(r, {x}, w)
  BY <1>2, <1>10, LeftBy
<1>12. x.do \in {"planned", "implemented"} => r = Implementer
  BY <1>9, <1>10, OnceFacts
<1>13. r = Implementer => /\ ~Implemented(q)
                          /\ \A u \in Tasks : \A y \in todo[u] : ~(Giving(y) /\ y.to = r)
  <2>1. r = Implementer => ~Implemented(q)
    BY <1>1, <1>2 DEF OnceInv, Building
  <2>2. ASSUME r = Implementer, NEW u \in Tasks, NEW y \in todo[u], Giving(y), y.to = r
        PROVE  FALSE
    BY <1>2, <2>2, OnceFacts DEF OnceInv, AllProper, Proper, Free
  <2>3. QED
    BY <2>1, <2>2
<1>14. Proper({x}, w)'
  <2>1. x.do = "planned" => Free(Implementer, q)'
    <3>1. x.do = "planned" => ~Implemented(q)'
      BY <1>4, <1>7, <1>10, <1>12, <1>13
    <3>2. QED
      BY <1>5, <1>12, <3>1, OnceFacts DEF Free
  <2>2. x.do = "implemented" => Implemented(q)'
    BY <1>8, <1>10, <1>12
  <2>3. QED
    BY <1>10, <1>12, <2>1, <2>2 DEF Proper, Giving, Opens
<1>15. \A u \in Tasks : \A y \in todo[u] : ~Opens(y)
  BY <1>2, FreshRows, StartedFresh
<1>16. \A u \in Roles : \A m \in Rounds : u # r /\ Free(u, m) => Free(u, m)'
  BY <1>2, <1>5, <1>6 DEF Free
<1>17. \A u \in Roles : \A m \in Rounds : u = r /\ u \in Specialists /\ Free(u, m) => Free(u, m)'
  BY <1>2, <1>5, OnceFacts DEF Free
<1>18. Unread => Unread'
  <2>1. CASE r = Reviewer
    BY <1>5, <2>1 DEF Unread
  <2>2. CASE r # Reviewer
    <3>1. Current(Reviewer)' = Current(Reviewer)
      BY <1>5, <2>2, OnceFacts DEF Current
    <3>2. QED
      BY <1>5, <2>2, <3>1, OnceFacts DEF Unread
  <2>3. QED
    BY <2>1, <2>2
<1>19. ASSUME NEW u \in Tasks \ {r}
       PROVE  \E T, c : T = todo[u] /\ c = waits[u] /\ Proper(T, c)'
  <2>1. PICK T, c : T = todo[u] /\ c = waits[u]
    OBVIOUS
  <2>2. Proper(T, c) /\ T \subseteq Steps /\ c # r
    BY <1>2, <1>4, <2>1 DEF OnceInv, AllProper, TypeOK
  <2>3. ASSUME NEW y \in T
        PROVE  /\ Giving(y) /\ y.to # Reviewer => Free(y.to, y.round)'
               /\ y.do = "resume" => Working(y.to)'
               /\ y.do = "implemented" => Implemented(y.round)'
               /\ ~Opens(y)
    <3>1. y.to \in Roles /\ y.round \in Rounds
      BY <2>2, <2>3 DEF Steps
    <3>2. PICK a, m : a = y.to /\ m = y.round
      OBVIOUS
    <3>3. Giving(y) /\ a # Reviewer => Free(a, m)'
      <4>1. SUFFICES ASSUME Giving(y), a # Reviewer
                     PROVE  Free(a, m)'
        OBVIOUS
      <4>2. Free(a, m) /\ a # r
        BY <1>2, <2>2, <2>3, <3>2, <4>1 DEF Proper, Free
      <4>3. QED
        BY <1>16, <3>1, <3>2, <4>2
    <3>4. y.do = "resume" => Working(a)'
      <4>1. SUFFICES ASSUME y.do = "resume"
                     PROVE  Working(a)'
        OBVIOUS
      <4>2. a # r /\ Working(a)
        BY <2>2, <2>3, <3>2, <4>1 DEF Proper
      <4>3. QED
        BY <1>5, <3>1, <3>2, <4>2
    <3>5. y.do = "implemented" => Implemented(m)'
      BY <1>6, <2>2, <2>3, <3>1, <3>2 DEF Proper
    <3>6. QED
      BY <1>15, <2>1, <2>3, <3>2, <3>3, <3>4, <3>5
  <2>4. Proper(T, c)'
    BY <1>2, <1>18, <2>2, <2>3 DEF Proper, Giving, Opens
  <2>5. QED
    BY <2>1, <2>4
<1>20. Alone(r, {x})
  <2>1. ASSUME NEW u \in Tasks \ {r}, NEW z \in todo[u]
        PROVE  ~(Giving(x) /\ Giving(z) /\ x.to = z.to) /\ x.do # "reopen" /\ ~Opens(x) /\ ~Opens(z)
    <3>1. Giving(x) => r = Implementer
      BY <1>10, <1>12 DEF Giving
    <3>2. QED
      BY <1>10, <1>13, <1>15, <2>1, <3>1 DEF Opens
  <2>2. QED
    BY <2>1 DEF Alone, Apart
<1>21. AllProper' /\ Separate'
  BY <1>2, <1>11, <1>14, <1>19, <1>20, HandsMove
<1>22. RoleKinds'
  BY <1>5 DEF OnceInv, RoleKinds
<1>23. OnlyOpen'
  <2>1. \A i \in Ids(r) : /\ r # Reviewer => asg'[r][i].state = "completed"
                          /\ asg'[r][i].state # "accepted"
    BY <1>1, <1>5 DEF OnceInv, OnlyOpen
  <2>2. QED
    BY <1>5, <2>1 DEF OnceInv, OnlyOpen
<1>24. OneRow'
  BY <1>2, <1>5, OnceFacts DEF OnceInv, OneRow
<1>25. Building'
  <2>1. CASE r = Implementer
    BY <1>5, <2>1 DEF Building
  <2>2. CASE r # Implementer /\ Working(Implementer)
    <3>1. PICK m : m = Current(Implementer).round
      OBVIOUS
    <3>2. m \in Rounds /\ ~Implemented(m)
      BY <2>2, <3>1, OpenRow, OnceFacts DEF OnceInv, Building
    <3>3. ~Implemented(m)'
      BY <1>6, <2>2, <3>2
    <3>4. Current(Implementer)'.round = m
      BY <1>5, <2>2, <3>1, OnceFacts DEF Current
    <3>5. QED
      BY <3>3, <3>4 DEF Building, Implemented, Reports, Ids
  <2>3. CASE r # Implementer /\ ~Working(Implementer)
    BY <1>5, <2>3, OnceFacts DEF Building
  <2>4. QED
    BY <2>1, <2>2, <2>3
<1>26. Later'
  BY <1>2, <1>6 DEF OnceInv, Later
<1>27. Unstarted' /\ Unpaused' /\ Parked'
  <2>1. pending' = 0
    BY <1>2, ParkedCalm
  <2>2. workflow # "connecting"
    BY <1>2, FreshRows DEF OnceInv, Unstarted
  <2>3. QED
    BY <1>2, <2>1, <2>2, NoneParked DEF OnceInv, Unstarted, Unpaused
<1>28. QED
  BY <1>21, <1>22, <1>23, <1>24, <1>25, <1>26, <1>27 DEF OnceInv

-----------------------------------------------------------------------------
LEMMA NextOnce ==
  ASSUME OneReopens, OnceInv, [Next]_vars
  PROVE  OnceInv'
<1>1. VerdictInv'
  BY NextVerdict DEF OnceInv
<1>2. ASSUME NEW t \in Tasks, Continuation(t)
      PROVE  OnceInv'
  BY <1>1, <1>2, StartupOnce, DecideOnce, RoutingOnce, ImplementedOnce, ApprovalOnce, OpeningOnce,
     DeliveryOnce, ResumeOnce DEF Continuation
<1>3. CASE Calm /\ Connections
  BY <1>1, <1>3, ConnectionsOnce
<1>4. CASE Calm /\ Messages
  BY <1>1, <1>4, MessagesOnce, ReportOnce DEF Messages
<1>5. CASE Calm /\ Controls
  BY <1>1, <1>5, ControlsOnce
<1>6. CASE ExtendCalls \/ Restart
  BY <1>1, <1>6, HangUpOnce
<1>7. CASE UNCHANGED vars
  BY <1>1, <1>7, InertEdit, SameTablesQuiet, SameFlow DEF vars, durable, memory
<1>8. QED
  BY <1>2, <1>3, <1>4, <1>5, <1>6, <1>7 DEF Next, Turn

LEMMA InitOnce == Init => OnceInv
<1> SUFFICES ASSUME Init
             PROVE  OnceInv
  OBVIOUS
<1>1. VerdictInv
  BY InitVerdict
<1>2. /\ \A r \in Roles : Ids(r) = {} /\ ~Working(r)
      /\ \A t \in Tasks : todo[t] = {}
      /\ workflow = "connecting" /\ round = 1 /\ pending = 0 /\ ~paused
      /\ \A s \in Specialists : \A q \in Rounds : decision[s][q] = "none"
  BY DEF Init, Ids, Working
<1>3. Implementer \in Roles /\ Specialists \subseteq Roles
  BY <1>1, TypeFacts
<1>4. RoleKinds /\ OnlyOpen /\ OneRow /\ Building /\ Later
  BY <1>2, <1>3 DEF RoleKinds, OnlyOpen, OneRow, Building, Later
<1>5. AllProper /\ Separate
  BY <1>2 DEF AllProper, Separate, Proper, Apart
<1>6. Unstarted /\ Unpaused /\ Parked
  BY <1>2 DEF Unstarted, Unpaused, Parked, Fresh
<1>7. QED
  BY <1>1, <1>4, <1>5, <1>6 DEF OnceInv

\* In every state the work that coroutines in flight will give, hold back or announce is
\* given once, to a role that is free for it: insert_assignment never meets a second writer.
THEOREM WorkIsGivenOnce == ASSUME OneReopens PROVE Spec => []OnceInv
<1>1. OnceInv /\ [Next]_vars => OnceInv'
  BY NextOnce
<1>2. QED
  BY <1>1, InitOnce, PTL DEF Spec

\* A run is announced as ready only when nobody works and no ceiling pauses it; and it is
\* so until an operator reopens it.
THEOREM ReadyRunsAreQuiet == ASSUME OneReopens PROVE Spec => []ReadyIsQuiet
<1>1. OnceInv => ReadyIsQuiet
  <2>1. SUFFICES ASSUME OnceInv, workflow = "ready"
                 PROVE  ~paused /\ \A r \in Roles : ~Working(r)
    BY DEF ReadyIsQuiet
  <2>2. ~paused
    BY <2>1 DEF OnceInv, Unpaused
  <2>3. Judged(round)
    BY <2>1 DEF OnceInv, VerdictInv, OneAtATime, Announced, Verdict, Judged
  <2>4. QED
    BY <2>1, <2>2, <2>3, JudgedCalm
<1>2. QED
  BY <1>1, WorkIsGivenOnce, PTL

\* A repair that the limit holds back is the current round's, and while it is held back
\* the run does not go on.
THEOREM RepairsStayParked == ASSUME OneReopens PROVE Spec => []PendingIsParked
<1>1. OnceInv => PendingIsParked
  BY DEF OnceInv, Parked, PendingIsParked
<1>2. QED
  BY <1>1, WorkIsGivenOnce, PTL

-----------------------------------------------------------------------------
(* One review per round.  A review waits for the reviewer's capsule with   *)
(* the gate behind it; while a reviewer that reads takes the capsule       *)
(* nobody else runs, so no second gate passes.  This part assumes that the *)
(* reviewer reads: one that is slow does get two reviews of a round.       *)

ReviewerReads == Reviewer \notin SlowRoles

\* A step that will become a review.
Fetch(x)   == x.do = "insert" /\ x.to = Reviewer
NoFetch(S) == \A x \in S : ~Fetch(x)

FirstReview == \A t \in Tasks : \A x \in todo[t] : Fetch(x) => Reviews(x.round) = {}
Singles     == \A q \in Rounds : \A i, j \in Reviews(q) : i = j
OnlyReview  == \A i \in Ids(Reviewer) :
                 asg[Reviewer][i].state # "completed" => i = active[Reviewer]

ReviewInv == VerdictInv /\ FirstReview /\ Singles /\ OnlyReview

\* The reviews stay, and whatever will become one was going to or has just passed the gate.
SameReviews == \A q \in Rounds : Reviews(q)' = Reviews(q)
FetchesHeld(t, S) == \A x \in S : Fetch(x) => x \in todo[t] \/ GateOpen(x.round)
NoneFetched == SameReviews /\ \A u \in Tasks : FetchesHeld(u, todo'[u])

\* Round q gets its first review, and nothing else will become one.
Fetched(q) == Added(Reviewer, q) /\ Reviews(q) = {} /\ \A u \in Tasks : NoFetch(todo'[u])

LEMMA SuspendedFetchesNone ==
  ASSUME VerdictInv, ReviewerReads, NEW u \in Tasks, Suspended(u)
  PROVE  NoFetch(todo[u])
<1>1. SUFFICES ASSUME NEW x \in todo[u], Fetch(x)
               PROVE  FALSE
  BY DEF NoFetch
<1>2. waits[u] = Reviewer
  BY <1>1 DEF VerdictInv, Queues, Sound, Fetch
<1>3. Reviewer # Nothing
  BY ConstantAssumption DEF Reviewer, Nothing, Roles
<1>4. QED
  BY <1>2, <1>3 DEF Suspended, ReviewerReads

LEMMA GateFirst ==
  ASSUME NEW q, GateOpen(q)
  PROVE  Reviews(q) = {}
  BY DEF GateOpen, Reviews

\* Task t is left with S, the others as they were.
LEMMA LeftFetches ==
  ASSUME VerdictInv, NEW t \in Tasks, NEW S, FetchesHeld(t, S),
         NEW r, Run(t, S) \/ Pause(t, S) \/ Drain(t, r, S)
  PROVE  \A u \in Tasks : FetchesHeld(u, todo'[u])
<1>1. \A u \in Tasks : todo'[u] = IF u = t THEN S ELSE todo[u]
  BY TodoIs, TypeFacts
<1>2. QED
  BY <1>1 DEF FetchesHeld

LEMMA PartHeld ==
  ASSUME NEW t, NEW S, S \subseteq todo[t] \/ NoFetch(S)
  PROVE  FetchesHeld(t, S)
  BY DEF FetchesHeld, NoFetch

LEMMA KindReviews ==
  ASSUME VerdictInv, Incidental \/ Opening \/ Announcing
  PROVE  SameReviews
<1>1. ASSUME UNCHANGED asg
      PROVE  SameReviews
  BY <1>1 DEF SameReviews, Reviews, Ids
<1>2. CASE Incidental
  BY <1>2, KeptJudgement, TypeFacts DEF Incidental, SameReviews
<1>3. CASE Opening \/ Announcing
  <2>1. UNCHANGED asg
    BY <1>3 DEF Opening, Announcing, RouteApproval
  <2>2. QED
    BY <1>1, <2>1
<1>4. QED
  BY <1>2, <1>3

LEMMA ReportReviews ==
  ASSUME VerdictInv, NEW r \in Roles, NEW v \in {"none", "approved", "changes_requested"}, Report(r, v)
  PROVE  SameReviews
<1>1. ReportedRow(r, v) /\ active[r] \in Ids(r)
  BY ReportRows, TypeFacts
<1>2. CASE r # Reviewer
  BY <1>1, <1>2, OtherReport, TypeFacts DEF SameReviews
<1>3. CASE r = Reviewer
  <2>1. /\ Len(asg'[Reviewer]) = Len(asg[Reviewer])
        /\ \A i \in Ids(Reviewer) : asg'[Reviewer][i].round = asg[Reviewer][i].round
    BY <1>1, <1>3 DEF ReportedRow
  <2>2. QED
    BY <2>1 DEF SameReviews, Reviews, Ids
<1>4. QED
  BY <1>2, <1>3

\* The continuations that give nothing.
LEMMA PassingFetches ==
  ASSUME VerdictInv, NEW t \in Tasks, NEW x \in todo[t],
         \/ Baseline(t, x) \/ Begin(t, x) \/ DecideProbe(t, x) \/ Started(t, x) \/ Inform(t, x)
         \/ RouteEvidence(t, x) \/ RoutePlan(t, x) \/ RouteImplementation(t, x)
         \/ RouteApproval(t, x) \/ RouteRejection(t, x) \/ Advance(t, x)
         \/ Resume(t, x) \/ Reopened(t, x) \/ Confirm(t, x) \/ Answer(t, x)
  PROVE  NoneFetched
<1>1. SameReviews
  BY StartupKind, RoutingKind, AdvanceKind, ReopenedKind, OperatorKind, KindReviews DEF Announcing
<1>2. ASSUME NEW S, S \subseteq todo[t] \/ NoFetch(S),
             NEW r, Run(t, S) \/ Pause(t, S) \/ Drain(t, r, S)
      PROVE  NoneFetched
  BY <1>1, <1>2, PartHeld, LeftFetches DEF NoneFetched
<1>3. Rest(t, x) \subseteq todo[t] /\ {} \subseteq todo[t]
  BY DEF Rest
<1>4. ASSUME SendOnly(t, x)
      PROVE  NoneFetched
  BY <1>2, <1>3, <1>4 DEF SendOnly, Abandon
<1>5. CASE Baseline(t, x) \/ Inform(t, x)
  BY <1>2, <1>3, <1>4, <1>5 DEF Baseline, Inform
<1>6. CASE Begin(t, x) \/ Started(t, x) \/ RouteApproval(t, x) \/ Resume(t, x) \/ Answer(t, x)
  BY <1>2, <1>3, <1>6 DEF Begin, Started, RouteApproval, Resume, Answer
<1>7. CASE DecideProbe(t, x)
  <2>1. PICK d : Pause(t, Rest(t, x)) \/
                 Pause(t, Rest(t, x) \cup IF d = "run" THEN {Step("probe", Probe, 1)} ELSE {})
    BY <1>7 DEF DecideProbe
  <2>2. PICK S : /\ S = Rest(t, x) \/
                      S = Rest(t, x) \cup IF d = "run" THEN {Step("probe", Probe, 1)} ELSE {}
                 /\ Pause(t, S)
    BY <2>1
  <2>3. Step("probe", Probe, 1).do = "probe"
    BY DEF Step
  <2>4. FetchesHeld(t, S)
    BY <1>3, <2>2, <2>3 DEF FetchesHeld, Fetch
  <2>5. QED
    BY <1>1, <2>2, <2>4, LeftFetches DEF NoneFetched
<1>8. CASE RouteEvidence(t, x) \/ RoutePlan(t, x) \/ RouteRejection(t, x)
  <2>1. \E S : Run(t, S) /\ NoFetch(S)
    <3>1. CASE RouteEvidence(t, x)
      BY <3>1 DEF RouteEvidence, NoFetch, Fetch, Step
    <3>2. CASE RoutePlan(t, x)
      BY <3>2 DEF RoutePlan, NoFetch, Fetch, Step
    <3>3. CASE RouteRejection(t, x)
      BY <3>3 DEF RouteRejection, NoFetch, Fetch, Step
    <3>4. QED
      BY <1>8, <3>1, <3>2, <3>3
  <2>2. QED
    BY <1>2, <2>1
<1>9. CASE RouteImplementation(t, x)
  <2>1. PICK run : Run(t, {Step("inform", s, x.round) : s \in run \cup {Reviewer}} \cup
                          {Step("assign", s, x.round) : s \in run} \cup
                          {Step("gate", Reviewer, x.round)})
    BY <1>9 DEF RouteImplementation
  <2>2. NoFetch({Step("inform", s, x.round) : s \in run \cup {Reviewer}} \cup
                {Step("assign", s, x.round) : s \in run} \cup
                {Step("gate", Reviewer, x.round)})
    BY DEF NoFetch, Fetch, Step
  <2>3. QED
    BY <1>2, <2>1, <2>2
<1>10. CASE Advance(t, x) \/ Reopened(t, x)
  <2>1. PICK q : Pause(t, {Step("assign", Implementer, q)})
    BY <1>10 DEF Advance, Reopened, OpenRound
  <2>2. NoFetch({Step("assign", Implementer, q)})
    BY DEF NoFetch, Fetch, Step
  <2>3. QED
    BY <1>2, <2>1, <2>2
<1>11. CASE Confirm(t, x)
  <2>1. NoFetch({Step("answer", Implementer, x.round)})
    BY DEF NoFetch, Fetch, Step
  <2>2. Run(t, {}) \/ Pause(t, {Step("answer", Implementer, x.round)})
    BY <1>11 DEF Confirm
  <2>3. QED
    BY <1>2, <1>3, <2>1, <2>2
<1>12. QED
  BY <1>5, <1>6, <1>7, <1>8, <1>9, <1>10, <1>11

\* An assignment: for another role, or the first review of its round.
LEMMA InsertFetches ==
  ASSUME VerdictInv, NEW t \in Tasks, NEW x \in Ready(t), x.do # "inform", NEW r \in Roles,
         Insert(t, r, x.round, Rest(t, x)), UNCHANGED <<round, decision>>,
         r = Reviewer => /\ x.round = round /\ Ripe(round) /\ ~Judged(round)
                         /\ Reviews(x.round) = {},
         \A u \in Tasks \ {t} : NoFetch(todo[u]),
         Incidental \/ Assigning
  PROVE  NoneFetched \/ \E q \in Rounds : Fetched(q)
<1>1. /\ x \in todo[t] /\ x.round \in Rounds /\ Plain(Rest(t, x)) /\ TypeOK
      /\ x.do # "reopen" => x.round <= round
  BY TakenStep, RestPlain, TypeFacts DEF Ready
<1>2. PICK S : /\ S \subseteq Rest(t, x)
               /\ \A u \in Tasks : todo'[u] = IF u = t THEN S ELSE todo[u]
  <2>1. CASE Abandon(t)
    BY <1>1, <2>1, AbandonTodo
  <2>2. CASE Pause(t, Rest(t, x)) \/ Drain(t, r, Rest(t, x))
    BY <1>1, <2>2, TodoIs
  <2>3. QED
    BY <2>1, <2>2 DEF Insert
<1>3. \A u \in Tasks : NoFetch(todo'[u])
  BY <1>1, <1>2 DEF Plain, NoFetch, Fetch
<1>4. \A u \in Tasks : FetchesHeld(u, todo'[u])
  BY <1>3 DEF FetchesHeld, NoFetch
<1>5. CASE RepairLimitReached(r, x.round)
  <2>1. UNCHANGED asg
    BY <1>5 DEF Insert
  <2>2. QED
    BY <1>4, <2>1 DEF NoneFetched, SameReviews, Reviews, Ids
<1>6. CASE ~RepairLimitReached(r, x.round) /\ r = Reviewer
  <2>1. Create(r, x.round, KindFor(t, r)) /\ KindFor(t, r) = "review"
    BY <1>6, TypeFacts, ConstantAssumption DEF Insert, KindFor, Reviewer, Implementer
  <2>2. Added(Reviewer, x.round)
    BY <1>1, <1>6, <2>1, TypeFacts DEF Added
  <2>3. QED
    BY <1>1, <1>3, <1>6, <2>2 DEF Fetched
<1>7. CASE ~RepairLimitReached(r, x.round) /\ r # Reviewer
  <2>1. Create(r, x.round, KindFor(t, r))
    BY <1>7 DEF Insert
  <2>2. asg'[Reviewer] = asg[Reviewer]
    BY <1>1, <1>7, <2>1, CreateKeepsRows, TypeFacts
  <2>3. QED
    BY <1>4, <2>2 DEF NoneFetched, SameReviews, Reviews, Ids
<1>8. QED
  BY <1>5, <1>6, <1>7

LEMMA AssignFetches ==
  ASSUME VerdictInv, NEW t \in Tasks, NEW x \in Ready(t), x.do # "inform", NEW r \in Roles,
         Assign(t, r, x.round, Rest(t, x)), UNCHANGED <<round, decision>>,
         r = Reviewer => GateOpen(x.round) /\ x.round = round /\ Ripe(round) /\ ~Judged(round),
         \A u \in Tasks \ {t} : NoFetch(todo[u]),
         Incidental \/ Assigning
  PROVE  NoneFetched \/ \E q \in Rounds : Fetched(q)
<1>1. x \in todo[t] /\ Rest(t, x) \subseteq todo[t]
  BY DEF Ready, Rest
<1>2. CASE Known(r) /\ r \notin owed \cup Retained
  BY <1>2, InsertFetches, GateFirst DEF Assign
<1>3. CASE ~(Known(r) /\ r \notin owed \cup Retained)
  <2>1. UNCHANGED asg
    BY <1>3 DEF Assign
  <2>2. SameReviews
    BY <2>1 DEF SameReviews, Reviews, Ids
  <2> DEFINE i == Step("insert", r, x.round)
  <2>3. FetchesHeld(t, Rest(t, x)) /\ FetchesHeld(t, {}) /\ FetchesHeld(t, Rest(t, x) \cup {i})
    <3>1. i.to = r /\ i.round = x.round
      BY DEF Step
    <3> HIDE DEF i
    <3>2. QED
      BY <1>1, <3>1 DEF FetchesHeld, Fetch
  <2>4. \/ Run(t, Rest(t, x)) \/ Drain(t, r, Rest(t, x) \cup {i}) \/ Run(t, {})
    BY <1>3 DEF Assign, Abandon
  <2> HIDE DEF i
  <2>5. \A u \in Tasks : FetchesHeld(u, todo'[u])
    BY <2>3, <2>4, LeftFetches
  <2>6. QED
    BY <2>2, <2>5 DEF NoneFetched
<1>4. QED
  BY <1>2, <1>3

LEMMA DeliveryFetches ==
  ASSUME ReviewInv, NEW t \in Tasks, \A u \in Tasks \ {t} : NoFetch(todo[u]),
         \/ \E x \in todo[t] : Assignments(t, x) \/ Gate(t, x)
         \/ Drained(t) \/ DrainFails(t)
  PROVE  NoneFetched \/ \E q \in Rounds : Fetched(q)
<1>1. VerdictInv /\ (Incidental \/ Assigning)
  BY DeliveryKind DEF ReviewInv
<1>2. ASSUME NEW x \in todo[t], Assignments(t, x)
      PROVE  NoneFetched \/ \E q \in Rounds : Fetched(q)
  <2>1. /\ Sound(t, todo[t], waits[t]) /\ x.to \in Roles /\ x.round \in Rounds
        /\ UNCHANGED <<round, decision>> /\ x \in Ready(t)
    BY <1>1, <1>2, TakenStep DEF Assignments, Takes
  <2>2. CASE x.do \in {"initial", "probe", "assign"} /\ Assign(t, x.to, x.round, Rest(t, x))
    <3>1. x.to # Reviewer
      BY <1>1, <2>2, TypeFacts DEF EvidenceInv, ReviewQueue
    <3>2. PICK r : r = x.to
      OBVIOUS
    <3>3. QED
      BY <1>1, <2>1, <2>2, <3>1, <3>2, AssignFetches
  <2>3. CASE x.do = "insert" /\ Insert(t, x.to, x.round, Rest(t, x))
    <3>1. x.to = Reviewer => x.round = round /\ Ripe(round) /\ ~Judged(round)
      BY <2>1, <2>3 DEF Sound
    <3>2. x.to = Reviewer => Reviews(x.round) = {}
      BY <2>3 DEF ReviewInv, FirstReview, Fetch
    <3>3. PICK r : r = x.to
      OBVIOUS
    <3>4. QED
      BY <1>1, <2>1, <2>3, <3>1, <3>2, <3>3, InsertFetches
  <2>4. QED
    BY <1>2, <2>2, <2>3 DEF Assignments, Takes
<1>3. ASSUME NEW x \in todo[t], Gate(t, x)
      PROVE  NoneFetched \/ \E q \in Rounds : Fetched(q)
  <2>1. /\ x.round \in Rounds /\ x.round <= round /\ x \in Ready(t) /\ x.do = "gate"
        /\ UNCHANGED <<round, decision>> /\ Reviewer \in Roles
    BY <1>1, <1>3, TakenStep, TypeFacts DEF Gate, Takes
  <2>2. CASE GateOpen(x.round) /\ Assign(t, Reviewer, x.round, Rest(t, x))
    BY <1>1, <2>1, <2>2, GateCurrent, AssignFetches
  <2>3. CASE Run(t, Rest(t, x)) /\ UNCHANGED asg
    <3>1. FetchesHeld(t, Rest(t, x))
      BY PartHeld DEF Rest
    <3>2. \A u \in Tasks : FetchesHeld(u, todo'[u])
      BY <1>1, <2>3, <3>1, LeftFetches
    <3>3. QED
      BY <2>3, <3>2 DEF NoneFetched, SameReviews, Reviews, Ids
  <2>4. QED
    BY <1>3, <2>2, <2>3 DEF Gate
<1>4. CASE Drained(t) \/ DrainFails(t)
  <2>1. Run(t, {}) /\ UNCHANGED asg
    BY <1>4 DEF Drained, DrainFails, Abandon, durable
  <2>2. FetchesHeld(t, {})
    BY DEF FetchesHeld
  <2>3. \A u \in Tasks : FetchesHeld(u, todo'[u])
    BY <1>1, <2>1, <2>2, LeftFetches
  <2>4. QED
    BY <2>1, <2>3 DEF NoneFetched, SameReviews, Reviews, Ids
<1>5. QED
  BY <1>2, <1>3, <1>4

\* The steps that are taken only while no task runs.
LEMMA CalmFetches ==
  ASSUME VerdictInv, Connections \/ Messages \/ Controls \/ ExtendCalls \/ Restart
  PROVE  NoneFetched
<1>1. SameReviews
  <2>1. CASE Connections \/ Controls \/ ExtendCalls \/ Restart
    BY <2>1, ConnectionsKind, ControlsKind, RestartKind, KindReviews
  <2>2. CASE Messages
    BY <2>2, MessagesKind, KindReviews, ReportReviews DEF Reporting
  <2>3. QED
    BY <2>1, <2>2
<1>2. ASSUME UNCHANGED todo
      PROVE  NoneFetched
  BY <1>1, <1>2 DEF NoneFetched, FetchesHeld
<1>3. ASSUME NEW t \in Tasks, NEW S, NoFetch(S), NEW r, Run(t, S) \/ Pause(t, S) \/ Drain(t, r, S)
      PROVE  NoneFetched
  BY <1>1, <1>3, PartHeld, LeftFetches DEF NoneFetched
<1>4. Roles \subseteq Tasks /\ Operators \subseteq Tasks
  BY TypeFacts
<1>5. CASE Connections
  <2>1. ASSUME NEW r \in Roles, StartWorkflow(r)
        PROVE  NoneFetched
    <3>1. PICK S : /\ S = {Step("baseline", x, 1) : x \in Roles} \cup
                          {Step("begin", r, 1), Step("decide", r, 1),
                           Step("initial", Implementer, 1), Step("started", r, 1)}
                   /\ Run(r, S)
      BY <2>1 DEF StartWorkflow
    <3>2. NoFetch(S)
      BY <3>1 DEF NoFetch, Fetch, Step
    <3>3. QED
      BY <1>3, <1>4, <3>1, <3>2
  <2>2. ASSUME NEW r \in Roles, Connect(r) \/ Recover(r) \/ Lose(r) \/ Unregister(r)
        PROVE  NoneFetched
    BY <1>2, <2>2 DEF Connect, Recover, Lose, Unregister
  <2>3. QED
    BY <1>5, <2>1, <2>2 DEF Connections
<1>6. CASE Messages
  <2>1. ASSUME NEW r \in Roles, NEW v \in {"none", "approved", "changes_requested"}, Report(r, v)
        PROVE  NoneFetched
    <3>1. /\ \A u \in Tasks \ {r} : todo'[u] = todo[u]
          /\ NoFetch(todo'[r])
      BY <2>1, ReportQueues DEF NoFetch, Fetch
    <3>2. \A u \in Tasks : FetchesHeld(u, todo'[u])
      BY <3>1 DEF FetchesHeld, NoFetch
    <3>3. QED
      BY <1>1, <3>2 DEF NoneFetched
  <2>2. ASSUME NEW r \in Roles,
               \/ Ack(r) \/ AckUncertain(r) \/ Remind(r) \/ RecoveryTurn(r)
               \/ RaiseAttention(r) \/ DenyTurn(r)
               \/ \E s \in {"idle", "active"} : Lifecycle(r, s)
        PROVE  NoneFetched
    BY <1>2, <2>2
       DEF Ack, AckUncertain, Remind, RecoveryTurn, RaiseAttention, DenyTurn, Lifecycle, memory
  <2>3. QED
    BY <1>6, <2>1, <2>2 DEF Messages
<1>7. CASE Controls
  <2>1. ASSUME NEW o \in Operators, NEW r \in Roles, Send(o, r)
        PROVE  NoneFetched
    <3>1. NoFetch({Step("resume", r, round)}) /\ Drain(o, r, {Step("resume", r, round)})
      BY <2>1 DEF Send, NoFetch, Fetch, Step
    <3>2. QED
      BY <1>3, <1>4, <3>1
  <2>2. ASSUME NEW o \in Operators, Reopen(o)
        PROVE  NoneFetched
    <3>1. PICK S : Drain(o, Implementer, S) /\ NoFetch(S)
      BY <2>2 DEF Reopen, NoFetch, Fetch, Step
    <3>2. QED
      BY <1>3, <1>4, <3>1
  <2>3. ASSUME NEW o \in Operators, ApproveRepair(o)
        PROVE  NoneFetched
    <3>1. PICK S : Run(o, S) /\ NoFetch(S)
      BY <2>3 DEF ApproveRepair, NoFetch, Fetch, Step
    <3>2. QED
      BY <1>3, <1>4, <3>1
  <2>4. ASSUME NEW o \in Operators, HangUp(o)
        PROVE  NoneFetched
    <3>1. Run(o, {}) /\ NoFetch({})
      BY <2>4 DEF HangUp, Abandon, NoFetch
    <3>2. QED
      BY <1>3, <1>4, <3>1
  <2>5. QED
    BY <1>7, <2>1, <2>2, <2>3, <2>4 DEF Controls
<1>8. CASE ExtendCalls
  BY <1>2, <1>8 DEF ExtendCalls, memory
<1>9. CASE Restart
  BY <1>1, <1>9 DEF Restart, NoneFetched, FetchesHeld
<1>10. QED
  BY <1>5, <1>6, <1>7, <1>8, <1>9

LEMMA NextFetches ==
  ASSUME ReviewInv, ReviewerReads, [Next]_vars
  PROVE  NoneFetched \/ \E q \in Rounds : Fetched(q)
<1>1. VerdictInv
  BY DEF ReviewInv
<1>2. ASSUME NEW t \in Tasks, Turn(t)
      PROVE  NoneFetched \/ \E q \in Rounds : Fetched(q)
  <2>1. Continuation(t) /\ \A u \in Tasks \ {t} : NoFetch(todo[u])
    BY <1>1, <1>2, SuspendedFetchesNone DEF Turn
  <2>2. QED
    BY <1>1, <2>1, PassingFetches, DeliveryFetches DEF Continuation
<1>3. CASE Connections \/ Messages \/ Controls \/ ExtendCalls \/ Restart
  BY <1>1, <1>3, CalmFetches
<1>4. CASE UNCHANGED vars
  BY <1>4 DEF vars, durable, memory, NoneFetched, SameReviews, Reviews, Ids, FetchesHeld
<1>5. QED
  BY <1>2, <1>3, <1>4 DEF Next

\* The reviewer's row that is open is the one it works on.
LEMMA OnlyReviewStays ==
  ASSUME ReviewInv, [Next]_vars, NoneFetched \/ \E q \in Rounds : Fetched(q)
  PROVE  OnlyReview'
<1>1. VerdictInv /\ OnlyReview /\ TypeOK /\ Reviewer \in Roles
  BY TypeFacts DEF ReviewInv
<1>2. ASSUME asg'[Reviewer] = asg[Reviewer], active'[Reviewer] = active[Reviewer]
      PROVE  OnlyReview'
  BY <1>1, <1>2 DEF OnlyReview, Ids
<1>3. CASE Incidental
  <2>1. /\ Len(asg'[Reviewer]) = Len(asg[Reviewer]) /\ active'[Reviewer] = active[Reviewer]
        /\ \A i \in Ids(Reviewer) :
             asg'[Reviewer][i].state = "completed" <=> asg[Reviewer][i].state = "completed"
    BY <1>1, <1>3 DEF Incidental, Kept
  <2>2. QED
    BY <1>1, <2>1 DEF OnlyReview, Ids
<1>4. CASE Opening \/ Announcing
  BY <1>2, <1>4 DEF Opening, Announcing, RouteApproval
<1>5. CASE Reporting
  <2>1. PICK r \in Roles, v \in {"none", "approved", "changes_requested"} : Report(r, v)
    BY <1>5 DEF Reporting
  <2>2. ReportedRow(r, v) /\ active[r] \in Ids(r)
    BY <1>1, <2>1, ReportRows
  <2>3. CASE r # Reviewer
    BY <1>1, <1>2, <2>2, <2>3 DEF ReportedRow
  <2>4. CASE r = Reviewer
    <3>1. \A i \in Ids(Reviewer) : asg'[Reviewer][i].state = "completed"
      BY <1>1, <2>2, <2>4 DEF ReportedRow, OnlyReview
    <3>2. Ids(Reviewer)' = Ids(Reviewer)
      BY <2>2, <2>4 DEF ReportedRow, Ids
    <3>3. QED
      BY <3>1, <3>2 DEF OnlyReview
  <2>5. QED
    BY <2>3, <2>4
<1>6. CASE Assigning
  <2>1. PICK r \in Roles, q \in Rounds : Added(r, q)
    BY <1>6 DEF Assigning
  <2>2. PICK kind : Create(r, q, kind)
    BY <2>1 DEF Added
  <2>3. /\ Len(asg'[r]) = Len(asg[r]) + 1 /\ Len(asg[r]) \in Nat
        /\ \A i \in Ids(r) : asg'[r][i] = asg[r][i]
        /\ \A x \in Roles \ {r} : asg'[x] = asg[x] /\ active'[x] = active[x]
        /\ active'[r] = Len(asg[r]) + 1
    BY <1>1, <2>2, CreateKeepsRows
  <2>4. CASE r # Reviewer
    BY <1>1, <1>2, <2>3, <2>4
  <2>5. CASE r = Reviewer
    <3>1. Reviews(q)' = Reviews(q) \cup {Len(asg[Reviewer]) + 1}
      BY <1>1, <2>1, <2>5, AddedJudgement
    <3>2. Len(asg[Reviewer]) + 1 \notin Reviews(q)
      BY <2>3, <2>5 DEF Reviews, Ids
    <3>3. PICK n \in Rounds : Fetched(n)
      BY <3>1, <3>2 DEF NoneFetched, SameReviews
    <3>4. n = round /\ q = round /\ Reviews(round) = {}
      BY <2>1, <2>5, <3>3 DEF Fetched, Added
    <3>5. ~Working(Reviewer)
      <4>1. SUFFICES ASSUME Working(Reviewer)
                     PROVE  FALSE
        OBVIOUS
      <4>2. active[Reviewer] \in Ids(Reviewer) /\ Current(Reviewer) = asg[Reviewer][active[Reviewer]]
        BY <1>1, <4>1, CurrentRow
      <4>3. asg[Reviewer][active[Reviewer]].round = round
        BY <1>1, <4>1, <4>2 DEF VerdictInv, Reviewing
      <4>4. QED
        BY <3>4, <4>2, <4>3 DEF Reviews
    <3>6. \A i \in Ids(Reviewer) : asg[Reviewer][i].state = "completed"
      BY <1>1, <3>5 DEF OnlyReview, Working, Ids
    <3>7. Ids(Reviewer)' = Ids(Reviewer) \cup {Len(asg[Reviewer]) + 1}
      BY <2>3, <2>5 DEF Ids
    <3>8. QED
      BY <2>3, <2>5, <3>6, <3>7 DEF OnlyReview
  <2>6. QED
    BY <2>4, <2>5
<1>7. QED
  BY <1>1, <1>3, <1>4, <1>5, <1>6, NextKind DEF StepKind

LEMMA NextReview ==
  ASSUME ReviewerReads, ReviewInv, [Next]_vars
  PROVE  ReviewInv'
<1>1. VerdictInv' /\ VerdictInv /\ TypeOK
  BY NextVerdict, TypeFacts DEF ReviewInv
<1>2. NoneFetched \/ \E q \in Rounds : Fetched(q)
  BY NextFetches
<1>3. OnlyReview'
  BY <1>2, OnlyReviewStays
<1>4. CASE NoneFetched
  <2>1. Singles'
    BY <1>4 DEF ReviewInv, Singles, NoneFetched, SameReviews
  <2>2. ASSUME NEW t \in Tasks, NEW x \in todo'[t], Fetch(x)
        PROVE  Reviews(x.round)' = {}
    <3>1. PICK q : q = x.round
      OBVIOUS
    <3>2. q \in Rounds
      <4>1. todo'[t] \subseteq Steps
        BY <1>1, TypeFacts DEF VerdictInv, EvidenceInv, Typing, TypeOK
      <4>2. QED
        BY <3>1, <4>1 DEF Steps
    <3>3. Reviews(q) = {}
      <4>1. x \in todo[t] \/ GateOpen(q)
        BY <1>4, <2>2, <3>1 DEF NoneFetched, FetchesHeld
      <4>2. QED
        BY <2>2, <3>1, <4>1, GateFirst DEF ReviewInv, FirstReview
    <3>4. Reviews(q)' = {}
      BY <1>4, <3>2, <3>3 DEF NoneFetched, SameReviews
    <3>5. QED
      BY <3>1, <3>4 DEF Reviews, Ids
  <2>3. FirstReview'
    BY <2>2 DEF FirstReview, Fetch, Reviews
  <2>4. QED
    BY <1>1, <1>3, <2>1, <2>3 DEF ReviewInv
<1>5. ASSUME NEW q \in Rounds, Fetched(q)
      PROVE  ReviewInv'
  <2>1. Added(Reviewer, q) /\ Reviews(q) = {} /\ \A u \in Tasks : NoFetch(todo'[u])
    BY <1>5 DEF Fetched
  <2>2. FirstReview'
    BY <2>1 DEF FirstReview, NoFetch, Fetch
  <2>3. \A n \in Rounds : Reviews(n)' = Reviews(n) \cup
                            (IF n = q THEN {Len(asg[Reviewer]) + 1} ELSE {})
    BY <1>1, <2>1, AddedJudgement, TypeFacts
  <2>4. Singles'
    BY <2>1, <2>3 DEF ReviewInv, Singles
  <2>5. QED
    BY <1>1, <1>3, <2>2, <2>4 DEF ReviewInv
<1>6. QED
  BY <1>2, <1>4, <1>5

LEMMA InitReview == Init => ReviewInv
<1> SUFFICES ASSUME Init
             PROVE  ReviewInv
  OBVIOUS
<1>1. VerdictInv
  BY InitVerdict
<1>2. Ids(Reviewer) = {} /\ \A t \in Tasks : todo[t] = {}
  BY <1>1, TypeFacts DEF Init, Ids
<1>3. QED
  BY <1>1, <1>2 DEF ReviewInv, FirstReview, Singles, OnlyReview, Reviews

\* Between the gate and the reviewer's row no second review of the round is begun, and the
\* reviewer has one open row, whatever else is lost, slow, interleaved or restarted.
THEOREM ReviewsAreBegunOnce == ASSUME ReviewerReads PROVE Spec => []ReviewInv
<1>1. ReviewInv /\ [Next]_vars => ReviewInv'
  BY NextReview
<1>2. QED
  BY <1>1, InitReview, PTL DEF Spec

\* The gate triggers the reviewer once per round, as long as the reviewer reads its socket.
THEOREM RoundsAreReviewedOnce == ASSUME ReviewerReads PROVE Spec => []OneReviewPerRound
<1>1. ReviewInv => OneReviewPerRound
  <2>1. SUFFICES ASSUME ReviewInv, NEW q \in Rounds
                 PROVE  Cardinality(Reviews(q)) <= 1
    BY DEF OneReviewPerRound
  <2>2. CASE Reviews(q) = {}
    BY <2>2, FS_EmptySet
  <2>3. CASE Reviews(q) # {}
    <3>1. PICK i : Reviews(q) = {i}
      BY <2>1, <2>3 DEF ReviewInv, Singles
    <3>2. QED
      BY <3>1, FS_Singleton
  <2>4. QED
    BY <2>2, <2>3
<1>2. QED
  BY <1>1, ReviewsAreBegunOnce, PTL

\* Every unfinished row is the one its role points at, so that whatever concerns it still
\* finds it: work is given once to the others, and the reviewer has one review.
THEOREM RowsAreReachable == ASSUME OneReopens, ReviewerReads PROVE Spec => []NoOrphanAssignment
<1>1. OnceInv /\ ReviewInv => NoOrphanAssignment
  BY DEF OnceInv, OnlyOpen, ReviewInv, OnlyReview, NoOrphanAssignment
<1>2. QED
  BY <1>1, WorkIsGivenOnce, ReviewsAreBegunOnce, PTL
-----------------------------------------------------------------------------
(* Nobody is forgotten.  A connection that is lost, an operator who hangs  *)
(* up and a broker that is killed each leave a run active with nobody at   *)
(* work until somebody connects or asks.  This part assumes that there are *)
(* none, and accounts for every unfinished part of the round: somebody is  *)
(* at work on it, or a coroutine has it in hand.                           *)

Dependable == FlakyRoles = {} /\ FlakyOperators = {} /\ ~MayCrash

\* The roster is complete once the workflow has started, and nobody leaves it.
AllUp ==
  /\ \A r \in Roles : conn[r] # "lost"
  /\ workflow = "connecting" => \A t \in Tasks : waits[t] \notin Roles
  /\ workflow # "connecting" => \A r \in Roles : conn[r] = "up"

\* A report is routed by a task that does nothing else, and a repair is approved by one.
Orderly(S) == \A x \in S :
  /\ x.do \in {"evidence", "planned", "implemented"} => S = {x}
  /\ x.do \in {"confirm", "answer"} => \A y \in S : y.do \in {"assign", "insert", "confirm", "answer"}
  /\ x.do = "planned" => Phased
AllOrderly  == \A t \in Tasks : Orderly(todo[t])
PlansPhased == \A i \in Ids(Implementer) : asg[Implementer][i].kind = "plan" => Phased

\* What coroutines have in hand: work for role r, the decisions on round q's specialists,
\* a look at its gate, the answer to a rejection, the announcement or a reopening.
Gating(x)  == x.do \in {"implemented", "evidence", "gate"} \/ Fetch(x)
Due(r)     == \E t \in Tasks : \E x \in todo[t] : Giving(x) /\ x.to = r
Routing(q) == \E t \in Tasks : \E x \in todo[t] : x.do = "implemented" /\ x.round = q
Asked(q)   == \E t \in Tasks : \E x \in todo[t] : Gating(x) /\ x.round = q
Turning    == \E t \in Tasks : \E x \in todo[t] : x.do \in {"rejected", "advance"}
Ending     == \E t \in Tasks : \E x \in todo[t] : x.do \in {"approved", "reopen"}

\* The parts of round q, in the order in which they are finished.
Built(q)    == workflow # "connecting" /\ ~Implemented(q) =>
                 pending = q \/ Working(Implementer) \/ Due(Implementer)
Routed(q)   == Implemented(q) /\ Undecided(q) # {} => Routing(q)
Probed(q)   == \A s \in Specialists :
                 decision[s][q] = "run" /\ Reports(s, q) = {} => Working(s) \/ Due(s)
Gated(q)    == GateOpen(q) => Asked(q)
Reviewed(q) == Reviews(q) # {} /\ ~Judged(q) => Working(Reviewer)
Turned(q)   == Verdict(q, "changes_requested") => Turning
Ended(q)    == Verdict(q, "approved") /\ workflow = "active" => Ending

Accounted(q) == /\ Built(q) /\ Routed(q) /\ Probed(q) /\ Gated(q) /\ Reviewed(q)
                /\ Turned(q) /\ Ended(q)
Accounts == \A q \in Rounds : q = round => Accounted(q)

AccountInv == OnceInv /\ AllUp /\ AllOrderly /\ PlansPhased /\ Accounts

\* A queue S goes on with what step x was to bring about.
Passes(x, S) ==
  /\ Giving(x) /\ x.to # Reviewer => \E y \in S : Giving(y) /\ y.to = x.to
  /\ Gating(x) => \/ \E y \in S : Gating(y) /\ y.round = x.round
                  \/ ~GateOpen(x.round)
  /\ x.do = "implemented" => x \in S
  /\ x.do \in {"rejected", "advance"} => \E y \in S : y.do \in {"rejected", "advance"}
  /\ x.do \in {"approved", "reopen"} => x \in S \/ workflow' # "active"
HandsPass == \A u \in Tasks : \A x \in todo[u] : x \in todo'[u] \/ Passes(x, todo'[u])

LEMMA HandsStay ==
  ASSUME HandsPass
  PROVE  /\ \A r \in Roles : r # Reviewer /\ Due(r) => Due(r)'
         /\ \A q : Routing(q) => Routing(q)'
         /\ \A q : Asked(q) => Asked(q)' \/ ~GateOpen(q)
         /\ Turning => Turning'
         /\ Ending => Ending' \/ workflow' # "active"
<1>1. ASSUME NEW r \in Roles, r # Reviewer, Due(r)
      PROVE  Due(r)'
  <2>1. PICK t \in Tasks : \E x \in todo[t] : Giving(x) /\ x.to = r
    BY <1>1 DEF Due
  <2>2. \E y \in todo'[t] : Giving(y) /\ y.to = r
    BY <1>1, <2>1 DEF HandsPass, Passes
  <2>3. QED
    BY <2>2 DEF Due, Giving
<1>2. ASSUME NEW q, Routing(q)
      PROVE  Routing(q)'
  <2>1. PICK t \in Tasks : \E x \in todo[t] : x.do = "implemented" /\ x.round = q
    BY <1>2 DEF Routing
  <2>2. \E x \in todo'[t] : x.do = "implemented" /\ x.round = q
    BY <2>1 DEF HandsPass, Passes
  <2>3. QED
    BY <2>2 DEF Routing
<1>3. ASSUME NEW q, Asked(q), GateOpen(q)
      PROVE  Asked(q)'
  <2>1. PICK t \in Tasks : \E x \in todo[t] : Gating(x) /\ x.round = q
    BY <1>3 DEF Asked
  <2>2. \E y \in todo'[t] : Gating(y) /\ y.round = q
    BY <1>3, <2>1 DEF HandsPass, Passes
  <2>3. QED
    BY <2>2 DEF Asked, Gating, Fetch
<1>4. Turning => Turning'
  BY DEF Turning, HandsPass, Passes
<1>5. Ending => Ending' \/ workflow' # "active"
  BY DEF Ending, HandsPass, Passes
<1>6. QED
  BY <1>1, <1>2, <1>3, <1>4, <1>5

\* The tables of round q say nothing new.
SameParts(q) ==
  /\ SameJudgement(q) /\ (Reviews(q)' = Reviews(q)) /\ (Undecided(q)' = Undecided(q))
  /\ (GateOpen(q)' => GateOpen(q))
  /\ \A s \in Specialists : decision'[s][q] = decision[s][q]
  /\ UNCHANGED active

LEMMA KeptParts ==
  ASSUME TypeOK, Kept, UNCHANGED decision, NEW q \in Rounds
  PROVE  SameParts(q)
<1>1. SameJudgement(q) /\ (Reviews(q)' = Reviews(q))
  BY KeptJudgement
<1>2. Undecided(q)' = Undecided(q)
  BY DEF Undecided
<1>3. GateOpen(q)' => GateOpen(q)
  <2>1. ASSUME GateOpen(q)'
        PROVE  GateOpen(q)
    <3>1. Implemented(q) /\ EvidenceComplete(q)
      BY <1>1, <2>1 DEF GateOpen, EvidenceComplete, SameJudgement
    <3>2. Reviews(q)' = {}
      BY <2>1 DEF GateOpen, Reviews
    <3>3. QED
      BY <1>1, <3>1, <3>2 DEF GateOpen, Reviews
  <2>2. QED
    BY <2>1
<1>4. QED
  BY <1>1, <1>2, <1>3 DEF SameParts, Kept

\* The current round says nothing new, and no step that matters is dropped.
LEMMA PassingKeeps ==
  ASSUME OnceInv, Accounts, HandsPass, UNCHANGED <<round, pending>>, NEW c \in Rounds, c = round, SameParts(c),
         workflow = "connecting" => workflow' = "connecting" \/ Due(Implementer)',
         workflow' = "active" => workflow = "active" \/ ~Verdict(c, "approved")
  PROVE  Accounts'
<1>1. Accounted(c)
  BY DEF Accounts
<1>2. /\ Judged(c)' = Judged(c) /\ Implemented(c)' = Implemented(c)
      /\ Verdict(c, "approved")' = Verdict(c, "approved")
      /\ Verdict(c, "changes_requested")' = Verdict(c, "changes_requested")
      /\ \A s \in Specialists : (Reports(s, c)' = {}) = (Reports(s, c) = {})
      /\ Reviews(c)' = Reviews(c) /\ Undecided(c)' = Undecided(c)
      /\ GateOpen(c)' => GateOpen(c)
      /\ \A s \in Specialists : decision'[s][c] = decision[s][c]
      /\ \A r \in Roles : Working(r)' = Working(r)
  BY DEF SameParts, SameJudgement, Working
<1>3. Implementer \in Roles /\ Implementer # Reviewer /\ Specialists \subseteq Roles /\ Reviewer \notin Specialists
      /\ Reviewer \in Roles
  BY OnceFacts
<1>4. Built(c)'
  BY <1>1, <1>2, <1>3, HandsStay DEF Accounted, Built
<1>5. Routed(c)'
  BY <1>1, <1>2, HandsStay DEF Accounted, Routed
<1>6. Probed(c)'
  <2>1. ASSUME NEW s \in Specialists, decision'[s][c] = "run", Reports(s, c)' = {}
        PROVE  Working(s)' \/ Due(s)'
    <3>1. Working(s) \/ Due(s)
      BY <1>1, <1>2, <2>1 DEF Accounted, Probed
    <3>2. QED
      BY <1>2, <1>3, <3>1, HandsStay
  <2>2. QED
    BY <2>1 DEF Probed
<1>7. Gated(c)'
  BY <1>1, <1>2, HandsStay DEF Accounted, Gated
<1>8. Reviewed(c)'
  BY <1>1, <1>2, <1>3 DEF Accounted, Reviewed
<1>9. Turned(c)'
  BY <1>1, <1>2, HandsStay DEF Accounted, Turned
<1>10. Ended(c)'
  BY <1>1, <1>2, HandsStay DEF Accounted, Ended
<1>11. Accounted(c)'
  BY <1>4, <1>5, <1>6, <1>7, <1>8, <1>9, <1>10 DEF Accounted
<1>12. QED
  BY <1>11 DEF Accounts

LEMMA AccountFacts ==
  ASSUME AccountInv
  PROVE  OnceInv /\ VerdictInv /\ TypeOK /\ Accounts /\ AllOrderly /\ Accounted(round) /\ round \in Rounds
<1>1. OnceInv /\ VerdictInv /\ TypeOK /\ Accounts /\ AllOrderly /\ round \in Rounds
  BY OnceFacts DEF AccountInv
<1>2. QED
  BY <1>1 DEF Accounts

\* Whoever has a step to take finds the roster complete.
LEMMA StartedUp ==
  ASSUME AccountInv, NEW t \in Tasks, todo[t] # {}
  PROVE  workflow # "connecting" /\ \A r \in Roles : conn[r] = "up" /\ Known(r) /\ Alive(r)
<1>1. workflow # "connecting"
  BY DEF AccountInv, OnceInv, Unstarted
<1>2. QED
  BY <1>1 DEF AccountInv, AllUp, Known, Alive

LEMMA OrderlyMove ==
  ASSUME TypeOK, AllOrderly, NEW t \in Tasks, NEW S, Orderly(S),
         NEW r, Run(t, S) \/ Pause(t, S) \/ Drain(t, r, S)
  PROVE  AllOrderly'
<1>1. \A u \in Tasks : todo'[u] = IF u = t THEN S ELSE todo[u]
  BY TodoIs
<1>2. \A u \in Tasks : Orderly(todo'[u])
  BY <1>1 DEF AllOrderly
<1>3. QED
  BY <1>2 DEF AllOrderly, Orderly

LEMMA OrderlyPart ==
  ASSUME NEW T, Orderly(T), NEW S \in SUBSET T
  PROVE  Orderly(S)
  BY DEF Orderly

LEMMA LeftPasses ==
  ASSUME TypeOK, NEW t \in Tasks, NEW S, \A y \in todo[t] : y \in S \/ Passes(y, S),
         NEW r, Run(t, S) \/ Pause(t, S) \/ Drain(t, r, S)
  PROVE  HandsPass
<1>1. \A u \in Tasks : todo'[u] = IF u = t THEN S ELSE todo[u]
  BY TodoIs
<1>2. QED
  BY <1>1 DEF HandsPass

\* The workflow is declared active by a step that leaves the round undecided, if at all.
Reactivates == workflow' = "active" => workflow = "active" \/ ~Verdict(round, "approved")

\* Task t goes on with S, which drops nothing; the tables stay.
LEMMA StepKeeps ==
  ASSUME AccountInv, NEW t \in Tasks, NEW S, Orderly(S), \A y \in todo[t] : y \in S \/ Passes(y, S),
         NEW r, Run(t, S) \/ Pause(t, S) \/ Drain(t, r, S),
         workflow = "connecting" => workflow' = "connecting" \/ \E y \in S : Giving(y) /\ y.to = Implementer,
         Kept, UNCHANGED <<round, pending, decision>>, Reactivates
  PROVE  Accounts' /\ AllOrderly'
<1>1. OnceInv /\ TypeOK /\ Accounts /\ AllOrderly
  BY AccountFacts
<1>2. AllOrderly'
  BY <1>1, OrderlyMove
<1>3. HandsPass
  BY <1>1, LeftPasses
<1>4. PICK c \in Rounds : c = round /\ SameParts(c)
  BY <1>1, KeptParts, AccountFacts
<1>5. workflow = "connecting" => workflow' = "connecting" \/ Due(Implementer)'
  <2>1. todo'[t] = S
    BY <1>1, TodoIs
  <2>2. QED
    BY <2>1 DEF Due, Giving
<1>6. Accounts'
  BY <1>1, <1>3, <1>4, <1>5, PassingKeeps DEF Reactivates
<1>7. QED
  BY <1>2, <1>6

LEMMA TakenKeeps ==
  ASSUME AccountInv, NEW t \in Tasks, NEW x \in todo[t], NEW S, Rest(t, x) \subseteq S, Passes(x, S), Orderly(S),
         NEW r, Run(t, S) \/ Pause(t, S) \/ Drain(t, r, S),
         Kept, UNCHANGED <<round, pending, decision>>, Reactivates
  PROVE  Accounts' /\ AllOrderly'
<1>1. workflow # "connecting"
  BY StartedUp
<1>2. \A y \in todo[t] : y \in S \/ Passes(y, S)
  BY DEF Rest
<1>3. QED
  BY <1>1, <1>2, StepKeeps

\* The step x is taken and nothing comes of it but a frame.
LEMMA RestKeeps ==
  ASSUME AccountInv, NEW t \in Tasks, NEW x \in todo[t],
         x.do \in {"baseline", "begin", "started", "inform", "answer"} \/ (x.do = "gate" /\ ~GateOpen(x.round)),
         NEW r, Run(t, Rest(t, x)) \/ Drain(t, r, Rest(t, x)),
         Kept, UNCHANGED <<round, pending, decision>>, Reactivates
  PROVE  Accounts' /\ AllOrderly'
<1>1. Orderly(Rest(t, x))
  BY AccountFacts, OrderlyPart DEF AllOrderly, Rest
<1>2. Passes(x, Rest(t, x))
  BY DEF Passes, Giving, Gating, Fetch
<1>3. QED
  BY <1>1, <1>2, TakenKeeps

LEMMA SameWorkflow ==
  ASSUME workflow' # "active" \/ UNCHANGED workflow
  PROVE  Reactivates
  BY DEF Reactivates

LEMMA SendOnlyKeeps ==
  ASSUME AccountInv, NEW t \in Tasks, NEW x \in todo[t], x.do \in {"baseline", "inform"}, SendOnly(t, x)
  PROVE  Accounts' /\ AllOrderly'
<1>1. x.to \in Roles
  BY TakenStep, AccountFacts
<1>2. \/ Run(t, Rest(t, x)) /\ UNCHANGED workflow
      \/ Drain(t, x.to, Rest(t, x)) /\ UNCHANGED workflow
  BY <1>1, StartedUp DEF SendOnly
<1>3. Kept /\ UNCHANGED <<round, pending, decision>>
  BY SameKept DEF SendOnly
<1>4. PICK r : r = x.to
  OBVIOUS
<1>5. QED
  BY <1>2, <1>3, <1>4, RestKeeps, SameWorkflow

LEMMA StartupAccounts ==
  ASSUME AccountInv, NEW t \in Tasks, NEW x \in todo[t],
         Baseline(t, x) \/ Begin(t, x) \/ Started(t, x) \/ Inform(t, x)
  PROVE  Accounts' /\ AllOrderly'
<1>1. CASE Baseline(t, x)
  BY <1>1, SendOnlyKeeps DEF Baseline, Takes
<1>2. CASE Begin(t, x)
  <2>1. /\ Run(t, Rest(t, x)) /\ x.do = "begin" /\ Kept /\ UNCHANGED <<round, pending, decision>>
    BY <1>2, SameKept DEF Begin, Takes
  <2>2. Fresh
    BY <2>1, AccountFacts DEF OnceInv, AllProper, Proper, Opens
  <2>3. Reactivates
    BY <2>2, FreshRows, OnceFacts, AccountFacts DEF Reactivates, Verdict, Reviews
  <2>4. QED
    BY <2>1, <2>3, RestKeeps
<1>3. CASE Started(t, x)
  <2>1. /\ Run(t, Rest(t, x)) /\ x.do = "started" /\ UNCHANGED <<round, pending, decision, asg, active, workflow>>
    BY <1>3 DEF Started, Takes, durable
  <2>2. QED
    BY <2>1, RestKeeps, SameKept, SameWorkflow
<1>4. CASE Inform(t, x)
  <2>1. x.do = "inform"
    BY <1>4 DEF Inform, Takes
  <2>2. CASE SendOnly(t, x)
    BY <2>1, <2>2, SendOnlyKeeps
  <2>3. CASE Run(t, Rest(t, x)) /\ UNCHANGED durable
    BY <2>1, <2>3, RestKeeps, SameKept, SameWorkflow DEF durable
  <2>4. QED
    BY <1>4, <2>2, <2>3 DEF Inform
<1>5. QED
  BY <1>1, <1>2, <1>3, <1>4

\* A report is routed by a task that does nothing else, a verdict carried out by one
\* that does nothing else for a worker.
LEMMA RouteAccounts ==
  ASSUME AccountInv, NEW t \in Tasks, NEW x \in todo[t],
         RouteEvidence(t, x) \/ RoutePlan(t, x) \/ RouteApproval(t, x) \/ RouteRejection(t, x)
  PROVE  Accounts' /\ AllOrderly'
<1>1. /\ x \in todo[t] /\ Orderly(todo[t]) /\ Sound(t, todo[t], waits[t]) /\ Proper(todo[t], waits[t])
      /\ workflow # "connecting"
  BY TakenStep, AccountFacts, StartedUp DEF AllOrderly, OnceInv, AllProper
<1>2. Kept /\ UNCHANGED <<round, pending, decision>>
  BY SameKept DEF RouteEvidence, RoutePlan, RouteApproval, RouteRejection, durable
<1>3. ASSUME NEW S, Run(t, S), Orderly(S), \A y \in todo[t] : y \in S \/ Passes(y, S), Reactivates
      PROVE  Accounts' /\ AllOrderly'
  BY <1>1, <1>2, <1>3, StepKeeps
<1>4. CASE RouteEvidence(t, x)
  <2>1. PICK S : /\ S = {Step("inform", Implementer, x.round), Step("inform", Reviewer, x.round),
                         Step("gate", Reviewer, x.round)}
                 /\ Run(t, S) /\ x.do = "evidence" /\ UNCHANGED workflow
    BY <1>4 DEF RouteEvidence, Takes, durable
  <2>2. \A y \in S : y.do \in {"inform", "gate"}
    BY <2>1 DEF Step
  <2>3. \E y \in S : y.do = "gate" /\ y.round = x.round
    BY <2>1 DEF Step
  <2>4. todo[t] = {x}
    BY <1>1, <2>1 DEF Orderly
  <2>5. Passes(x, S) /\ Orderly(S)
    BY <2>1, <2>2, <2>3 DEF Passes, Orderly, Giving, Gating
  <2>6. QED
    BY <1>3, <2>1, <2>4, <2>5, SameWorkflow
<1>5. CASE RoutePlan(t, x)
  <2>1. x.do = "planned" /\ UNCHANGED workflow
    BY <1>5 DEF RoutePlan, Takes, durable
  <2>2. todo[t] = {x} /\ Phased /\ x.to = Implementer
    BY <1>1, <2>1 DEF Orderly, Proper
  <2>3. PICK S : /\ S = {Step("inform", Implementer, x.round)} \cup {Step("assign", Implementer, x.round)}
                 /\ Run(t, S)
    BY <1>5, <2>2 DEF RoutePlan
  <2>4. \A y \in S : y.do \in {"inform", "assign"}
    BY <2>3 DEF Step
  <2>5. \E y \in S : y.do = "assign" /\ y.to = Implementer
    BY <2>3 DEF Step
  <2>6. Passes(x, S) /\ Orderly(S)
    BY <2>1, <2>2, <2>4, <2>5 DEF Passes, Orderly, Giving, Gating, Fetch
  <2>7. QED
    BY <1>3, <2>1, <2>2, <2>3, <2>6, SameWorkflow
<1>6. CASE RouteApproval(t, x)
  <2>1. x.do = "approved" /\ Run(t, {}) /\ workflow' # "active"
    BY <1>6 DEF RouteApproval, Takes, Published
  <2>2. \A y \in todo[t] : y = x \/ y.do = "inform"
    BY <1>1, <2>1 DEF Sound, Deciding
  <2>3. \A y \in todo[t] : Passes(y, {})
    BY <2>1, <2>2 DEF Passes, Giving, Gating, Fetch
  <2>4. Orderly({})
    BY DEF Orderly
  <2>5. QED
    BY <1>3, <2>1, <2>3, <2>4, SameWorkflow
<1>7. CASE RouteRejection(t, x)
  <2>1. PICK S : /\ S = {Step("inform", Implementer, x.round), Step("advance", Implementer, x.round)}
                 /\ Run(t, S) /\ x.do = "rejected" /\ UNCHANGED workflow
    BY <1>7 DEF RouteRejection, Takes, durable
  <2>2. \A y \in S : y.do \in {"inform", "advance"}
    BY <2>1 DEF Step
  <2>3. \E y \in S : y.do = "advance"
    BY <2>1 DEF Step
  <2>4. \A y \in todo[t] : y = x \/ y.do = "inform"
    BY <1>1, <2>1 DEF Sound, Deciding
  <2>5. (\A y \in todo[t] : Passes(y, S)) /\ Orderly(S)
    BY <2>1, <2>2, <2>3, <2>4 DEF Passes, Orderly, Giving, Gating, Fetch
  <2>6. QED
    BY <1>3, <2>1, <2>5, SameWorkflow
<1>8. QED
  BY <1>4, <1>5, <1>6, <1>7

\* While somebody works on it, the round has no verdict.
LEMMA WorkingUndecided ==
  ASSUME AccountInv, NEW r \in Roles, Working(r)
  PROVE  ~Verdict(round, "approved")
<1>1. ~Judged(round)
  BY JudgedCalm, AccountFacts
<1>2. QED
  BY <1>1 DEF Judged, Verdict

LEMMA OperatorAccounts ==
  ASSUME AccountInv, NEW t \in Tasks, NEW x \in todo[t],
         Resume(t, x) \/ Confirm(t, x) \/ Answer(t, x)
  PROVE  Accounts' /\ AllOrderly'
<1>1. /\ x \in todo[t] /\ Orderly(todo[t]) /\ Proper(todo[t], waits[t]) /\ workflow # "connecting"
      /\ x \in Steps /\ x.to \in Roles /\ todo[t] \subseteq Steps
  BY TakenStep, AccountFacts, StartedUp DEF AllOrderly, OnceInv, AllProper, TypeOK
<1>2. Kept
  BY OperatorKind, AccountFacts DEF Incidental
<1>3. UNCHANGED <<round, pending, decision>>
  BY DEF Resume, Confirm, Answer, durable
<1>4. Orderly({})
  BY DEF Orderly
<1>5. CASE Resume(t, x)
  <2>1. x.do = "resume" /\ Run(t, {})
    BY <1>5 DEF Resume, Takes
  <2>2. todo[t] = {x} /\ Working(x.to)
    BY <1>1, <2>1 DEF Proper
  <2>3. Passes(x, {})
    BY <2>1 DEF Passes, Giving, Gating, Fetch
  <2>4. Reactivates
    BY <1>1, <2>2, WorkingUndecided DEF Reactivates
  <2>5. QED
    BY <1>1, <1>2, <1>3, <1>4, <2>1, <2>2, <2>3, <2>4, StepKeeps
<1>6. CASE Confirm(t, x)
  <2>1. x.do = "confirm" /\ x \in Ready(t)
    BY <1>6 DEF Confirm, Takes
  <2>2. ASSUME NEW y \in todo[t]
        PROVE  y.do \in {"confirm", "answer"}
    <3>1. y.do \in {"assign", "insert", "confirm", "answer"} /\ Rank(x.do) <= Rank(y.do)
      BY <1>1, <2>1 DEF Orderly, Ready
    <3>2. Rank("confirm") = 6
      BY RankIs DEF Ranked
    <3>3. QED
      BY <2>1, <3>1, <3>2, Ranks
  <2>3. \A S : \A y \in todo[t] : Passes(y, S)
    BY <2>2 DEF Passes, Giving, Gating, Fetch
  <2>4. PICK S : S = {Step("answer", Implementer, x.round)}
    OBVIOUS
  <2>5. Orderly(S)
    BY <2>4 DEF Orderly, Step
  <2>6. \/ Run(t, {}) /\ workflow' = "uncertain"
        \/ Pause(t, S) /\ UNCHANGED workflow
    BY <1>6, <2>4 DEF Confirm
  <2>7. QED
    BY <1>1, <1>2, <1>3, <1>4, <2>3, <2>5, <2>6, StepKeeps, SameWorkflow
<1>7. CASE Answer(t, x)
  <2>1. x.do = "answer" /\ x \in Ready(t) /\ Run(t, {}) /\ UNCHANGED workflow
    BY <1>7 DEF Answer, Takes, durable
  <2>2. ASSUME NEW y \in todo[t]
        PROVE  Passes(y, {})
    <3>1. y.do \in {"assign", "insert", "confirm", "answer"} /\ Rank(x.do) <= Rank(y.do)
      BY <1>1, <2>1 DEF Orderly, Ready
    <3>2. Rank("answer") = 7
      BY RankIs DEF Ranked
    <3>3. y.do \in {"confirm", "answer"}
      BY <2>1, <3>1, <3>2, Ranks
    <3>4. QED
      BY <3>3 DEF Passes, Giving, Gating, Fetch
  <2>3. QED
    BY <1>1, <1>2, <1>3, <1>4, <2>1, <2>2, StepKeeps, SameWorkflow
<1>8. QED
  BY <1>5, <1>6, <1>7

\* The step x becomes a row of role r, or is held back by the repair limit.
LEMMA InsertedHands ==
  ASSUME AccountInv, NEW t \in Tasks, NEW x \in todo[t], NEW r \in Roles,
         \/ x.do \in {"initial", "probe", "assign", "insert"} /\ x.to = r
         \/ x.do = "gate" /\ r = Reviewer,
         NEW w, Run(t, Rest(t, x)) \/ Pause(t, Rest(t, x)) \/ Drain(t, w, Rest(t, x))
  PROVE  /\ \A s \in Roles \ {r} : Due(s) => Due(s)'
         /\ \A q : Routing(q) => Routing(q)'
         /\ r # Reviewer => \A q : Asked(q) => Asked(q)'
         /\ Turning => Turning'
         /\ Ending => Ending'
         /\ AllOrderly'
<1>1. TypeOK /\ AllOrderly
  BY AccountFacts
<1>2. \A u \in Tasks : todo'[u] = IF u = t THEN Rest(t, x) ELSE todo[u]
  BY <1>1, TodoIs
<1>3. \A u \in Tasks : \A y \in todo[u] : y = x \/ y \in todo'[u]
  BY <1>2 DEF Rest
<1>4. ASSUME NEW s \in Roles \ {r}, Due(s)
      PROVE  Due(s)'
  <2>1. PICK u \in Tasks : \E y \in todo[u] : Giving(y) /\ y.to = s
    BY <1>4 DEF Due
  <2>2. \E y \in todo'[u] : Giving(y) /\ y.to = s
    BY <1>3, <2>1 DEF Giving
  <2>3. QED
    BY <2>2 DEF Due, Giving
<1>5. \A q : Routing(q) => Routing(q)'
  BY <1>3 DEF Routing
<1>6. ASSUME r # Reviewer, NEW q, Asked(q)
      PROVE  Asked(q)'
  <2>1. ~Gating(x)
    BY <1>6 DEF Gating, Fetch
  <2>2. \E u \in Tasks : \E y \in todo'[u] : Gating(y) /\ y.round = q
    BY <1>3, <1>6, <2>1 DEF Asked
  <2>3. QED
    BY <2>2 DEF Asked, Gating, Fetch
<1>7. (Turning => Turning') /\ (Ending => Ending')
  BY <1>3 DEF Turning, Ending
<1>8. Orderly(Rest(t, x))
  BY <1>1, OrderlyPart DEF AllOrderly, Rest
<1>9. AllOrderly'
  BY <1>1, <1>8, OrderlyMove
<1>10. QED
  BY <1>4, <1>5, <1>6, <1>7, <1>9

\* The round's repair is held back for the operator.
LEMMA HeldKeeps ==
  ASSUME AccountInv, NEW t \in Tasks, NEW x \in todo[t],
         x.do \in {"initial", "probe", "assign", "insert"} /\ x.to = Implementer,
         Pause(t, Rest(t, x)), UNCHANGED <<asg, active, round, decision>>,
         workflow' = "needs_attention", pending' = x.round
  PROVE  Accounts' /\ AllOrderly'
<1>1. PICK c \in Rounds : c = round /\ SameParts(c) /\ Accounted(c)
  BY AccountFacts, SameKept, KeptParts
<1>2. x.round = c
  BY <1>1, GivenRound, AccountFacts, OnceFacts DEF Giving
<1>3. /\ Judged(c)' = Judged(c) /\ Implemented(c)' = Implemented(c)
      /\ Verdict(c, "approved")' = Verdict(c, "approved")
      /\ Verdict(c, "changes_requested")' = Verdict(c, "changes_requested")
      /\ \A s \in Specialists : (Reports(s, c)' = {}) = (Reports(s, c) = {})
      /\ Reviews(c)' = Reviews(c) /\ Undecided(c)' = Undecided(c)
      /\ GateOpen(c)' => GateOpen(c)
      /\ \A s \in Specialists : decision'[s][c] = decision[s][c]
      /\ \A r \in Roles : Working(r)' = Working(r)
  BY <1>1 DEF SameParts, SameJudgement, Working
<1>4. Implementer \in Roles /\ Implementer # Reviewer /\ Specialists \subseteq Roles \ {Implementer}
      /\ Reviewer \in Roles
  BY OnceFacts, AccountFacts
<1>5. /\ \A s \in Roles \ {Implementer} : Due(s) => Due(s)'
      /\ \A q : Routing(q) => Routing(q)'
      /\ \A q : Asked(q) => Asked(q)'
      /\ Turning => Turning'
      /\ AllOrderly'
  <2>1. PICK r \in Roles : r = Implementer
    BY <1>4
  <2>2. PICK w : w = Implementer
    OBVIOUS
  <2>3. /\ x.do \in {"initial", "probe", "assign", "insert"} /\ x.to = r
        /\ Run(t, Rest(t, x)) \/ Pause(t, Rest(t, x)) \/ Drain(t, w, Rest(t, x))
    BY <2>1
  <2>4. /\ \A s \in Roles \ {r} : Due(s) => Due(s)'
        /\ \A q : Routing(q) => Routing(q)'
        /\ r # Reviewer => \A q : Asked(q) => Asked(q)'
        /\ Turning => Turning'
        /\ AllOrderly'
    BY <2>3, InsertedHands
  <2>5. QED
    BY <1>4, <2>1, <2>4
<1>6. Built(c)'
  BY <1>2 DEF Built
<1>7. Routed(c)'
  BY <1>1, <1>3, <1>5 DEF Accounted, Routed
<1>8. Probed(c)'
  <2>1. ASSUME NEW s \in Specialists, decision'[s][c] = "run", Reports(s, c)' = {}
        PROVE  Working(s)' \/ Due(s)'
    BY <1>1, <1>3, <1>4, <1>5, <2>1 DEF Accounted, Probed
  <2>2. QED
    BY <2>1 DEF Probed
<1>9. Gated(c)' /\ Turned(c)' /\ Reviewed(c)'
  BY <1>1, <1>3, <1>4, <1>5 DEF Accounted, Gated, Turned, Reviewed
<1>10. Ended(c)'
  BY DEF Ended
<1>11. Accounted(c)'
  BY <1>6, <1>7, <1>8, <1>9, <1>10 DEF Accounted
<1>12. QED
  BY <1>1, <1>5, <1>11 DEF Accounts

\* The work is given: its role has it from now on.
LEMMA CreatedKeeps ==
  ASSUME AccountInv, NEW t \in Tasks, NEW x \in todo[t], NEW r \in Roles,
         \/ x.do \in {"initial", "probe", "assign", "insert"} /\ x.to = r
         \/ x.do = "gate" /\ r = Reviewer,
         Added(r, x.round), UNCHANGED <<round, decision>>,
         r # Implementer => UNCHANGED pending, Reactivates,
         NEW w, Run(t, Rest(t, x)) \/ Pause(t, Rest(t, x)) \/ Drain(t, w, Rest(t, x))
  PROVE  Accounts' /\ AllOrderly'
<1>1. PICK c \in Rounds : c = round /\ Accounted(c)
  BY AccountFacts
<1>2. x.round \in Rounds /\ workflow # "connecting" /\ OnceInv /\ TypeOK
  BY TakenStep, AccountFacts, StartedUp
<1>3. PICK n \in Rounds : n = x.round /\ Added(r, n)
  BY <1>2
<1>4. /\ SameJudgement(c)
      /\ Reviews(c)' = Reviews(c) \cup (IF r = Reviewer /\ c = n THEN {Len(asg[Reviewer]) + 1} ELSE {})
  BY <1>2, <1>3, AddedJudgement
<1>5. r = Reviewer => n = c
  BY <1>1, <1>3 DEF Added
<1>6. Working(r)' /\ \A u \in Roles \ {r} : Working(u)' = Working(u)
  BY <1>2, <1>3, CreatedRow DEF Added
<1>7. /\ Judged(c)' = Judged(c) /\ Implemented(c)' = Implemented(c)
      /\ Verdict(c, "approved")' = Verdict(c, "approved")
      /\ Verdict(c, "changes_requested")' = Verdict(c, "changes_requested")
      /\ \A s \in Specialists : (Reports(s, c)' = {}) = (Reports(s, c) = {})
  BY <1>4 DEF SameJudgement
<1>8. Implementer \in Roles /\ Implementer # Reviewer /\ Specialists \subseteq Roles
      /\ Reviewer \in Roles
  BY OnceFacts, AccountFacts
<1>9. /\ \A s \in Roles \ {r} : Due(s) => Due(s)'
      /\ \A q : Routing(q) => Routing(q)'
      /\ r # Reviewer => \A q : Asked(q) => Asked(q)'
      /\ Turning => Turning'
      /\ Ending => Ending'
      /\ AllOrderly'
  BY InsertedHands
<1>10. Built(c)'
  <2>1. CASE r = Implementer
    BY <1>6, <2>1 DEF Built
  <2>2. CASE r # Implementer
    BY <1>1, <1>2, <1>6, <1>7, <1>8, <1>9, <2>2 DEF Accounted, Built
  <2>3. QED
    BY <2>1, <2>2
<1>11. Undecided(c)' = Undecided(c)
  BY DEF Undecided
<1>12. Routed(c)'
  BY <1>1, <1>7, <1>9, <1>11 DEF Accounted, Routed
<1>13. Probed(c)'
  <2>1. ASSUME NEW s \in Specialists, decision'[s][c] = "run", Reports(s, c)' = {}
        PROVE  Working(s)' \/ Due(s)'
    <3>1. Working(s) \/ Due(s)
      BY <1>1, <1>7, <2>1 DEF Accounted, Probed
    <3>2. QED
      BY <1>6, <1>8, <1>9, <3>1
  <2>2. QED
    BY <2>1 DEF Probed
<1>14. Gated(c)'
  <2>1. CASE r = Reviewer
    <3>1. Reviews(c)' # {}
      BY <1>4, <1>5, <2>1
    <3>2. ~GateOpen(c)'
      BY <3>1 DEF GateOpen, Reviews
    <3>3. QED
      BY <3>2 DEF Gated
  <2>2. CASE r # Reviewer
    <3>1. GateOpen(c)' => GateOpen(c)
      <4>1. ASSUME GateOpen(c)'
            PROVE  GateOpen(c)
        <5>1. Implemented(c) /\ EvidenceComplete(c)
          BY <1>7, <4>1 DEF GateOpen, EvidenceComplete
        <5>2. Reviews(c) = {}
          BY <1>4, <2>2, <4>1 DEF GateOpen, Reviews
        <5>3. QED
          BY <5>1, <5>2 DEF GateOpen, Reviews
      <4>2. QED
        BY <4>1
    <3>2. QED
      BY <1>1, <1>9, <2>2, <3>1 DEF Accounted, Gated
  <2>3. QED
    BY <2>1, <2>2
<1>15. Reviewed(c)'
  <2>1. CASE r = Reviewer
    BY <1>6, <2>1 DEF Reviewed
  <2>2. CASE r # Reviewer
    BY <1>1, <1>4, <1>6, <1>7, <1>8, <2>2 DEF Accounted, Reviewed
  <2>3. QED
    BY <2>1, <2>2
<1>16. Turned(c)'
  BY <1>1, <1>7, <1>9 DEF Accounted, Turned
<1>17. Ended(c)'
  BY <1>1, <1>7, <1>9 DEF Accounted, Ended, Reactivates
<1>18. Accounted(c)'
  BY <1>10, <1>12, <1>13, <1>14, <1>15, <1>16, <1>17 DEF Accounted
<1>19. QED
  BY <1>1, <1>9, <1>18 DEF Accounts

LEMMA SamePlans ==
  ASSUME PlansPhased, Kept
  PROVE  PlansPhased'
<1>1. Implementer \in Roles
  BY DEF Roles
<1>2. QED
  BY <1>1 DEF PlansPhased, Kept, Ids

LEMMA InsertAccounts ==
  ASSUME AccountInv, NEW t \in Tasks, NEW x \in todo[t], NEW r \in Roles,
         \/ x.do \in {"initial", "probe", "assign", "insert"} /\ x.to = r
         \/ x.do = "gate" /\ r = Reviewer,
         r = Reviewer => x.round = round /\ Ripe(round) /\ ~Judged(round),
         Insert(t, r, x.round, Rest(t, x)), UNCHANGED <<round, decision>>
  PROVE  Accounts' /\ AllOrderly' /\ PlansPhased'
<1>1. OnceInv /\ VerdictInv /\ PlansPhased
  BY AccountFacts DEF AccountInv
<1>2. Implementer \in Roles /\ Implementer # Reviewer /\ Specialists \subseteq Roles
      /\ Reviewer \notin Specialists /\ Implementer \notin Specialists
  BY <1>1, OnceFacts
<1>3. CASE RepairLimitReached(r, x.round)
  <2>1. /\ r = Implementer /\ Pause(t, Rest(t, x)) /\ UNCHANGED <<asg, active>>
        /\ workflow' = "needs_attention" /\ pending' = x.round
    BY <1>3 DEF Insert, RepairLimitReached
  <2>2. x.do \in {"initial", "probe", "assign", "insert"} /\ x.to = Implementer
    BY <1>2, <2>1
  <2>3. QED
    BY <1>1, <2>1, <2>2, HeldKeeps, SameKept, SamePlans
<1>4. CASE ~RepairLimitReached(r, x.round)
  <2>1. x.round <= round /\ x.round \in Rounds /\ Alive(r)
    BY <1>1, TakenStep, StartedUp
  <2>2. PICK kind : kind = KindFor(t, r)
    OBVIOUS
  <2>3. /\ Create(r, x.round, kind)
        /\ Drain(t, r, Rest(t, x))
        /\ workflow' = IF SettlesRepair(r, x.round) THEN Published("active") ELSE workflow
        /\ pending' = IF SettlesRepair(r, x.round) THEN 0 ELSE pending
    BY <1>4, <2>1, <2>2 DEF Insert
  <2>4. /\ kind \in {"plan", "implementation", "review", "evidence"}
        /\ kind = "review" <=> r = Reviewer
        /\ kind = "plan" => Phased
    BY <1>2, <2>2 DEF KindFor
  <2>5. Added(r, x.round)
    BY <1>2, <2>1, <2>3, <2>4 DEF Added
  <2>6. Reactivates
    <3>1. CASE SettlesRepair(r, x.round)
      <4>1. ~Implemented(round)
        BY <1>1, <3>1 DEF SettlesRepair, OnceInv, Parked
      <4>2. ~Judged(round)
        BY <1>1, <4>1, JudgedCalm
      <4>3. QED
        BY <4>2 DEF Reactivates, Judged, Verdict
    <3>2. CASE ~SettlesRepair(r, x.round)
      BY <2>3, <3>2, SameWorkflow
    <3>3. QED
      BY <3>1, <3>2
  <2>7. r # Implementer => UNCHANGED pending
    BY <2>3 DEF SettlesRepair
  <2>8. Accounts' /\ AllOrderly'
    BY <2>3, <2>5, <2>6, <2>7, CreatedKeeps
  <2>9. PlansPhased'
    <3>1. /\ Ids(r)' = Ids(r) \cup {Len(asg[r]) + 1}
          /\ asg'[r][Len(asg[r]) + 1] = New(x.round, kind)
          /\ \A i \in Ids(r) : asg'[r][i] = asg[r][i]
          /\ \A u \in Roles \ {r} : Ids(u)' = Ids(u) /\ asg'[u] = asg[u]
      BY <1>1, <2>3, CreatedRow
    <3>2. New(x.round, kind).kind = kind
      BY DEF New
    <3>3. QED
      BY <1>1, <1>2, <2>4, <3>1, <3>2 DEF PlansPhased
  <2>10. QED
    BY <2>8, <2>9
<1>5. QED
  BY <1>3, <1>4

\* assign(): the capsule of an assignment goes out before the row is inserted.
LEMMA AssignAccounts ==
  ASSUME AccountInv, NEW t \in Tasks, NEW x \in todo[t], NEW r \in Roles,
         \/ x.do \in {"initial", "probe", "assign"} /\ x.to = r
         \/ x.do = "gate" /\ r = Reviewer,
         r = Reviewer => x.round = round /\ Ripe(round) /\ ~Judged(round),
         Assign(t, r, x.round, Rest(t, x)), UNCHANGED <<round, decision>>
  PROVE  Accounts' /\ AllOrderly' /\ PlansPhased'
<1>1. Known(r) /\ Alive(r) /\ PlansPhased /\ Orderly(todo[t])
  BY StartedUp DEF AccountInv, AllOrderly
<1>2. CASE r \notin owed \cup Retained
  BY <1>1, <1>2, InsertAccounts DEF Assign
<1>3. CASE r \in owed \cup Retained
  <2> DEFINE i == Step("insert", r, x.round)
  <2>1. /\ Drain(t, r, Rest(t, x) \cup {i})
        /\ UNCHANGED <<workflow, pending, asg, active>>
    BY <1>1, <1>3 DEF Assign
  <2>2. i.do = "insert" /\ i.to = r /\ i.round = x.round
    BY DEF Step
  <2> HIDE DEF i
  <2>3. Orderly(Rest(t, x) \cup {i})
    BY <1>1, <2>2 DEF Orderly, Rest
  <2>4. Passes(x, Rest(t, x) \cup {i})
    BY <2>2 DEF Passes, Giving, Gating, Fetch
  <2>5. Kept /\ Reactivates
    BY <2>1, SameKept, SameWorkflow
  <2>6. Rest(t, x) \subseteq Rest(t, x) \cup {i}
    OBVIOUS
  <2>7. PICK S : S = Rest(t, x) \cup {i}
    OBVIOUS
  <2>8. Accounts' /\ AllOrderly'
    BY <2>1, <2>3, <2>4, <2>5, <2>6, <2>7, TakenKeeps
  <2>9. QED
    BY <1>1, <2>5, <2>8, SamePlans
<1>4. QED
  BY <1>2, <1>3

LEMMA DeliveryAccounts ==
  ASSUME AccountInv, NEW t \in Tasks,
         \/ \E x \in todo[t] : Assignments(t, x) \/ Gate(t, x)
         \/ Drained(t) \/ DrainFails(t)
  PROVE  Accounts' /\ AllOrderly' /\ PlansPhased'
<1>1. OnceInv /\ VerdictInv /\ TypeOK /\ PlansPhased
  BY AccountFacts DEF AccountInv
<1>2. ASSUME NEW x \in todo[t], Assignments(t, x)
      PROVE  Accounts' /\ AllOrderly' /\ PlansPhased'
  <2>1. /\ Sound(t, todo[t], waits[t]) /\ x.to \in Roles /\ x.round \in Rounds
        /\ UNCHANGED <<round, decision>>
    BY <1>1, <1>2, TakenStep DEF Assignments
  <2>2. PICK r : r = x.to
    OBVIOUS
  <2>3. CASE x.do \in {"initial", "probe", "assign"} /\ Assign(t, x.to, x.round, Rest(t, x))
    <3>1. r # Reviewer
      BY <1>1, <2>2, <2>3, TypeFacts DEF EvidenceInv, ReviewQueue
    <3>2. QED
      BY <2>1, <2>2, <2>3, <3>1, AssignAccounts
  <2>4. CASE x.do = "insert" /\ Insert(t, x.to, x.round, Rest(t, x))
    <3>1. r = Reviewer => x.round = round /\ Ripe(round) /\ ~Judged(round)
      BY <2>1, <2>2, <2>4 DEF Sound
    <3>2. QED
      BY <2>1, <2>2, <2>4, <3>1, InsertAccounts
  <2>5. QED
    BY <1>2, <2>3, <2>4 DEF Assignments, Takes
<1>3. ASSUME NEW x \in todo[t], Gate(t, x)
      PROVE  Accounts' /\ AllOrderly' /\ PlansPhased'
  <2>1. /\ x.round \in Rounds /\ x.round <= round /\ x.do = "gate"
        /\ UNCHANGED <<round, decision>> /\ Reviewer \in Roles
    BY <1>1, <1>3, TakenStep, TypeFacts DEF Gate, Takes
  <2>2. CASE GateOpen(x.round) /\ Assign(t, Reviewer, x.round, Rest(t, x))
    <3>1. x.round = round /\ Ripe(round) /\ ~Judged(round)
      BY <1>1, <2>1, <2>2, GateCurrent
    <3>2. PICK r \in Roles : r = Reviewer
      BY <2>1
    <3>3. QED
      BY <2>1, <2>2, <3>1, <3>2, AssignAccounts
  <2>3. CASE /\ ~GateOpen(x.round) /\ Run(t, Rest(t, x))
             /\ UNCHANGED <<workflow, pending, asg, active>>
    BY <1>1, <2>1, <2>3, RestKeeps, SameKept, SameWorkflow, SamePlans
  <2>4. QED
    BY <1>3, <2>2, <2>3 DEF Gate
<1>4. CASE Drained(t)
  <2>1. /\ Run(t, {}) /\ todo[t] = {} /\ UNCHANGED <<asg, active, round, pending, decision, workflow>>
    BY <1>4 DEF Drained, durable
  <2>2. Orderly({})
    BY DEF Orderly
  <2>3. QED
    BY <1>1, <2>1, <2>2, StepKeeps, SameKept, SameWorkflow, SamePlans
<1>5. CASE DrainFails(t)
  <2>1. waits[t] \in Roles /\ conn[waits[t]] # "up"
    BY <1>5 DEF DrainFails, Alive
  <2>2. FALSE
    BY <2>1 DEF AccountInv, AllUp
  <2>3. QED
    BY <2>2
<1>6. QED
  BY <1>2, <1>3, <1>4, <1>5

\* The round that opens has nothing yet, and its implementer's work is in hand.
LEMMA OpeningAccounts ==
  ASSUME AccountInv, Opening, round' \in Rounds
  PROVE  Accounts' /\ AllOrderly' /\ PlansPhased'
<1>1. OnceInv /\ VerdictInv /\ TypeOK /\ AllOrderly /\ PlansPhased /\ round \in Nat /\ round >= 1
  BY AccountFacts, OnceFacts DEF AccountInv, Rounds
<1>2. PICK c \in Rounds : c = round'
  OBVIOUS
<1>3. c = round + 1 /\ c > round /\ c > 1 /\ UNCHANGED <<asg, active, decision, pending>>
  BY <1>1, <1>2 DEF Opening
<1>4. PICK t \in Tasks : /\ todo'[t] = {Step("assign", Implementer, c)}
                         /\ \A u \in Tasks \ {t} : todo'[u] = todo[u]
  BY <1>2 DEF Opening
<1>5. \A r \in Roles : \A i \in Ids(r) : asg[r][i].round # c
  <2>1. ASSUME NEW r \in Roles, NEW i \in Ids(r)
        PROVE  asg[r][i].round # c
    <3>1. asg[r][i].round \in Rounds /\ asg[r][i].round <= round
      BY <1>1, RowRound DEF VerdictInv, RowsBehind
    <3>2. QED
      BY <1>1, <1>3, <3>1 DEF Rounds
  <2>2. QED
    BY <2>1
<1>6. Implementer \in Roles /\ Reviewer \in Roles
  BY <1>1, OnceFacts
<1>7. ~Implemented(c) /\ Reviews(c) = {}
  BY <1>5, <1>6 DEF Implemented, Reports, Reviews
<1>8. \A s \in Specialists : decision[s][c] = "none"
  BY <1>1, <1>3, <1>7 DEF OnceInv, Later
<1>9. ~Implemented(c)' /\ Reviews(c)' = {} /\ \A s \in Specialists : decision'[s][c] = "none"
  BY <1>3, <1>7, <1>8 DEF Implemented, Reports, Reviews, Ids
<1>10. ~Verdict(c, "approved")' /\ ~Verdict(c, "changes_requested")' /\ ~GateOpen(c)'
  BY <1>9 DEF Verdict, GateOpen
<1>11. Due(Implementer)'
  <2>1. PICK y : y = Step("assign", Implementer, c)
    OBVIOUS
  <2>2. y \in todo'[t] /\ y.do = "assign" /\ y.to = Implementer
    BY <1>4, <2>1 DEF Step
  <2>3. QED
    BY <2>2 DEF Due, Giving
<1>12. Accounted(c)'
  BY <1>9, <1>10, <1>11 DEF Accounted, Built, Routed, Probed, Gated, Reviewed, Turned, Ended
<1>13. Accounts'
  BY <1>2, <1>12 DEF Accounts
<1>14. Orderly({Step("assign", Implementer, c)})
  BY DEF Orderly, Step
<1>15. \A u \in Tasks : Orderly(todo'[u])
  BY <1>1, <1>4, <1>14 DEF AllOrderly
<1>16. AllOrderly'
  BY <1>15 DEF AllOrderly, Orderly
<1>17. QED
  BY <1>1, <1>3, <1>13, <1>16, SameKept, SamePlans

LEMMA DecideAccounts ==
  ASSUME AccountInv, NEW t \in Tasks, NEW x \in todo[t], DecideProbe(t, x)
  PROVE  Accounts' /\ AllOrderly' /\ PlansPhased'
<1>1. /\ OnceInv /\ TypeOK /\ AllOrderly /\ PlansPhased /\ Orderly(todo[t])
  BY AccountFacts DEF AccountInv, AllOrderly
<1>2. x.do = "decide" /\ UNCHANGED <<workflow, round, pending, asg, active>> /\ Kept
  BY SameKept DEF DecideProbe, Takes
<1>3. PICK p : p = Step("probe", Probe, 1)
  OBVIOUS
<1>4. p.do = "probe" /\ p.to = Probe
  BY <1>3 DEF Step
<1>5. ASSUME NEW S, S = Rest(t, x) \/ S = Rest(t, x) \cup {p}
      PROVE  Orderly(S) /\ Passes(x, S) /\ Rest(t, x) \subseteq S
  BY <1>1, <1>2, <1>4, <1>5 DEF Orderly, Rest, Passes, Giving, Gating, Fetch
<1>6. CASE Probe \notin Specialists
  <2>1. Pause(t, Rest(t, x)) /\ UNCHANGED decision
    BY <1>6 DEF DecideProbe
  <2>2. QED
    BY <1>1, <1>2, <1>5, <2>1, TakenKeeps, SameWorkflow, SamePlans
<1>7. CASE Probe \in Specialists
  <2>1. PICK d \in {"run", "skipped"} :
          /\ decision' = [decision EXCEPT ![Probe][1] = d]
          /\ Pause(t, Rest(t, x) \cup IF d = "run" THEN {p} ELSE {})
    BY <1>3, <1>7 DEF DecideProbe, Choices
  <2>2. PICK S : /\ S = Rest(t, x) \/ S = Rest(t, x) \cup {p}
                 /\ Pause(t, S)
                 /\ d = "run" => p \in S
    BY <2>1
  <2>3. Fresh
    BY <1>1, <1>2 DEF OnceInv, AllProper, Proper, Opens
  <2>4. PICK c \in Rounds : c = 1 /\ round = c /\ Accounted(c)
    BY <2>3, AccountFacts DEF Fresh
  <2>5. \A r \in Roles : Ids(r) = {} /\ ~Working(r)
    BY <1>1, <2>3, FreshRows
  <2>6. Implementer \in Roles /\ Reviewer \in Roles /\ Implementer # Reviewer /\ workflow # "connecting"
    BY <1>1, OnceFacts, StartedUp
  <2>7. /\ ~Implemented(c) /\ ~Implemented(c)' /\ Reviews(c)' = {} /\ ~Working(Implementer)
    BY <1>2, <2>5, <2>6 DEF Implemented, Reports, Reviews, Ids
  <2>8. ~Verdict(c, "approved")' /\ ~Verdict(c, "changes_requested")' /\ ~GateOpen(c)'
    BY <2>7 DEF Verdict, GateOpen
  <2>9. todo'[t] = S /\ HandsPass
    <3>1. \A y \in todo[t] : y \in S \/ Passes(y, S)
      BY <1>5, <2>2 DEF Rest
    <3>2. QED
      BY <1>1, <2>2, <3>1, TodoIs, LeftPasses
  <2>10. Built(c)'
    BY <1>2, <2>4, <2>6, <2>7, <2>9, HandsStay DEF Accounted, Built
  <2>11. ASSUME NEW s \in Specialists, decision'[s][c] = "run"
         PROVE  Due(s)'
    <3>1. decision[s][c] = "none"
      BY <2>3, <2>4 DEF Fresh
    <3>2. s = Probe /\ d = "run"
      BY <1>1, <1>7, <2>1, <2>4, <2>11, <3>1 DEF TypeOK
    <3>3. QED
      BY <1>4, <2>2, <2>9, <3>2 DEF Due, Giving
  <2>12. Probed(c)'
    BY <2>11 DEF Probed
  <2>13. Accounted(c)'
    BY <2>7, <2>8, <2>10, <2>12 DEF Accounted, Routed, Gated, Reviewed, Turned, Ended
  <2>14. Accounts'
    BY <1>2, <2>4, <2>13 DEF Accounts
  <2>15. AllOrderly'
    BY <1>1, <1>5, <2>2, OrderlyMove
  <2>16. QED
    BY <1>1, <1>2, <2>14, <2>15, SamePlans
<1>8. QED
  BY <1>6, <1>7

\* Every specialist without a decision gets one, and those that run are in hand.
LEMMA ImplementedAccounts ==
  ASSUME AccountInv, NEW t \in Tasks, NEW x \in todo[t], RouteImplementation(t, x)
  PROVE  Accounts' /\ AllOrderly' /\ PlansPhased'
<1>1. /\ OnceInv /\ TypeOK /\ AllOrderly /\ PlansPhased /\ Orderly(todo[t]) /\ x.round \in Rounds
  BY AccountFacts, TakenStep DEF AccountInv, AllOrderly
<1>2. x.do = "implemented" /\ UNCHANGED <<workflow, round, pending, asg, active>> /\ Kept
  BY SameKept DEF RouteImplementation, Takes
<1>3. todo[t] = {x}
  BY <1>1, <1>2 DEF Orderly
<1>4. PICK q \in Rounds : q = x.round
  BY <1>1
<1>5. PICK c \in Rounds : c = round /\ Accounted(c)
  BY AccountFacts
<1>6. PICK run \in SUBSET Undecided(x.round) :
        /\ decision' = [s \in Specialists |->
                         IF s \in Undecided(x.round)
                         THEN [decision[s] EXCEPT ![x.round] = IF s \in run THEN "run" ELSE "skipped"]
                         ELSE decision[s]]
        /\ Run(t, {Step("inform", s, x.round) : s \in run \cup {Reviewer}} \cup
                  {Step("assign", s, x.round) : s \in run} \cup {Step("gate", Reviewer, x.round)})
  BY Zenon DEF RouteImplementation
<1>7. PICK S : S = {Step("inform", s, x.round) : s \in run \cup {Reviewer}} \cup
                   {Step("assign", s, x.round) : s \in run} \cup {Step("gate", Reviewer, x.round)}
  OBVIOUS
<1>8. /\ \A y \in S : y.do \in {"inform", "assign", "gate"}
      /\ \A s \in run : \E y \in S : y.do = "assign" /\ y.to = s
      /\ \E y \in S : y.do = "gate" /\ y.round = q
  <2>1. \A s \in run : Step("assign", s, x.round) \in S
    BY <1>7
  <2>2. \A s \in run : Step("assign", s, x.round).do = "assign" /\ Step("assign", s, x.round).to = s
    BY DEF Step
  <2>3. \A y \in S : y.do \in {"inform", "assign", "gate"}
    BY <1>7 DEF Step
  <2>4. PICK y : y = Step("gate", Reviewer, x.round)
    OBVIOUS
  <2>5. y \in S /\ y.do = "gate" /\ y.round = q
    BY <1>4, <1>7, <2>4 DEF Step
  <2>6. QED
    BY <2>1, <2>2, <2>3, <2>5
<1>9. \A u \in Tasks : todo'[u] = IF u = t THEN S ELSE todo[u]
  BY <1>1, <1>6, <1>7, TodoIs
<1>10. Orderly(S)
  BY <1>8 DEF Orderly
<1>11. AllOrderly'
  BY <1>1, <1>6, <1>7, <1>10, OrderlyMove
<1>12. ASSUME NEW r, Due(r)
       PROVE  Due(r)'
  <2>1. PICK u \in Tasks : \E y \in todo[u] : Giving(y) /\ y.to = r
    BY <1>12 DEF Due
  <2>2. \E y \in todo'[u] : Giving(y) /\ y.to = r
    BY <1>2, <1>3, <1>9, <2>1 DEF Giving
  <2>3. QED
    BY <2>2 DEF Due, Giving
<1>13. \A s \in run : Due(s)'
  <2>1. ASSUME NEW s \in run
        PROVE  Due(s)'
    <3>1. PICK y \in S : y.do = "assign" /\ y.to = s
      BY <1>8
    <3>2. y \in todo'[t]
      BY <1>9, <3>1
    <3>3. QED
      BY <3>1, <3>2 DEF Due, Giving
  <2>2. QED
    BY <2>1
<1>14. Routing(c) => q = c \/ Routing(c)'
  BY <1>3, <1>4, <1>9 DEF Routing
<1>15. q = c => Asked(c)'
  <2>1. PICK y \in S : y.do = "gate" /\ y.round = q
    BY <1>8
  <2>2. y \in todo'[t]
    BY <1>9, <2>1
  <2>3. QED
    BY <2>1, <2>2 DEF Asked, Gating
<1>16. Asked(c) => Asked(c)'
  <2>1. ASSUME Asked(c), q # c
        PROVE  Asked(c)'
    <3>1. PICK u \in Tasks : \E y \in todo[u] : Gating(y) /\ y.round = c
      BY <2>1 DEF Asked
    <3>2. \E y \in todo'[u] : Gating(y) /\ y.round = c
      BY <1>3, <1>4, <1>9, <2>1, <3>1
    <3>3. QED
      BY <3>2 DEF Asked, Gating, Fetch
  <2>2. QED
    BY <1>15, <2>1
<1>17. (Turning => Turning') /\ (Ending => Ending')
  <2>1. \A u \in Tasks : \A y \in todo[u] : y.do # "implemented" => y \in todo'[u]
    BY <1>2, <1>3, <1>9
  <2>2. QED
    BY <2>1 DEF Turning, Ending
<1>18. \A s \in Specialists :
         /\ c # q => decision'[s][c] = decision[s][c]
         /\ s \notin Undecided(q) => decision'[s][c] = decision[s][c]
         /\ s \in Undecided(q) /\ c = q => decision'[s][c] = IF s \in run THEN "run" ELSE "skipped"
  BY <1>1, <1>4, <1>6 DEF TypeOK
<1>19. SameJudgement(c) /\ Reviews(c)' = Reviews(c)
  BY <1>1, <1>2, KeptJudgement
<1>20. /\ Judged(c)' = Judged(c) /\ Implemented(c)' = Implemented(c)
       /\ Verdict(c, "approved")' = Verdict(c, "approved")
       /\ Verdict(c, "changes_requested")' = Verdict(c, "changes_requested")
       /\ \A s \in Specialists : (Reports(s, c)' = {}) = (Reports(s, c) = {})
       /\ \A r \in Roles : Working(r)' = Working(r)
  BY <1>2, <1>19 DEF SameJudgement, Working
<1>21. Implementer \in Roles /\ Reviewer \in Roles /\ Specialists \subseteq Roles
  BY <1>1, OnceFacts
<1>22. Built(c)' /\ Reviewed(c)' /\ Turned(c)' /\ Ended(c)'
  BY <1>2, <1>5, <1>12, <1>17, <1>19, <1>20, <1>21 DEF Accounted, Built, Reviewed, Turned, Ended
<1>23. Routed(c)'
  <2>1. CASE q = c
    <3>1. Undecided(c)' = {}
      BY <1>18, <2>1 DEF Undecided
    <3>2. QED
      BY <3>1 DEF Routed
  <2>2. CASE q # c
    <3>1. Undecided(c)' = Undecided(c)
      BY <1>18, <2>2 DEF Undecided
    <3>2. QED
      BY <1>5, <1>14, <1>20, <2>2, <3>1 DEF Accounted, Routed
  <2>3. QED
    BY <2>1, <2>2
<1>24. Probed(c)'
  <2>1. ASSUME NEW s \in Specialists, decision'[s][c] = "run", Reports(s, c)' = {}
        PROVE  Working(s)' \/ Due(s)'
    <3>1. CASE s \in run
      BY <1>13, <3>1
    <3>2. CASE s \notin run
      <4>1. decision[s][c] = "run"
        BY <1>18, <2>1, <3>2
      <4>2. Working(s) \/ Due(s)
        BY <1>5, <1>20, <2>1, <4>1 DEF Accounted, Probed
      <4>3. QED
        BY <1>12, <1>20, <1>21, <4>2
    <3>3. QED
      BY <3>1, <3>2
  <2>2. QED
    BY <2>1 DEF Probed
<1>25. Gated(c)'
  <2>1. CASE q = c
    BY <1>15, <2>1 DEF Gated
  <2>2. CASE q # c
    <3>1. ASSUME GateOpen(c)'
          PROVE  GateOpen(c)
      <4>1. Implemented(c) /\ EvidenceComplete(c)
        BY <1>18, <1>20, <2>2, <3>1 DEF GateOpen, EvidenceComplete
      <4>2. Reviews(c)' = {}
        BY <3>1 DEF GateOpen, Reviews
      <4>3. QED
        BY <1>19, <4>1, <4>2 DEF GateOpen, Reviews
    <3>2. QED
      BY <1>5, <1>16, <3>1 DEF Accounted, Gated
  <2>3. QED
    BY <2>1, <2>2
<1>26. Accounted(c)'
  BY <1>22, <1>23, <1>24, <1>25 DEF Accounted
<1>27. Accounts'
  BY <1>2, <1>5, <1>26 DEF Accounts
<1>28. QED
  BY <1>1, <1>2, <1>11, <1>27, SamePlans

\* Nothing in hand moves, and the tables say nothing new.
LEMMA StillKeeps ==
  ASSUME AccountInv, Kept, UNCHANGED <<todo, round, pending, decision>>,
         workflow = "connecting" => workflow' = "connecting", Reactivates
  PROVE  Accounts' /\ AllOrderly' /\ PlansPhased'
<1>1. HandsPass
  BY DEF HandsPass
<1>2. PICK c \in Rounds : c = round /\ SameParts(c)
  BY AccountFacts, KeptParts
<1>3. Accounts'
  BY <1>1, <1>2, PassingKeeps, AccountFacts DEF Reactivates
<1>4. AllOrderly'
  BY AccountFacts DEF AllOrderly, Orderly
<1>5. QED
  BY <1>3, <1>4, SamePlans DEF AccountInv

LEMMA UpStays ==
  ASSUME AccountInv, UNCHANGED conn, workflow = "connecting" <=> workflow' = "connecting",
         UNCHANGED waits \/ workflow # "connecting"
  PROVE  AllUp'
  BY DEF AccountInv, AllUp

LEMMA WorkingStarted ==
  ASSUME AccountInv, NEW r \in Roles, Working(r)
  PROVE  workflow # "connecting" /\ active[r] \in Ids(r) /\ asg[r][active[r]].state # "completed"
<1>1. OnceInv
  BY AccountFacts
<1>2. QED
  BY <1>1, FreshRows, OpenRow DEF OnceInv, Unstarted

LEMMA MessagesAccounts ==
  ASSUME AccountInv, NEW r \in Roles,
         \/ Ack(r) \/ AckUncertain(r)
         \/ Remind(r) \/ RecoveryTurn(r) \/ RaiseAttention(r) \/ DenyTurn(r)
         \/ \E s \in {"idle", "active"} : Lifecycle(r, s)
  PROVE  Accounts' /\ AllOrderly' /\ PlansPhased' /\ AllUp'
<1>1. UNCHANGED <<active, decision, round, pending, todo, waits, conn>>
  BY DEF Ack, AckUncertain, Remind, RecoveryTurn, RaiseAttention, DenyTurn, Lifecycle, memory
<1>2. CASE Working(r)
  <2>1. workflow # "connecting" /\ active[r] \in Ids(r) /\ asg[r][active[r]].state # "completed" /\ TypeOK
    BY <1>2, WorkingStarted, AccountFacts
  <2>2. \/ \E st \in {"accepted", "uncertain"} : asg' = [asg EXCEPT ![r][active[r]].state = st]
        \/ \E owes \in {"reminder", "retry", "attention"} : asg' = [asg EXCEPT ![r][active[r]].owes = owes]
        \/ UNCHANGED asg
    BY DEF Ack, AckUncertain, Remind, RecoveryTurn, RaiseAttention, DenyTurn, Await, Lifecycle
  <2>3. Kept
    BY <1>1, <2>1, <2>2, StateKept, OwesKept, SameKept
  <2>4. workflow' # "connecting"
    BY <2>1 DEF Ack, AckUncertain, Remind, RecoveryTurn, RaiseAttention, DenyTurn, Await, Lifecycle
  <2>5. Reactivates
    BY <1>2, WorkingUndecided DEF Reactivates
  <2>6. QED
    BY <1>1, <2>1, <2>3, <2>4, <2>5, StillKeeps, UpStays
<1>3. CASE ~Working(r)
  <2>1. UNCHANGED <<asg, workflow>>
    BY <1>3 DEF Ack, AckUncertain, Remind, RecoveryTurn, RaiseAttention, DenyTurn, Lifecycle
  <2>2. QED
    BY <1>1, <2>1, SameKept, SameWorkflow, StillKeeps, UpStays
<1>4. QED
  BY <1>2, <1>3

\* The step x by which role r's report, with verdict v, is routed.
RoutedBy(r, v, x) ==
  /\ Pause(r, {x}) /\ x.to = r /\ x.round = round
  /\ r \in Specialists => x.do = "evidence"
  /\ r = Reviewer => x.do = IF v = "approved" THEN "approved" ELSE "rejected"
  /\ r = Implementer => \/ x.do = "implemented" /\ Current(r).kind = "implementation"
                        \/ x.do = "planned" /\ Current(r).kind = "plan" /\ Phased

LEMMA ReportedStep ==
  ASSUME AccountInv, NEW r \in Roles, NEW v \in {"none", "approved", "changes_requested"},
         Report(r, v)
  PROVE  /\ active[r] \in Ids(r) /\ Current(r) = asg[r][active[r]] /\ ReportedRow(r, v)
         /\ Current(r).round = round
         /\ r = Reviewer => v \in {"approved", "changes_requested"}
         /\ \E x : RoutedBy(r, v, x)
<1> DEFINE n == active[r]
<1>1. /\ Working(r) /\ OnceInv /\ VerdictInv /\ TypeOK /\ PlansPhased
      /\ Current(r).kind = "review" <=> v # "none"
  BY AccountFacts DEF Report, AccountInv
<1>2. /\ n \in Ids(r) /\ Current(r) = asg[r][n] /\ ReportedRow(r, v) /\ asg[r][n] \in Assignment
      /\ asg[r][n].state # "completed"
  BY <1>1, ReportRows, CurrentRow, OpenRow
<1>3. PICK q \in Rounds : /\ q = Current(r).round /\ q <= round
                          /\ r = Reviewer => v \in {"approved", "changes_requested"} /\ q = round
  BY <1>1, ReportQueues
<1>4. q = round
  BY <1>1, <1>3, WorkedRound, PastRipe
<1>5. /\ Current(r).kind = "evidence" <=> r \in Specialists
      /\ Current(r).kind = "review" <=> r = Reviewer
      /\ Current(r).kind \in {"plan", "implementation", "review", "evidence"}
      /\ r = Implementer /\ Current(r).kind = "plan" => Phased
  BY <1>1, <1>2 DEF OnceInv, RoleKinds, VerdictInv, OwnKinds, Assignment, PlansPhased
<1> DEFINE route == CASE Current(r).kind = "evidence"       -> "evidence"
                      [] Current(r).kind = "plan"           -> "planned"
                      [] Current(r).kind = "implementation" -> "implemented"
                      [] v = "approved"                     -> "approved"
                      [] OTHER                              -> "rejected"
<1>6. Pause(r, {Step(route, r, Current(r).round)})
  BY DEF Report
<1>7. /\ Current(r).kind = "evidence" => route = "evidence"
      /\ Current(r).kind = "plan" => route = "planned"
      /\ Current(r).kind = "implementation" => route = "implemented"
      /\ Current(r).kind = "review" => route = IF v = "approved" THEN "approved" ELSE "rejected"
  <2>1. Current(r).kind # "review" => v = "none"
    BY <1>1, <1>2
  <2>2. Current(r).kind = "review" => route = IF v = "approved" THEN "approved" ELSE "rejected"
    BY <1>2
  <2>3. QED
    BY <1>2, <2>1, <2>2
<1>8. PICK x : x = Step(route, r, Current(r).round)
  OBVIOUS
<1>9. x.do = route /\ x.to = r /\ x.round = round
  BY <1>3, <1>4, <1>8 DEF Step
<1>10. PICK do : do = route
  OBVIOUS
<1> HIDE DEF route
<1>11. /\ r \in Specialists => x.do = "evidence"
       /\ r = Reviewer => x.do = IF v = "approved" THEN "approved" ELSE "rejected"
       /\ r = Implementer => \/ x.do = "implemented" /\ Current(r).kind = "implementation"
                             \/ x.do = "planned" /\ Current(r).kind = "plan" /\ Phased
  <2>1. r \in Specialists => x.do = "evidence"
    BY <1>5, <1>7, <1>9
  <2>2. r = Reviewer => x.do = IF v = "approved" THEN "approved" ELSE "rejected"
    BY <1>5, <1>7, <1>9
  <2>3. r = Implementer => Current(r).kind \in {"plan", "implementation"}
    BY <1>1, <1>5, OnceFacts
  <2>4. QED
    BY <1>5, <1>7, <1>9, <2>1, <2>2, <2>3
<1>12. RoutedBy(r, v, x)
  BY <1>6, <1>8, <1>9, <1>11 DEF RoutedBy
<1>13. QED
  BY <1>2, <1>3, <1>4, <1>12

\* A report finishes one part of the round, and its sender has the next in hand.
LEMMA ReportAccounts ==
  ASSUME AccountInv, NEW r \in Roles, NEW v \in {"none", "approved", "changes_requested"}, Report(r, v)
  PROVE  Accounts' /\ AllOrderly' /\ PlansPhased' /\ AllUp'
<1>1. PICK c \in Rounds : c = round /\ Accounted(c)
  BY AccountFacts
<1>2. PICK n : n = active[r]
  OBVIOUS
<1>3. /\ OnceInv /\ VerdictInv /\ TypeOK /\ AllOrderly /\ PlansPhased
      /\ UNCHANGED <<workflow, round, pending, decision, conn>>
      /\ todo[r] = {} /\ r \in Tasks /\ Working(r)
  BY AccountFacts, OnceFacts DEF AccountInv, Report, Reading, Idle
<1>4. /\ n \in Ids(r) /\ ReportedRow(r, v) /\ Current(r) = asg[r][n] /\ asg[r][n].round = c
      /\ r = Reviewer => v \in {"approved", "changes_requested"}
  BY <1>1, <1>2, ReportedStep
<1>5. PICK x : RoutedBy(r, v, x)
  BY ReportedStep
<1>6. /\ Pause(r, {x}) /\ x.to = r /\ x.round = c
      /\ r \in Specialists => x.do = "evidence"
      /\ r = Reviewer => x.do = IF v = "approved" THEN "approved" ELSE "rejected"
      /\ r = Implementer => \/ x.do = "implemented" /\ asg[r][n].kind = "implementation"
                            \/ x.do = "planned" /\ asg[r][n].kind = "plan" /\ Phased
  BY <1>1, <1>4, <1>5 DEF RoutedBy
<1>7. \A u \in Tasks : todo'[u] = IF u = r THEN {x} ELSE todo[u]
  BY <1>3, <1>6, TodoIs
<1>8. x \in todo'[r]
  BY <1>3, <1>7
<1>9. HandsPass
  BY <1>3, <1>7 DEF HandsPass
<1>10. /\ Implementer \in Roles /\ Implementer # Reviewer /\ Specialists \subseteq Roles /\ Reviewer \in Roles
      /\ Implementer \notin Specialists /\ Reviewer \notin Specialists
      /\ Roles = {Implementer, Reviewer} \cup Specialists
  BY <1>3, OnceFacts
<1>11. /\ \A u \in Roles : Ids(u)' = Ids(u)
       /\ \A u \in Roles \ {r} : asg'[u] = asg[u] /\ Working(u)' = Working(u)
       /\ \A i \in Ids(r) : /\ asg'[r][i].round = asg[r][i].round
                            /\ asg'[r][i].kind = asg[r][i].kind
                            /\ asg'[r][i].state = IF i = n THEN "completed" ELSE asg[r][i].state
  BY <1>2, <1>4 DEF ReportedRow, Ids, Working
<1>12. /\ \A u \in Roles : Reports(u, c) \subseteq Reports(u, c)'
       /\ \A u \in Roles \ {r} : Reports(u, c)' = Reports(u, c)
       /\ Implemented(c) => Implemented(c)'
       /\ r # Implementer => Implemented(c)' = Implemented(c)
       /\ n \in Reports(r, c)'
  <2>1. n \in Reports(r, c)'
    BY <1>4, <1>11 DEF Reports
  <2>2. QED
    BY <1>3, <1>4, <2>1, ReportGrows
<1>13. x.do = "implemented" /\ r = Implementer => Implemented(c)'
  BY <1>4, <1>6, <1>11, <1>12 DEF Implemented
<1>14. x.do = "planned" /\ r = Implementer => Implemented(c)' = Implemented(c)
  <2>1. ASSUME x.do = "planned", r = Implementer
        PROVE  Implemented(c)' = Implemented(c)
    <3>1. asg[r][n].kind # "implementation"
      BY <1>4, <1>6, <2>1
    <3>2. \A i \in Ids(r) : (asg'[r][i].round = c /\ asg'[r][i].state = "completed" /\ asg'[r][i].kind = "implementation")
                        <=> (asg[r][i].round = c /\ asg[r][i].state = "completed" /\ asg[r][i].kind = "implementation")
      BY <1>11, <3>1
    <3>3. QED
      BY <1>11, <2>1, <3>2 DEF Implemented, Reports
  <2>2. QED
    BY <2>1
<1>15. Undecided(c)' = Undecided(c)
  BY <1>3 DEF Undecided
<1>16. r # Reviewer => /\ Judged(c)' = Judged(c) /\ Reviews(c)' = Reviews(c)
                       /\ \A d \in {"approved", "changes_requested"} : Verdict(c, d)' = Verdict(c, d)
  BY <1>3, <1>4, OtherReport
<1>17. r = Reviewer => /\ Reviews(c)' # {} /\ Judged(c)'
                       /\ \A d \in {"approved", "changes_requested"} : Verdict(c, d)' <=> d = v
  <2>1. ASSUME r = Reviewer
        PROVE  /\ Reviews(c)' # {} /\ Judged(c)'
               /\ \A d \in {"approved", "changes_requested"} : Verdict(c, d)' <=> d = v
    <3>1. /\ Reviews(c)' = Reviews(c) /\ Reviews(c) # {}
          /\ \A d \in {"approved", "changes_requested"} : Verdict(c, d)' <=> d = v
      BY <1>1, <1>3, <1>4, <2>1, ReviewReport
    <3>2. Verdict(c, v)' /\ v # "none"
      BY <1>4, <2>1, <3>1
    <3>3. QED
      BY <3>1, <3>2 DEF Verdict, Judged
  <2>2. QED
    BY <2>1
<1>18. Built(c)'
  <2>1. CASE r = Implementer
    <3>1. x.do = "planned" => Due(Implementer)'
      BY <1>3, <1>6, <1>8, <2>1 DEF Due, Giving
    <3>2. QED
      BY <1>6, <1>13, <2>1, <3>1 DEF Built
  <2>2. CASE r # Implementer
    BY <1>1, <1>3, <1>9, <1>10, <1>11, <1>12, <2>2, HandsStay DEF Accounted, Built
  <2>3. QED
    BY <2>1, <2>2
<1>19. Routed(c)'
  <2>1. CASE r = Implementer /\ x.do = "implemented"
    <3>1. Routing(c)'
      BY <1>1, <1>3, <1>6, <1>8, <2>1 DEF Routing
    <3>2. QED
      BY <3>1 DEF Routed
  <2>2. CASE r # Implementer \/ x.do = "planned"
    BY <1>1, <1>9, <1>12, <1>14, <1>15, <2>2, HandsStay DEF Accounted, Routed
  <2>3. QED
    BY <1>6, <2>1, <2>2
<1>20. Probed(c)'
  <2>1. ASSUME NEW s \in Specialists, decision'[s][c] = "run", Reports(s, c)' = {}
        PROVE  Working(s)' \/ Due(s)'
    <3>1. s # r /\ Reports(s, c) = {}
      BY <1>10, <1>12, <2>1
    <3>2. Working(s) \/ Due(s)
      BY <1>1, <1>3, <2>1, <3>1 DEF Accounted, Probed
    <3>3. QED
      BY <1>9, <1>10, <1>11, <3>1, <3>2, HandsStay
  <2>2. QED
    BY <2>1 DEF Probed
<1>21. Gated(c)'
  <2>1. CASE r = Reviewer
    <3>1. ~GateOpen(c)'
      BY <1>17, <2>1 DEF GateOpen, Reviews
    <3>2. QED
      BY <3>1 DEF Gated
  <2>2. CASE x.do \in {"implemented", "evidence"}
    <3>1. Asked(c)'
      BY <1>1, <1>3, <1>6, <1>8, <2>2 DEF Asked, Gating
    <3>2. QED
      BY <3>1 DEF Gated
  <2>3. CASE r = Implementer /\ x.do = "planned"
    <3>1. GateOpen(c)' => GateOpen(c)
      <4>1. ASSUME GateOpen(c)'
            PROVE  GateOpen(c)
        <5>1. \A s \in Specialists : Reports(s, c)' = Reports(s, c)
          BY <1>10, <1>12, <2>3
        <5>2. Implemented(c) /\ EvidenceComplete(c)
          BY <1>3, <1>14, <2>3, <4>1, <5>1 DEF GateOpen, EvidenceComplete
        <5>3. Reviews(c) = {}
          BY <1>10, <1>16, <2>3, <4>1 DEF GateOpen, Reviews
        <5>4. QED
          BY <5>2, <5>3 DEF GateOpen, Reviews
      <4>2. QED
        BY <4>1
    <3>2. GateOpen(c) => Asked(c)'
      BY <1>1, <1>9, HandsStay DEF Accounted, Gated
    <3>3. QED
      BY <3>1, <3>2 DEF Gated
  <2>4. QED
    BY <1>6, <1>10, <2>1, <2>2, <2>3
<1>22. Reviewed(c)'
  <2>1. CASE r = Reviewer
    BY <1>17, <2>1 DEF Reviewed
  <2>2. CASE r # Reviewer
    BY <1>1, <1>10, <1>11, <1>16, <2>2 DEF Accounted, Reviewed
  <2>3. QED
    BY <2>1, <2>2
<1>23. Turned(c)'
  <2>1. CASE r = Reviewer
    <3>1. x.do = "rejected" => Turning'
      BY <1>3, <1>8 DEF Turning
    <3>2. QED
      BY <1>6, <1>17, <2>1, <3>1 DEF Turned
  <2>2. CASE r # Reviewer
    BY <1>1, <1>9, <1>16, <2>2, HandsStay DEF Accounted, Turned
  <2>3. QED
    BY <2>1, <2>2
<1>24. Ended(c)'
  <2>1. CASE r = Reviewer
    <3>1. x.do = "approved" => Ending'
      BY <1>3, <1>8 DEF Ending
    <3>2. QED
      BY <1>6, <1>17, <2>1, <3>1 DEF Ended
  <2>2. CASE r # Reviewer
    BY <1>1, <1>3, <1>9, <1>16, <2>2, HandsStay DEF Accounted, Ended
  <2>3. QED
    BY <2>1, <2>2
<1>25. Accounts'
  <2>1. Accounted(c)'
    BY <1>18, <1>19, <1>20, <1>21, <1>22, <1>23, <1>24 DEF Accounted
  <2>2. QED
    BY <1>1, <1>3, <2>1 DEF Accounts
<1>26. AllOrderly'
  <2>1. Orderly({x})
    <3>1. x.do \in {"evidence", "implemented", "planned", "approved", "rejected"} /\ (x.do = "planned" => Phased)
      BY <1>6, <1>10
    <3>2. QED
      BY <3>1 DEF Orderly
  <2>2. \A u \in Tasks : Orderly(todo'[u])
    BY <1>3, <1>7, <2>1 DEF AllOrderly
  <2>3. QED
    BY <2>2 DEF AllOrderly, Orderly
<1>27. PlansPhased'
  <2>1. \A i \in Ids(Implementer) : asg'[Implementer][i].kind = asg[Implementer][i].kind
    BY <1>10, <1>11
  <2>2. QED
    BY <1>3, <1>10, <1>11, <2>1 DEF PlansPhased
<1>28. AllUp'
  <2>1. workflow # "connecting"
    BY <1>3, WorkingStarted
  <2>2. QED
    BY <1>3, <2>1, UpStays
<1>29. QED
  BY <1>25, <1>26, <1>27, <1>28

\* The last role to arrive starts the workflow; nobody leaves it.
LEMMA ConnectionsAccounts ==
  ASSUME AccountInv, Dependable, Connections
  PROVE  Accounts' /\ AllOrderly' /\ PlansPhased' /\ AllUp'
<1>1. TypeOK /\ AllUp
  BY AccountFacts DEF AccountInv
<1>2. ASSUME NEW r \in Roles, Connect(r)
      PROVE  Accounts' /\ AllOrderly' /\ PlansPhased' /\ AllUp'
  <2>1. /\ UNCHANGED <<asg, active, decision, round, pending, workflow, todo, waits>>
        /\ workflow = "connecting" /\ conn' = [conn EXCEPT ![r] = "up"]
    BY <1>2 DEF Connect, Greet
  <2>2. AllUp'
    BY <1>1, <2>1 DEF AllUp, TypeOK
  <2>3. QED
    BY <2>1, <2>2, SameKept, SameWorkflow, StillKeeps
<1>3. ASSUME NEW r \in Roles, StartWorkflow(r)
      PROVE  Accounts' /\ AllOrderly' /\ PlansPhased' /\ AllUp'
  <2>1. PICK S : /\ S = {Step("baseline", x, 1) : x \in Roles} \cup
                        {Step("begin", r, 1), Step("decide", r, 1), Step("initial", Implementer, 1),
                         Step("started", r, 1)}
                 /\ Run(r, S)
    BY <1>3 DEF StartWorkflow
  <2>2. /\ UNCHANGED <<asg, active, decision, round, pending>> /\ workflow' = "initializing"
        /\ conn' = [conn EXCEPT ![r] = "up"] /\ \A x \in Roles \ {r} : conn[x] # "down"
        /\ r \in Tasks /\ todo[r] = {} /\ Kept
    BY <1>3, SameKept, AccountFacts, OnceFacts DEF StartWorkflow, Greet, RosterComplete, Known, Idle
  <2>3. \A x \in Roles : conn'[x] = "up"
    BY <1>1, <2>2 DEF AllUp, TypeOK
  <2>4. AllUp'
    BY <2>2, <2>3 DEF AllUp
  <2>5. \A y \in S : y.do \in {"baseline", "begin", "decide", "initial", "started"}
    BY <2>1 DEF Step
  <2>6. Orderly(S)
    BY <2>5 DEF Orderly
  <2>7. PICK y : y = Step("initial", Implementer, 1)
    OBVIOUS
  <2>8. y \in S /\ Giving(y) /\ y.to = Implementer
    BY <2>1, <2>7 DEF Step, Giving
  <2>9. Accounts' /\ AllOrderly'
    BY <2>1, <2>2, <2>6, <2>8, SameWorkflow, StepKeeps
  <2>10. QED
    BY <2>2, <2>4, <2>9, SamePlans DEF AccountInv
<1>4. ASSUME NEW r \in Roles, Recover(r) \/ Lose(r) \/ Unregister(r)
      PROVE  FALSE
  BY <1>1, <1>4 DEF Recover, Greet, Known, Lose, Unregister, AllUp, Dependable
<1>5. QED
  BY <1>2, <1>3, <1>4 DEF Connections

\* An operator's command has its own task, and touches nobody else's.
LEMMA ControlsAccounts ==
  ASSUME AccountInv, Dependable, Controls \/ ExtendCalls
  PROVE  Accounts' /\ AllOrderly' /\ PlansPhased' /\ AllUp'
<1>1. ASSUME NEW o \in Operators, NEW S, Orderly(S), todo[o] = {}, NEW w, Run(o, S) \/ Drain(o, w, S),
             workflow # "connecting", UNCHANGED <<asg, active, decision, round, pending, conn>>,
             workflow' = "routing" \/ UNCHANGED workflow
      PROVE  Accounts' /\ AllOrderly' /\ PlansPhased' /\ AllUp'
  <2>1. o \in Tasks /\ Kept /\ PlansPhased /\ Reactivates
    BY <1>1, SameKept, SameWorkflow, AccountFacts, OnceFacts DEF AccountInv
  <2>2. Accounts' /\ AllOrderly'
    BY <1>1, <2>1, StepKeeps
  <2>3. QED
    BY <1>1, <2>1, <2>2, SamePlans, UpStays
<1>2. ASSUME NEW o \in Operators, NEW r \in Roles, Send(o, r)
      PROVE  Accounts' /\ AllOrderly' /\ PlansPhased' /\ AllUp'
  <2>1. PICK S : S = {Step("resume", r, round)}
    OBVIOUS
  <2>2. Orderly(S)
    BY <2>1 DEF Orderly, Step
  <2>3. /\ todo[o] = {} /\ Drain(o, r, S) /\ workflow = "needs_attention"
        /\ UNCHANGED <<workflow, asg, active, decision, round, pending, conn>>
    BY <1>2, <2>1 DEF Send, durable, Idle
  <2>4. QED
    BY <1>1, <2>2, <2>3
<1>3. ASSUME NEW o \in Operators, Reopen(o)
      PROVE  Accounts' /\ AllOrderly' /\ PlansPhased' /\ AllUp'
  <2>1. PICK S : S = {Step("reopen", Implementer, round + 1)}
    OBVIOUS
  <2>2. Orderly(S)
    BY <2>1 DEF Orderly, Step
  <2>3. /\ todo[o] = {} /\ Drain(o, Implementer, S) /\ workflow = "ready"
        /\ UNCHANGED <<workflow, asg, active, decision, round, pending, conn>>
    BY <1>3, <2>1 DEF Reopen, durable, Idle
  <2>4. PICK w : w = Implementer
    OBVIOUS
  <2>5. QED
    BY <1>1, <2>2, <2>3, <2>4
<1>4. ASSUME NEW o \in Operators, ApproveRepair(o)
      PROVE  Accounts' /\ AllOrderly' /\ PlansPhased' /\ AllUp'
  <2>1. PICK S : S = {Step("assign", Implementer, pending), Step("confirm", Implementer, pending)}
    OBVIOUS
  <2>2. Orderly(S)
    BY <2>1 DEF Orderly, Step
  <2>3. /\ todo[o] = {} /\ Run(o, S) /\ workflow = "needs_attention" /\ workflow' = "routing"
        /\ UNCHANGED <<asg, active, decision, round, pending, conn>>
    BY <1>4, <2>1 DEF ApproveRepair, RepairHeld, Idle
  <2>4. QED
    BY <1>1, <2>2, <2>3
<1>5. ASSUME NEW o \in Operators, HangUp(o)
      PROVE  FALSE
  BY <1>5 DEF HangUp, Dependable
<1>6. CASE ExtendCalls
  <2>1. UNCHANGED <<workflow, asg, active, decision, round, pending, conn, todo, waits>>
    BY <1>6 DEF ExtendCalls, memory
  <2>2. QED
    BY <2>1, SameKept, SameWorkflow, StillKeeps, UpStays
<1>7. QED
  BY <1>2, <1>3, <1>4, <1>5, <1>6 DEF Controls

\* Nobody is away, so no coroutine fails.
LEMMA ContinuationUp ==
  ASSUME AccountInv, NEW t \in Tasks, Continuation(t)
  PROVE  AllUp'
<1>1. ASSUME NEW x \in todo[t], workflow' # "connecting", UNCHANGED conn
      PROVE  AllUp'
  BY <1>1, StartedUp, UpStays
<1>2. ASSUME NEW x \in todo[t]
      PROVE  /\ x.to \in Roles /\ Reviewer \in Roles /\ workflow # "connecting"
             /\ \A r \in Roles : conn[r] = "up" /\ Known(r) /\ Alive(r)
  BY <1>2, TakenStep, AccountFacts, OnceFacts, StartedUp
<1>3. ASSUME NEW x \in todo[t],
             \/ Baseline(t, x) \/ Begin(t, x) \/ DecideProbe(t, x) \/ Started(t, x) \/ Inform(t, x)
             \/ RouteEvidence(t, x) \/ RoutePlan(t, x) \/ RouteImplementation(t, x)
             \/ RouteApproval(t, x) \/ RouteRejection(t, x) \/ Advance(t, x)
             \/ Resume(t, x) \/ Reopened(t, x) \/ Confirm(t, x) \/ Answer(t, x)
      PROVE  AllUp'
  <2>1. workflow' # "connecting" /\ UNCHANGED conn
    <3>1. CASE Baseline(t, x) \/ Inform(t, x)
      BY <1>2, <3>1 DEF Baseline, Inform, SendOnly, durable
    <3>2. CASE \/ Begin(t, x) \/ DecideProbe(t, x) \/ Started(t, x) \/ RouteApproval(t, x)
               \/ RouteRejection(t, x) \/ RouteEvidence(t, x) \/ RoutePlan(t, x) \/ RouteImplementation(t, x)
      BY <1>2, <3>2 DEF Begin, DecideProbe, Started, RouteApproval, RouteRejection, RouteEvidence,
         RoutePlan, RouteImplementation, Published, durable
    <3>3. CASE \/ Advance(t, x) \/ Resume(t, x) \/ Reopened(t, x) \/ Confirm(t, x) \/ Answer(t, x)
      BY <1>2, <3>3 DEF Advance, Resume, Reopened, OpenRound, Confirm, Answer, Published, durable
    <3>4. QED
      BY <1>3, <3>1, <3>2, <3>3
  <2>2. QED
    BY <1>1, <2>1
<1>4. ASSUME NEW x \in todo[t], Assignments(t, x) \/ Gate(t, x)
      PROVE  AllUp'
  <2>1. ASSUME NEW r \in Roles, NEW q, NEW S, Insert(t, r, q, S)
        PROVE  workflow' # "connecting" /\ UNCHANGED conn
    BY <1>2, <2>1 DEF Insert, Published
  <2>2. ASSUME NEW r \in Roles, NEW q, NEW S, Assign(t, r, q, S)
        PROVE  workflow' # "connecting" /\ UNCHANGED conn
    <3>1. CASE Insert(t, r, q, S)
      BY <2>1, <3>1
    <3>2. CASE UNCHANGED <<workflow, conn>>
      BY <1>2, <3>2
    <3>3. QED
      BY <1>2, <2>2, <3>1, <3>2 DEF Assign
  <2>3. PICK r \in Roles : r = Reviewer
    BY <1>2
  <2>4. PICK u \in Roles : u = x.to
    BY <1>2
  <2>5. workflow' # "connecting" /\ UNCHANGED conn
    <3>1. CASE ~GateOpen(x.round) /\ UNCHANGED <<workflow, conn>>
      BY <1>2, <3>1
    <3>2. CASE Assign(t, Reviewer, x.round, Rest(t, x))
      BY <2>2, <2>3, <3>2
    <3>3. CASE Assign(t, x.to, x.round, Rest(t, x)) \/ Insert(t, x.to, x.round, Rest(t, x))
      BY <2>1, <2>2, <2>4, <3>3
    <3>4. QED
      BY <1>4, <3>1, <3>2, <3>3 DEF Assignments, Gate
  <2>6. QED
    BY <1>1, <2>5
<1>5. CASE Drained(t) \/ DrainFails(t)
  <2>1. waits[t] \in Roles
    BY <1>5 DEF Drained, DrainFails
  <2>2. workflow # "connecting"
    BY <2>1 DEF AccountInv, AllUp
  <2>3. ~DrainFails(t)
    BY <2>1, <2>2 DEF AccountInv, AllUp, DrainFails, Alive
  <2>4. UNCHANGED <<workflow, conn>>
    BY <1>5, <2>3 DEF Drained, durable
  <2>5. QED
    BY <2>2, <2>4, UpStays
<1>6. QED
  BY <1>3, <1>4, <1>5 DEF Continuation

LEMMA ContinuationAccounts ==
  ASSUME AccountInv, OnceInv', NEW t \in Tasks, Continuation(t)
  PROVE  Accounts' /\ AllOrderly' /\ PlansPhased'
<1>1. OnceInv /\ VerdictInv /\ PlansPhased
  BY AccountFacts DEF AccountInv
<1>2. round' \in Rounds
  <2>1. TypeOK'
    BY DEF OnceInv, VerdictInv, EvidenceInv, Typing
  <2>2. QED
    BY <2>1 DEF TypeOK, Rounds
<1>3. ASSUME NEW x \in todo[t],
             \/ Baseline(t, x) \/ Begin(t, x) \/ Started(t, x) \/ Inform(t, x)
             \/ RouteEvidence(t, x) \/ RoutePlan(t, x) \/ RouteApproval(t, x) \/ RouteRejection(t, x)
             \/ Resume(t, x) \/ Confirm(t, x) \/ Answer(t, x)
      PROVE  Accounts' /\ AllOrderly' /\ PlansPhased'
  <2>1. Accounts' /\ AllOrderly'
    BY <1>3, StartupAccounts, RouteAccounts, OperatorAccounts
  <2>2. Kept
    <3>1. CASE Resume(t, x) \/ Confirm(t, x) \/ Answer(t, x)
      BY <1>1, <3>1, OperatorKind DEF Incidental
    <3>2. CASE \/ Baseline(t, x) \/ Begin(t, x) \/ Started(t, x) \/ Inform(t, x)
               \/ RouteEvidence(t, x) \/ RoutePlan(t, x) \/ RouteApproval(t, x) \/ RouteRejection(t, x)
      BY <3>2, SameKept DEF Baseline, Begin, Started, Inform, SendOnly, RouteEvidence, RoutePlan,
         RouteApproval, RouteRejection, durable
    <3>3. QED
      BY <1>3, <3>1, <3>2
  <2>3. QED
    BY <1>1, <2>1, <2>2, SamePlans
<1>4. ASSUME NEW x \in todo[t], Advance(t, x) \/ Reopened(t, x)
      PROVE  Accounts' /\ AllOrderly' /\ PlansPhased'
  <2>1. CASE Advance(t, x)
    BY <1>1, <1>2, <2>1, AdvanceKind, OpeningAccounts
  <2>2. CASE Reopened(t, x)
    <3>1. x.round = round + 1 /\ round' = x.round
      BY <1>1, <2>2 DEF Reopened, Takes, OpenRound, OnceInv, AllProper, Proper
    <3>2. Opening
      <4>1. round' # round
        BY <1>1, <3>1, OnceFacts
      <4>2. QED
        BY <1>1, <2>2, <4>1, ReopenedKind DEF Incidental
    <3>3. QED
      BY <1>2, <3>2, OpeningAccounts
  <2>3. QED
    BY <1>4, <2>1, <2>2
<1>5. QED
  BY <1>3, <1>4, DecideAccounts, ImplementedAccounts, DeliveryAccounts DEF Continuation

LEMMA NextAccounts ==
  ASSUME Dependable, OneReopens, AccountInv, [Next]_vars
  PROVE  AccountInv'
<1>1. OnceInv'
  BY NextOnce DEF AccountInv
<1> SUFFICES Accounts' /\ AllOrderly' /\ PlansPhased' /\ AllUp'
  BY <1>1 DEF AccountInv
<1>2. ASSUME NEW t \in Tasks, Continuation(t)
      PROVE  Accounts' /\ AllOrderly' /\ PlansPhased' /\ AllUp'
  BY <1>1, <1>2, ContinuationAccounts, ContinuationUp
<1>3. CASE Connections
  BY <1>3, ConnectionsAccounts
<1>4. CASE Messages
  BY <1>4, MessagesAccounts, ReportAccounts DEF Messages
<1>5. CASE Controls \/ ExtendCalls
  BY <1>5, ControlsAccounts
<1>6. CASE Restart
  BY <1>6 DEF Restart, Dependable
<1>7. CASE UNCHANGED vars
  <2>1. UNCHANGED <<workflow, asg, active, decision, round, pending, conn, todo, waits>>
    BY <1>7 DEF vars, durable, memory
  <2>2. QED
    BY <2>1, SameKept, SameWorkflow, StillKeeps, UpStays
<1>8. QED
  BY <1>2, <1>3, <1>4, <1>5, <1>6, <1>7 DEF Next, Turn

LEMMA InitAccounts == Init => AccountInv
<1> SUFFICES ASSUME Init
             PROVE  AccountInv
  OBVIOUS
<1>1. OnceInv
  BY InitOnce
<1>2. /\ \A r \in Roles : Ids(r) = {} /\ conn[r] = "down"
      /\ \A t \in Tasks : todo[t] = {} /\ waits[t] = Nothing
      /\ workflow = "connecting" /\ round = 1
      /\ \A s \in Specialists : \A q \in Rounds : decision[s][q] = "none"
  BY DEF Init, Ids
<1>3. Implementer \in Roles /\ Reviewer \in Roles /\ Nothing \notin Roles
  BY <1>1, OnceFacts, ConstantAssumption
<1>4. AllUp
  BY <1>2, <1>3 DEF AllUp
<1>5. AllOrderly /\ PlansPhased
  BY <1>2, <1>3 DEF AllOrderly, Orderly, PlansPhased
<1>6. ASSUME NEW q \in Rounds
      PROVE  Accounted(q)
  <2>1. ~Implemented(q) /\ Reviews(q) = {}
    BY <1>2, <1>3 DEF Implemented, Reports, Reviews
  <2>2. ~Verdict(q, "approved") /\ ~Verdict(q, "changes_requested") /\ ~GateOpen(q)
    BY <2>1 DEF Verdict, GateOpen
  <2>3. QED
    BY <1>2, <1>6, <2>1, <2>2 DEF Accounted, Built, Routed, Probed, Gated, Reviewed, Turned, Ended
<1>7. QED
  BY <1>1, <1>4, <1>5, <1>6 DEF AccountInv, Accounts

LEMMA NobodyLeft == AccountInv => NeverForgotten
<1> SUFFICES ASSUME AccountInv, workflow = "active", \A t \in Tasks : Idle(t),
                    \A r \in Roles : ~Working(r)
             PROVE  FALSE
  BY DEF NeverForgotten, Moving
<1>1. PICK c \in Rounds : c = round /\ Accounted(c)
  BY AccountFacts
<1>2. OnceInv /\ TypeOK /\ c \in Nat \ {0} /\ pending = 0
  BY <1>1, AccountFacts DEF OnceInv, Parked, Rounds
<1>3. Implementer \in Roles /\ Reviewer \in Roles /\ Specialists \subseteq Roles
  BY <1>2, OnceFacts
<1>4. \A t \in Tasks : todo[t] = {}
  BY DEF Idle
<1>5. /\ \A r \in Roles : ~Due(r)
      /\ ~Routing(c) /\ ~Asked(c) /\ ~Turning /\ ~Ending
  BY <1>4 DEF Due, Routing, Asked, Turning, Ending
<1>6. Implemented(c) /\ Undecided(c) = {}
  BY <1>1, <1>2, <1>3, <1>5 DEF Accounted, Built, Routed
<1>7. EvidenceComplete(c)
  <2>1. ASSUME NEW s \in Specialists
        PROVE  decision[s][c] = "skipped" \/ (decision[s][c] = "run" /\ Reports(s, c) # {})
    <3>1. decision[s][c] \in {"run", "skipped"}
      BY <1>2, <1>6 DEF Undecided, TypeOK, Decisions
    <3>2. QED
      BY <1>1, <1>3, <1>5, <3>1 DEF Accounted, Probed
  <2>2. QED
    BY <2>1 DEF EvidenceComplete
<1>8. Reviews(c) # {}
  BY <1>1, <1>5, <1>6, <1>7 DEF Accounted, Gated, GateOpen, Reviews
<1>9. Judged(c)
  BY <1>1, <1>3, <1>8 DEF Accounted, Reviewed
<1>10. Verdict(c, "approved") \/ Verdict(c, "changes_requested")
  <2>1. PICK i \in Reviews(c) : asg[Reviewer][i].verdict # "none"
    BY <1>9 DEF Judged
  <2>2. asg[Reviewer][i] \in Assignment
    BY <1>2, <1>3, <2>1, RowRound DEF Reviews
  <2>3. asg[Reviewer][i].verdict \in {"approved", "changes_requested"}
    BY <2>1, <2>2 DEF Assignment
  <2>4. QED
    BY <2>1, <2>3 DEF Verdict
<1>11. QED
  BY <1>1, <1>5, <1>10 DEF Accounted, Turned, Ended

\* Whatever the reports, verdicts, operators' commands and slow sockets of a run: as long
\* as nobody's connection is lost and the broker is not killed, an active run always has a
\* worker with an assignment or a coroutine with a step to take.
THEOREM NobodyIsForgotten == ASSUME Dependable, OneReopens PROVE Spec => []NeverForgotten
<1>1. AccountInv /\ [Next]_vars => AccountInv'
  BY NextAccounts
<1>2. Spec => []AccountInv
  BY <1>1, InitAccounts, PTL DEF Spec
<1>3. QED
  BY <1>2, NobodyLeft, PTL
================================================================================
