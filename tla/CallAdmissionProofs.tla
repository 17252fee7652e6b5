------------------------- MODULE CallAdmissionProofs -------------------------
(***************************************************************************)
(* Proofs about CallAdmission: for any workers, ceilings, extensions and   *)
(* bounds, with requests repeated, connections lost and the broker killed. *)
(***************************************************************************)
EXTENDS CallAdmission, FiniteSetTheorems, TLAPS

\* The steps that neither reserve a turn nor raise a ceiling.
Quiet(w) == Ask(w) \/ GiveUp(w) \/ Receive(w) \/ Abort(w) \/ ClaimReminder(w) \/ Dispatch(w)
            \/ Reject(w) \/ DecideClaim(w) \/ Settle(w) \/ Reconnect(w)
            \/ NextAssignment(w) \/ Resume(w) \/ Cut(w)

LEMMA QuietLedger ==
  ASSUME NEW w \in Workers, Quiet(w) \/ Restart \/ UNCHANGED vars
  PROVE  UNCHANGED <<limits, ledger, paused>>
  BY DEF Quiet, Ask, GiveUp, Receive, Abort, ClaimReminder, Dispatch, Reject, Disconnect,
     DecideClaim, Settle, Reconnect, AwaitOperator, NextAssignment, Resume, Cut, Restart, broker, vars

-----------------------------------------------------------------------------
(* The ceilings.                                                           *)

\* The ceilings are numbers, raised together, and the ledger is finite.
Limits ==
  /\ limits \in [DOMAIN Ceilings -> 1..MaxAllowance]
  /\ CeilingsMoveTogether
\* No count of a scope passes its ceiling, whoever asks.
EveryCount == \A w, n : \A s \in DOMAIN limits : Cardinality(Counted(s, w, n)) <= limits[s]
Bounded == Limits /\ IsFiniteSet(ledger) /\ EveryCount

\* What a ceiling counts is part of the ledger.
LEMMA CountedFinite ==
  ASSUME IsFiniteSet(ledger), NEW s, NEW w, NEW n
  PROVE  IsFiniteSet(Counted(s, w, n)) /\ Cardinality(Counted(s, w, n)) \in Nat
<1>1. Counted(s, w, n) \subseteq ledger
  BY DEF Counted, Granted
<1> QED
  BY <1>1, FS_Subset, FS_CardinalityType

LEMMA OneMore ==
  ASSUME NEW S, IsFiniteSet(S), NEW x, NEW k \in Nat, Cardinality(S) < k
  PROVE  Cardinality(S \cup {x}) <= k
<1>1. Cardinality(S) \in Nat
  BY FS_CardinalityType
<1>2. Cardinality(S \cup {x}) = Cardinality(S) \/ Cardinality(S \cup {x}) = Cardinality(S) + 1
  BY FS_AddElement
<1> QED
  BY <1>1, <1>2

LEMMA BoundedInit == Init => Bounded
<1> SUFFICES ASSUME Init PROVE Bounded
  OBVIOUS
<1>1. limits = Ceilings /\ ledger = {}
  BY DEF Init
<1>2. limits \in [DOMAIN Ceilings -> 1..MaxAllowance]
  BY <1>1, ConstantAssumption
<1>3. CeilingsMoveTogether
  <2>1. 0 \in 0..MaxAllowance /\ \A s \in DOMAIN limits : limits[s] = Ceilings[s] + 0
    BY <1>1, ConstantAssumption
  <2> QED
    BY <2>1 DEF CeilingsMoveTogether
<1>4. EveryCount
  <2>1. ASSUME NEW w, NEW n, NEW s PROVE Cardinality(Counted(s, w, n)) = 0
    <3>1. Counted(s, w, n) = {}
      BY <1>1 DEF Counted, Granted
    <3> QED
      BY <3>1, FS_EmptySet
  <2> QED
    BY <1>2, <2>1 DEF EveryCount
<1> QED
  BY <1>1, <1>2, <1>3, <1>4, FS_EmptySet DEF Bounded, Limits

\* An extension raises every ceiling, by the same amount.
LEMMA BoundedExtend ==
  ASSUME Bounded, NEW extra \in Extras, Extend(extra) PROVE Bounded'
<1>1. /\ limits \in [DOMAIN Ceilings -> 1..MaxAllowance] /\ extra \in Nat \ {0}
      /\ MaxAllowance \in Nat /\ ledger' = ledger
      /\ limits' = [s \in DOMAIN limits |-> limits[s] + extra]
      /\ \A s \in DOMAIN limits : limits[s] + extra <= MaxAllowance
  BY ConstantAssumption DEF Bounded, Limits, Extend, Extended
<1>2. limits' \in [DOMAIN Ceilings -> 1..MaxAllowance]
  BY <1>1
<1>3. CeilingsMoveTogether'
  <2>1. PICK e \in 0..MaxAllowance : \A s \in DOMAIN limits : limits[s] = Ceilings[s] + e
    BY DEF Bounded, Limits, CeilingsMoveTogether
  <2>2. PICK s \in DOMAIN Ceilings : Ceilings[s] \in 1..MaxAllowance
    BY ConstantAssumption
  <2>3. e + extra \in 0..MaxAllowance
    <3>1. limits[s] = Ceilings[s] + e /\ limits[s] + extra <= MaxAllowance
      BY <1>1, <2>1, <2>2
    <3> QED
      BY <1>1, <2>2, <3>1
  <2>4. \A t \in DOMAIN limits' : limits'[t] = Ceilings[t] + (e + extra)
    <3>1. \A t \in DOMAIN Ceilings : Ceilings[t] \in Nat
      BY ConstantAssumption
    <3> QED
      BY <1>1, <2>1, <3>1
  <2> QED
    BY <2>3, <2>4 DEF CeilingsMoveTogether
<1>4. EveryCount'
  <2>1. ASSUME NEW w, NEW n, NEW s \in DOMAIN limits'
        PROVE  Cardinality(Counted(s, w, n)') <= limits'[s]
    <3>1. Counted(s, w, n)' = Counted(s, w, n)
      BY <1>1 DEF Counted, Granted
    <3>2. Cardinality(Counted(s, w, n)) <= limits[s] /\ Cardinality(Counted(s, w, n)) \in Nat
      BY <1>1, <2>1, CountedFinite DEF Bounded, EveryCount
    <3>3. limits[s] \in Nat /\ limits'[s] = limits[s] + extra
      BY <1>1, <2>1
    <3> QED
      BY <1>1, <3>1, <3>2, <3>3
  <2> QED
    BY <2>1 DEF EveryCount
<1> QED
  BY <1>1, <1>2, <1>3, <1>4 DEF Bounded, Limits

\* A reservation is counted by no ceiling that was reached.
LEMMA BoundedDecide ==
  ASSUME Bounded, NEW w \in Workers, Decide(w) PROVE Bounded'
<1> DEFINE m == Head(inbox[w])
           row == [id |-> m.id, role |-> w, number |-> m.number, resume |-> m.resume,
                   granted |-> Admissible(w, m)]
<1>1. /\ limits' = limits /\ limits \in [DOMAIN Ceilings -> 1..MaxAllowance]
      /\ IsFiniteSet(ledger)
      /\ ledger' = IF Recorded(w, m) THEN ledger \cup {row} ELSE ledger
  BY DEF Decide, Bounded, Limits
<1>2. IsFiniteSet(ledger')
  BY <1>1, FS_AddElement
<1>3. ASSUME NEW u, NEW n, NEW s \in DOMAIN limits
      PROVE  Cardinality(Counted(s, u, n)') <= limits[s]
  <2> DEFINE C == Counted(s, u, n)
             D == {x \in {y \in ledger' : y.granted} :
                     /\ s \in {"role", "assignment"} => x.role = u
                     /\ s = "assignment" => x.number = n}
  <2>1. /\ Cardinality(C) <= limits[s] /\ Cardinality(C) \in Nat /\ IsFiniteSet(C)
        /\ limits[s] \in Nat
    BY <1>1, CountedFinite DEF Bounded, EveryCount
  <2>2. Counted(s, u, n)' = D
    BY DEF Counted, Granted
  <2>3. CASE D = C
    BY <2>1, <2>2, <2>3
  <2>4. CASE D # C
    <3>1. /\ Admissible(w, m) /\ D = C \cup {row}
          /\ s \in {"role", "assignment"} => w = u
          /\ s = "assignment" => m.number = n
      <4>1. /\ row.granted = Admissible(w, m) /\ row.role = w /\ row.number = m.number
            /\ ledger' = ledger \cup {row}
        BY <1>1, <2>4 DEF Counted, Granted
      <4>2. \A x : x \in D <=>
              /\ x \in ledger \cup {row} /\ x.granted
              /\ s \in {"role", "assignment"} => x.role = u
              /\ s = "assignment" => x.number = n
        BY <4>1
      <4>3. \A x : x \in C <=>
              /\ x \in ledger /\ x.granted
              /\ s \in {"role", "assignment"} => x.role = u
              /\ s = "assignment" => x.number = n
        BY DEF Counted, Granted
      <4>4. row \in D /\ row \notin C
        BY <2>4, <4>2, <4>3
      <4> HIDE DEF row, D, C
      <4>5. D = C \cup {row}
        BY <4>2, <4>3, <4>4
      <4> QED
        BY <4>1, <4>2, <4>4, <4>5
    <3>2. Counted(s, w, m.number) = C
      <4>1. CASE s = "assignment"
        BY <3>1, <4>1
      <4>2. CASE s # "assignment"
        BY <3>1, <4>2 DEF Counted
      <4> QED
        BY <4>1, <4>2
    <3>3. Cardinality(C) < limits[s]
      BY <3>1, <3>2 DEF Admissible, Room
    <3>4. Cardinality(C \cup {row}) <= limits[s]
      BY <2>1, <3>3, OneMore
    <3> QED
      BY <2>2, <3>1, <3>4
  <2> QED
    BY <2>3, <2>4
<1>4. EveryCount'
  BY <1>1, <1>3 DEF EveryCount
<1>5. Limits'
  BY <1>1 DEF Bounded, Limits, CeilingsMoveTogether
<1> QED
  BY <1>2, <1>4, <1>5 DEF Bounded

LEMMA BoundedNext == Bounded /\ [Next]_vars => Bounded'
<1> SUFFICES ASSUME Bounded, [Next]_vars PROVE Bounded'
  OBVIOUS
<1>1. ASSUME UNCHANGED <<limits, ledger>> PROVE Bounded'
  BY <1>1 DEF Bounded, Limits, CeilingsMoveTogether, EveryCount, Counted, Granted
<1>2. CASE \E w \in Workers : Quiet(w)
  BY <1>1, <1>2, QuietLedger
<1>3. CASE Restart \/ UNCHANGED vars
  BY <1>1, <1>3 DEF Restart, broker, vars
<1>4. ASSUME NEW w \in Workers, Decide(w) PROVE Bounded'
  BY <1>4, BoundedDecide
<1>5. ASSUME NEW extra \in Extras, Extend(extra) PROVE Bounded'
  BY <1>5, BoundedExtend
<1> QED
  BY <1>2, <1>3, <1>4, <1>5 DEF Next, Quiet

\* No scope is ever granted more turns than its ceiling, whatever is asked again,
\* lost, resumed or extended.
THEOREM TurnsWithinCeilings == Spec => []WithinCeilings
<1>1. Init => Bounded
  BY BoundedInit
<1>2. Bounded /\ [Next]_vars => Bounded'
  BY BoundedNext
<1>3. Bounded => WithinCeilings
  BY DEF Bounded, EveryCount, WithinCeilings
<1> QED
  BY <1>1, <1>2, <1>3, PTL DEF Spec

\* An extension raises every ceiling by the same amount or none.
THEOREM CeilingsTogether == Spec => []CeilingsMoveTogether
<1>1. Init => Bounded
  BY BoundedInit
<1>2. Bounded /\ [Next]_vars => Bounded'
  BY BoundedNext
<1>3. Bounded => CeilingsMoveTogether
  BY DEF Bounded, Limits
<1> QED
  BY <1>1, <1>2, <1>3, PTL DEF Spec

-----------------------------------------------------------------------------
(* The pause.                                                              *)

\* A connected worker that is held back waits, and the run says so.
Shown ==
  /\ task \in [Workers -> Task] /\ link \subseteq Workers
  /\ paused => workflow = "needs_attention"
  /\ \A w \in link : Held(w) => w \in waiting /\ workflow = "needs_attention"

LEMMA ShownInit == Init => Shown
<1> SUFFICES ASSUME Init PROVE Shown
  OBVIOUS
<1>1. Assigned(1) \in Task /\ ~Assigned(1).refused
  BY ConstantAssumption DEF Assigned, Task, Numbers, Epochs
<1> QED
  BY <1>1 DEF Init, Shown, Held

\* A worker that is made to wait is held back as it should be, and nobody else changes.
LEMMA ShownAwait ==
  ASSUME Shown, NEW w \in Workers, NEW changed \in Task, AwaitOperator(w, changed),
         link' \subseteq link \cup {w}
  PROVE  Shown'
<1>1. /\ task' = [task EXCEPT ![w] = [changed EXCEPT !.authorized = FALSE]]
      /\ waiting' = waiting \cup {w} /\ workflow' = "needs_attention"
  BY DEF AwaitOperator
<1>2. task' \in [Workers -> Task]
  <2>1. [changed EXCEPT !.authorized = FALSE] \in Task
    BY DEF Task
  <2> QED
    BY <1>1, <2>1 DEF Shown
<1>3. \A u \in Workers \ {w} : task'[u] = task[u]
  BY <1>1 DEF Shown
<1> QED
  BY <1>1, <1>2, <1>3 DEF Shown, Held

\* Nor does anybody else change when a worker's reminder is reserved or used.
LEMMA ShownReminder ==
  ASSUME Shown, NEW w \in Workers, NEW changed \in Task, ~changed.refused,
         task' = [task EXCEPT ![w] = changed], waiting \ {w} \subseteq waiting',
         UNCHANGED <<link, paused, workflow>>
  PROVE  Shown'
<1>1. task' \in [Workers -> Task] /\ ~task'[w].refused
  BY DEF Shown
<1>2. \A u \in Workers \ {w} : task'[u] = task[u]
  BY DEF Shown
<1> QED
  BY <1>1, <1>2 DEF Shown, Held

LEMMA ShownNext == Shown /\ [Next]_vars => Shown'
<1> SUFFICES ASSUME Shown, [Next]_vars PROVE Shown'
  OBVIOUS
<1>1. ASSUME NEW w \in Workers,
             \/ Ask(w) \/ GiveUp(w) \/ Receive(w)
             \/ Abort(w) \/ ClaimReminder(w) \/ Dispatch(w)
      PROVE  Shown'
  BY <1>1 DEF Ask, GiveUp, Receive, Abort, ClaimReminder, Dispatch, broker, Shown, Held
<1>2. ASSUME NEW w \in Workers, Reject(w) \/ Cut(w) PROVE Shown'
  <2>1. link' = link \ {w} /\ waiting' = waiting \ {w} /\ UNCHANGED <<paused, workflow, task>>
    BY <1>2 DEF Reject, Cut, Disconnect, Drop
  <2> QED
    BY <2>1 DEF Shown, Held
<1>3. CASE Restart
  <2>1. link' = link \ Workers /\ UNCHANGED <<paused, workflow, task, waiting>>
    BY <1>3 DEF Restart, Drop, broker
  <2> QED
    BY <2>1 DEF Shown, Held
<1>4. ASSUME NEW w \in Workers, Decide(w) PROVE Shown'
  <2> DEFINE m == Head(inbox[w])
  <2>1. link' = link /\ w \in link
    BY <1>4 DEF Decide
  <2>2. CASE Admissible(w, m)
    <3>1. UNCHANGED <<workflow, task, waiting>> /\ (paused' => paused)
      BY <1>4, <2>2, Zenon DEF Decide
    <3> QED
      BY <2>1, <3>1 DEF Shown, Held
  <2>3. CASE ~Admissible(w, m)
    <3>1. [task[w] EXCEPT !.refused = TRUE] \in Task
      BY DEF Shown, Task
    <3>2. AwaitOperator(w, [task[w] EXCEPT !.refused = TRUE])
      BY <1>4, <2>3, Zenon DEF Decide, Refused
    <3> QED
      BY <2>1, <3>1, <3>2, ShownAwait
  <2> QED
    BY <2>2, <2>3
<1>5. ASSUME NEW w \in Workers, Reconnect(w) PROVE Shown'
  <2>1. link' = link \cup {w} /\ paused' = paused
    BY <1>5 DEF Reconnect
  <2>2. CASE RecoveryWaits(w)
    <3> DEFINE changed == [task[w] EXCEPT !.reminder = IF @ = "reserved" THEN "used" ELSE @]
    <3>1. changed \in Task
      BY DEF Shown, Task
    <3>2. AwaitOperator(w, changed)
      BY <1>5, <2>2, Zenon DEF Reconnect
    <3> HIDE DEF changed
    <3> QED
      BY <2>1, <3>1, <3>2, ShownAwait
  <2>3. CASE ~RecoveryWaits(w)
    <3>1. waiting' = waiting \ {w} /\ UNCHANGED <<workflow, task>> /\ w \notin link
      BY <1>5, <2>3 DEF Reconnect
    <3>2. ~Held(w)
      BY <2>3 DEF RecoveryWaits, Held
    <3> QED
      BY <2>1, <3>1, <3>2 DEF Shown, Held
  <2> QED
    BY <2>2, <2>3
<1>6. ASSUME NEW w \in Workers, NextAssignment(w) PROVE Shown'
  <2>1. /\ task' = [task EXCEPT ![w] = Assigned(@.number + 1)]
        /\ waiting' = waiting \ {w} /\ UNCHANGED <<paused, workflow, link>>
        /\ task[w].number < MaxAssignments
    BY <1>6 DEF NextAssignment
  <2>2. Assigned(task[w].number + 1) \in Task /\ ~Assigned(task[w].number + 1).refused
    BY <2>1, ConstantAssumption DEF Shown, Task, Assigned, Numbers, Epochs
  <2>3. task' = [task EXCEPT ![w] = Assigned(task[w].number + 1)]
    BY <2>1
  <2> QED
    BY <2>1, <2>2, <2>3, ShownReminder
<1>7. ASSUME NEW w \in Workers, Resume(w) PROVE Shown'
  <2>1. /\ task' = [task EXCEPT ![w].resume = task[w].resume + 1, ![w].authorized = TRUE]
        /\ task[w].resume < MaxResumes /\ UNCHANGED <<paused, link>>
    BY <1>7 DEF Resume
  <2>2. \/ waiting' = waiting /\ workflow' = workflow /\ workflow # "needs_attention"
        \/ /\ workflow = "needs_attention" /\ waiting' = waiting \ {w}
           /\ workflow' = IF waiting \subseteq {w} THEN Published ELSE workflow
    BY <1>7 DEF Resume
  <2>3. task[w] \in Task /\ task[w].resume + 1 \in Epochs
    BY <2>1, ConstantAssumption DEF Shown, Task, Epochs
  <2>4. /\ task' \in [Workers -> Task] /\ task'[w].authorized
        /\ \A u \in Workers \ {w} : task'[u] = task[u]
    BY <2>1, <2>3 DEF Shown, Task
  <2>5. \A u \in link \ {w} : Held(u)' => u \in waiting' /\ workflow' = "needs_attention"
    BY <2>2, <2>4 DEF Shown, Held
  <2>6. paused' => workflow' = "needs_attention"
    BY <2>1, <2>2 DEF Shown, Published
  <2> QED
    BY <2>1, <2>4, <2>5, <2>6 DEF Shown, Held
<1>8. ASSUME NEW extra \in Extras, Extend(extra) PROVE Shown'
  BY <1>8 DEF Extend, Shown, Held
<1>9. ASSUME NEW w \in Workers, DecideClaim(w) PROVE Shown'
  <2>1. link' = link /\ paused' = paused
    BY <1>9 DEF DecideClaim
  <2>2. CASE task[w].reminder = "reserved" /\ ~task[w].refused
    <3> DEFINE changed == [task[w] EXCEPT !.reminder = "used"]
    <3>1. changed \in Task /\ ~changed.refused
      BY <2>2 DEF Shown, Task
    <3>2. /\ task' = [task EXCEPT ![w].reminder = "used"]
          /\ waiting' = waiting \ {w} /\ workflow' = workflow
      BY <1>9, <2>2 DEF DecideClaim
    <3>3. task' = [task EXCEPT ![w] = changed]
      BY <3>2
    <3> HIDE DEF changed
    <3> QED
      BY <2>1, <3>1, <3>2, <3>3, ShownReminder
  <2>3. CASE ~(task[w].reminder = "reserved" /\ ~task[w].refused)
    <3>1. AwaitOperator(w, task[w])
      BY <1>9, <2>3 DEF DecideClaim
    <3>2. task[w] \in Task
      BY DEF Shown
    <3> QED
      BY <2>1, <3>1, <3>2, ShownAwait
  <2> QED
    BY <2>2, <2>3
<1>10. ASSUME NEW w \in Workers, Settle(w) PROVE Shown'
  <2>1. link' = link /\ paused' = paused
    BY <1>10 DEF Settle
  <2>2. CASE task[w].reminder = "none" /\ ~task[w].refused
    <3> DEFINE changed == [task[w] EXCEPT !.reminder = "reserved", !.authorized = FALSE]
    <3>1. changed \in Task /\ ~changed.refused
      BY <2>2 DEF Shown, Task
    <3>2. /\ task' = [task EXCEPT ![w].reminder = "reserved", ![w].authorized = FALSE]
          /\ waiting' = waiting \cup {w} /\ workflow' = workflow
      BY <1>10, <2>2 DEF Settle
    <3>3. task' = [task EXCEPT ![w] = changed]
      BY <3>2 DEF Shown
    <3> HIDE DEF changed
    <3> QED
      BY <2>1, <3>1, <3>2, <3>3, ShownReminder
  <2>3. CASE ~(task[w].reminder = "none" /\ ~task[w].refused)
    <3> DEFINE changed == [task[w] EXCEPT !.reminder = IF @ = "none" THEN "used" ELSE @]
    <3>1. changed \in Task
      BY DEF Shown, Task
    <3>2. AwaitOperator(w, changed)
      BY <1>10, <2>3, Zenon DEF Settle
    <3> HIDE DEF changed
    <3> QED
      BY <2>1, <3>1, <3>2, ShownAwait
  <2> QED
    BY <2>2, <2>3
<1>11. CASE UNCHANGED vars
  BY <1>11 DEF vars, broker, Shown, Held
<1> QED
  BY <1>1, <1>2, <1>3, <1>4, <1>5, <1>6, <1>7, <1>8, <1>9, <1>10, <1>11 DEF Next

\* While the pause holds, or a connected worker is held back, the run says so.
THEOREM RefusalsShown == Spec => []RefusalIsShown
<1>1. Init => Shown
  BY ShownInit
<1>2. Shown /\ [Next]_vars => Shown'
  BY ShownNext
<1>3. Shown => RefusalIsShown
  BY DEF Shown, RefusalIsShown
<1> QED
  BY <1>1, <1>2, <1>3, PTL DEF Spec
=============================================================================
