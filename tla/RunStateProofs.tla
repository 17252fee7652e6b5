----------------------------- MODULE RunStateProofs -----------------------------
(* Proofs about RunState, for any specialists and retained contexts, any number *)
(* of files, reports, edits and messages, with workers that are slow to read,    *)
(* connections that break and come back, and files that change under the         *)
(* observation.                                                                  *)
(*                                                                               *)
(* The invariant has four parts.  ReportInv: what was accepted, by round.         *)
(* StepInv: what each handler has left to do is a plan of the code, and only the  *)
(* reviewer's opens a round.  QueueInv: the newest run state that was written to *)
(* a worker or waits for it is as new as what it was to be told.  LooksInv: what *)
(* the observation under way has read, and what the receipts remember, is no      *)
(* newer than the files; what they agree with is fresh.                            *)
EXTENDS RunState, FiniteSetTheorems, WellFoundedInduction, TLAPS

-----------------------------------------------------------------------------
(* What a worker is told, what is sent and what is left to do.                  *)

\* Capsules of up to k reports, whose hints are true.
Capsules(k) ==
  {c \in [n : 0 .. k, unchanged : SUBSET Roles, fresh : SUBSET Roles] :
     c.unchanged \subseteq c.fresh}
Frames == [kind : {"run_state"}, capsule : Capsules(MaxReports)]
            \cup [kind : {"assignment", "other"}]
Entries == [by : Coroutines, frame : Frames]
Items(k) ==
  [do : {"remember", "route", "repair", "gate", "again", "baseline"}]
    \cup [do : {"telling"}, to : Seq(Roles) \ {<<>>}, capsule : Capsules(k)]
    \cup [do : {"assign", "replay", "commit"}, role : Roles]

\* A step that may open a round.
Opens == {"route", "repair"}
Opening(s) == \E i \in DOMAIN s : s[i].do \in Opens
Once(s) == \A i, j \in DOMAIN s : s[i].do \in Opens /\ s[j].do \in Opens => i = j
NoRepair(s) == \A i \in DOMAIN s : s[i].do # "repair"

\* What handler t may have left to do after k reports, in round n, with the
\* clients C: only the reviewer's opens a round, after a report that none did for.
Plan(t, s, k, n, C) ==
  /\ s \in Seq(Items(k)) /\ Once(s)
  /\ t = "operator" => s = <<>>
  /\ t # "reviewer" => NoRepair(s)
  /\ t = "reviewer" /\ Opening(s) => n <= k
  /\ t \in Roles /\ s # <<>> => t \in C

\* The newest run state of a line of sends: its last, or what was heard.
IsState(e) == e.frame.kind = "run_state"
LastTold(q, h) ==
  LET states == {i \in DOMAIN q : IsState(q[i])}
      last == CHOOSE i \in states : \A j \in states : j <= i
  IN IF states = {} THEN h ELSE q[last].frame.capsule
\* The first of the line is written.
HeadIs(q, h) == q # <<>> /\ IsState(q[1]) => h = q[1].frame.capsule

-----------------------------------------------------------------------------
(* The inductive invariant.                                                     *)

LimitType == [edits : 0 .. MaxEdits, stalls : 0 .. MaxStalls, breaks : 0 .. MaxBreaks]

ReportInv ==
  /\ filed \in Seq([by : Roles, round : Nat]) /\ Len(filed) <= MaxReports
  /\ round \in Nat \ {0} /\ round <= Len(filed) + 1
  /\ \A i \in DOMAIN filed : filed[i].round \in 1 .. round
  /\ gated \in 0 .. round
  /\ busy \subseteq Roles /\ decided \subseteq Specialists /\ activated \subseteq decided
  /\ limits \in LimitType

StepInv ==
  /\ clients \subseteq Roles
  /\ steps \in [Coroutines -> Seq(Items(Len(filed)))]
  /\ \A t \in Coroutines : Plan(t, steps[t], Len(filed), round, clients)
  /\ turn \in Coroutines \cup {""}
  /\ turn # "" => steps[turn] # <<>>

QueueInv ==
  /\ queue \in [Roles -> Seq(Entries)]
  /\ heard \in [Roles -> Capsules(MaxReports)] /\ kept \in [Roles -> Capsules(MaxReports)]
  /\ owed \in [Roles -> 0 .. Len(filed)] /\ pending \subseteq Roles
  /\ \A r \in Roles :
       /\ r \in clients \/ queue[r] = <<>>
       /\ HeadIs(queue[r], heard[r])
       /\ r \in pending \/ /\ kept[r].n >= owed[r]
                           /\ LastTold(queue[r], heard[r]).n >= owed[r]

Place(i) == IF i <= Files THEN i ELSE i - Files
Remembers(q) == look.on /\ turn = q /\ Head(steps[q]).do = "remember"
\* A file was edited after the first inventory read it, and the second, if it has
\* read it, saw that.
Noticed(i) ==
  /\ look.seen[i] < files[i]
  /\ Files + i <= Len(look.seen) => look.seen[i] < look.seen[Files + i]

LookType ==
  /\ files \in [1 .. Files -> Nat] /\ guidance \in 0 .. MaxGuidance
  /\ receipts \in [Roles -> [stamp : Seq(Nat), guidance : Int]]
  /\ \A q \in Roles :
       /\ receipts[q].guidance >= -1 /\ receipts[q].guidance <= guidance
       /\ receipts[q].stamp # <<>> =>
            /\ Len(receipts[q].stamp) = Files
            /\ \A i \in 1 .. Files : receipts[q].stamp[i] <= files[i]
  /\ fresh \subseteq Roles
  /\ look \in [on : BOOLEAN, seen : Seq(Nat), fresh : SUBSET Roles, failed : BOOLEAN]
  /\ Len(look.seen) <= 2 * Files
  /\ \A i \in 1 .. Len(look.seen) : look.seen[i] <= files[Place(i)]
  /\ ~look.on => look = Unread
  /\ look.on => /\ turn \in Roles
                /\ Head(steps[turn]).do \in {"remember", "assign", "replay"}
                /\ Head(steps[turn]).do = "remember" => Retained # {}

ReceiptInv ==
  \A q \in Roles :
    /\ receipts[q].stamp # <<>> /\ Current(q)
    /\ \A i \in 1 .. Files : receipts[q].stamp[i] = files[i]
    => q \in fresh \/ Remembers(q)

RememberInv ==
  /\ look.on /\ Head(steps[turn]).do = "remember"
  /\ Files # 0 /\ Len(look.seen) >= Files
  /\ \A i \in 1 .. Files : look.seen[i] = files[i]
  => turn \in fresh

HintInv ==
  look.on /\ Head(steps[turn]).do # "remember" /\ Len(look.seen) >= Files =>
    \A q \in Roles :
      /\ receipts[q].stamp # <<>> /\ Current(q)
      /\ \A i \in 1 .. Files : receipts[q].stamp[i] = look.seen[i]
      => q \in look.fresh \/ \E i \in 1 .. Files : Noticed(i)

LooksInv == LookType /\ ReceiptInv /\ RememberInv /\ HintInv

StateInv == ReportInv /\ StepInv /\ QueueInv /\ LooksInv

-----------------------------------------------------------------------------
(* Plans.                                                                       *)

LEMMA NamesDiffer ==
  ASSUME RunStateAssumption
  PROVE  /\ "operator" \notin Roles /\ "" \notin Coroutines
         /\ "reviewer" \in Roles /\ "implementer" \in Roles
         /\ Roles \subseteq Coroutines /\ Specialists \subseteq Roles
         /\ "reviewer" \notin Specialists /\ "implementer" \notin Specialists
  BY DEF RunStateAssumption, Roles, Coroutines

LEMMA CapsulesGrow ==
  ASSUME NEW k \in Nat, NEW m \in Nat, k <= m
  PROVE  Capsules(k) \subseteq Capsules(m)
<1>1. 0 .. k \subseteq 0 .. m
  OBVIOUS
<1> QED
  BY <1>1 DEF Capsules

LEMMA ItemsGrow ==
  ASSUME NEW k \in Nat, NEW m \in Nat, k <= m
  PROVE  Items(k) \subseteq Items(m)
  BY CapsulesGrow DEF Items

LEMMA ItemTypes ==
  ASSUME NEW k \in Nat, NEW x \in Items(k)
  PROVE  /\ x.do = "telling" => x.to \in Seq(Roles) \ {<<>>} /\ x.capsule \in Capsules(k)
         /\ x.do \in {"assign", "replay", "commit"} => x.role \in Roles
  BY DEF Items

LEMMA ItemsAre ==
  ASSUME NEW k \in Nat
  PROVE  /\ \A d \in {"remember", "route", "repair", "gate", "again", "baseline"} :
              Do(d) \in Items(k)
         /\ \A r \in Roles : /\ Assign(r) \in Items(k) /\ Commit(r) \in Items(k)
                             /\ [do |-> "replay", role |-> r] \in Items(k)
         /\ \A to \in Seq(Roles) \ {<<>>}, c \in Capsules(k) : Telling(to, c) \in Items(k)
<1>1. \A d \in {"remember", "route", "repair", "gate", "again", "baseline"} :
        Do(d) \in Items(k)
  BY DEF Items, Do
<1>2. \A r \in Roles : /\ Assign(r) \in Items(k) /\ Commit(r) \in Items(k)
                       /\ [do |-> "replay", role |-> r] \in Items(k)
  BY DEF Items, Assign, Commit
<1>3. \A to \in Seq(Roles) \ {<<>>}, c \in Capsules(k) : Telling(to, c) \in Items(k)
  BY DEF Items, Telling
<1> QED
  BY <1>1, <1>2, <1>3

LEMMA PlanRest ==
  ASSUME NEW k \in Nat, NEW n \in Nat, NEW C, NEW t, NEW s, Plan(t, s, k, n, C), s # <<>>
  PROVE  /\ Plan(t, Tail(s), k, n, C) /\ Head(s) \in Items(k) /\ t # "operator"
         /\ Head(s).do \in Opens => ~Opening(Tail(s)) /\ (t = "reviewer" => n <= k)
         /\ t # "reviewer" => Head(s).do # "repair"
         /\ t \in Roles => t \in C
<1> DEFINE w == Tail(s)
<1>1. s \in Seq(Items(k)) /\ Len(s) \in Nat /\ Len(s) # 0 /\ 1 \in DOMAIN s /\ Head(s) = s[1]
  BY DEF Plan
<1>2. /\ w \in Seq(Items(k)) /\ DOMAIN w = 1 .. Len(s) - 1 /\ DOMAIN s = 1 .. Len(s)
      /\ \A i \in DOMAIN w : i + 1 \in DOMAIN s /\ w[i] = s[i + 1] /\ i \in Nat
  BY <1>1
<1> HIDE DEF w
<1>3. Once(w)
  <2> SUFFICES ASSUME NEW i \in DOMAIN w, NEW j \in DOMAIN w, w[i].do \in Opens, w[j].do \in Opens
               PROVE  i = j
    BY DEF Once
  <2>1. i + 1 = j + 1
    BY <1>2 DEF Plan, Once
  <2> QED
    BY <2>1, <1>2
<1>4. Head(s).do \in Opens => ~Opening(w)
  <2> SUFFICES ASSUME Head(s).do \in Opens, NEW i \in DOMAIN w, w[i].do \in Opens PROVE FALSE
    BY DEF Opening
  <2>1. i + 1 = 1
    BY <1>1, <1>2 DEF Plan, Once
  <2> QED
    BY <2>1, <1>2
<1>5. Opening(w) => Opening(s)
  BY <1>2 DEF Opening
<1>6. t # "reviewer" => NoRepair(w)
  BY <1>2 DEF NoRepair, Plan
<1>7. t = "operator" => w = <<>>
  BY DEF Plan
<1>8. t # "reviewer" => Head(s).do # "repair"
  BY <1>1 DEF NoRepair, Plan
<1>9. Head(s).do \in Opens => Opening(s)
  BY <1>1 DEF Opening
<1>10. Plan(t, w, k, n, C)
  BY <1>2, <1>3, <1>5, <1>6, <1>7 DEF Plan
<1> QED
  BY <1>1, <1>4, <1>8, <1>9, <1>10 DEF Plan, w

LEMMA PlanEmpty ==
  ASSUME NEW k \in Nat, NEW n \in Nat, NEW C, NEW t
  PROVE  Plan(t, <<>>, k, n, C)
  BY DEF Plan, Once, Opening, NoRepair

\* What opens no round may come first.
LEMMA PlanCons ==
  ASSUME NEW k \in Nat, NEW n \in Nat, NEW C, NEW t \in C, t # "operator",
         NEW s, Plan(t, s, k, n, C), NEW x \in Items(k), x.do \notin Opens
  PROVE  Plan(t, <<x>> \o s, k, n, C) /\ <<x>> \o s # <<>>
<1> DEFINE w == <<x>> \o s
<1>1. s \in Seq(Items(k)) /\ Len(s) \in Nat /\ DOMAIN s = 1 .. Len(s)
  BY DEF Plan
<1>2. /\ w \in Seq(Items(k)) /\ DOMAIN w = 1 .. Len(s) + 1 /\ w[1] = x /\ w # <<>>
      /\ \A i \in DOMAIN w : /\ i \in Nat /\ i # 0
                            /\ i # 1 => i - 1 \in DOMAIN s /\ w[i] = s[i - 1]
  BY <1>1
<1> HIDE DEF w
<1>3. \A i \in DOMAIN w : w[i].do \in Opens => i # 1
  BY <1>2
<1>4. Once(w)
  <2> SUFFICES ASSUME NEW i \in DOMAIN w, NEW j \in DOMAIN w, w[i].do \in Opens, w[j].do \in Opens
               PROVE  i = j
    BY DEF Once
  <2>1. i - 1 = j - 1
    BY <1>2, <1>3 DEF Plan, Once
  <2> QED
    BY <2>1, <1>2
<1>5. Opening(w) => Opening(s)
  BY <1>2, <1>3 DEF Opening
<1>6. t # "reviewer" => NoRepair(w)
  <2>1. x.do # "repair"
    BY DEF Opens
  <2> QED
    BY <2>1, <1>2 DEF NoRepair, Plan
<1> QED
  BY <1>2, <1>4, <1>5, <1>6 DEF Plan, w

\* With no round to open, the round does not matter.
LEMMA PlanRound ==
  ASSUME NEW k \in Nat, NEW n, NEW m, NEW C, NEW t, NEW s, Plan(t, s, k, n, C),
         t # "reviewer" \/ ~Opening(s)
  PROVE  Plan(t, s, k, m, C)
  BY DEF Plan

LEMMA PlanGrows ==
  ASSUME NEW k \in Nat, NEW m \in Nat, k <= m, NEW n \in Nat, NEW C, NEW D, C \subseteq D,
         NEW t, NEW s, Plan(t, s, k, n, C)
  PROVE  Plan(t, s, m, n, D)
<1>1. s \in Seq(Items(m))
  <2>1. s \in Seq(Items(k))
    BY DEF Plan
  <2>2. \A i \in 1 .. Len(s) : s[i] \in Items(m)
    BY <2>1, ItemsGrow
  <2> QED
    BY <2>1, <2>2
<1>2. n <= k => n <= m
  OBVIOUS
<1> QED
  BY <1>1, <1>2 DEF Plan

-----------------------------------------------------------------------------
(* Lines of sends.                                                              *)

LEMMA LastOfNone ==
  ASSUME NEW h PROVE LastTold(<<>>, h) = h
  BY DEF LastTold

\* The largest of some numbers.
LEMMA MaxIsThere ==
  ASSUME NEW n \in Nat, NEW S \in SUBSET (1 .. n), S # {}
  PROVE  \E i \in S : \A j \in S : j <= i
<1> DEFINE T == {n - i : i \in S}
<1>1. T \in SUBSET Nat /\ T # {}
  <2>1. \A i \in S : n - i \in Nat
    OBVIOUS
  <2>2. PICK i \in S : TRUE
    OBVIOUS
  <2>3. n - i \in T
    BY <2>2
  <2> QED
    BY <2>1, <2>3
<1> HIDE DEF T
<1>2. PICK d \in T : \A e \in T : ~(<<e, d>> \in OpToRel(<, Nat))
  BY <1>1, NatLessThanWellFounded, WFMin
<1>3. \A e \in T : d <= e
  <2>1. ASSUME NEW e \in T, e < d PROVE FALSE
    <3>1. <<e, d>> \in {ss \in Nat \X Nat : ss[1] < ss[2]}
      BY <1>1, <2>1
    <3> QED
      BY <1>2, <3>1 DEF OpToRel
  <2> QED
    BY <1>1, <2>1
<1>4. PICK i \in S : d = n - i
  BY DEF T
<1>5. ASSUME NEW j \in S PROVE j <= i
  <2>1. n - j \in T
    BY DEF T
  <2>2. d <= n - j
    BY <1>3, <2>1
  <2> QED
    BY <2>2, <1>4
<1> QED
  BY <1>5

\* The last of some numbers of a line is found.
LEMMA LastIsThere ==
  ASSUME NEW n \in Nat, NEW S \in SUBSET (1 .. n), S # {}
  PROVE  LET last == CHOOSE i \in S : \A j \in S : j <= i
         IN  last \in S /\ \A j \in S : j <= last
<1>1. \E i \in S : \A j \in S : j <= i
  BY MaxIsThere
<1> QED
  BY <1>1

LEMMA LastOfMore ==
  ASSUME NEW q \in Seq(Entries), NEW e \in Entries, NEW h
  PROVE  LastTold(Append(q, e), h) = IF IsState(e) THEN e.frame.capsule ELSE LastTold(q, h)
<1> DEFINE w == Append(q, e)
           n == Len(q)
           S == {i \in DOMAIN q : IsState(q[i])}
           T == {i \in DOMAIN w : IsState(w[i])}
           last == CHOOSE i \in T : \A j \in T : j <= i
<1>1. /\ n \in Nat /\ DOMAIN q = 1 .. n /\ DOMAIN w = 1 .. n + 1
      /\ \A i \in 1 .. n : w[i] = q[i]
      /\ w[n + 1] = e
  OBVIOUS
<1>2. LastTold(w, h) = IF T = {} THEN h ELSE w[last].frame.capsule
  BY DEF LastTold
<1> HIDE DEF w, n
<1>3. CASE IsState(e)
  <2>1. n + 1 \in T /\ T \in SUBSET (1 .. n + 1) /\ n + 1 \in Nat
    BY <1>1, <1>3
  <2> HIDE DEF T
  <2>2. last \in T /\ \A j \in T : j <= last
    BY <2>1, LastIsThere
  <2> HIDE DEF last
  <2>3. last = n + 1
    BY <2>1, <2>2
  <2> QED
    BY <2>1, <2>3, <1>1, <1>2, <1>3 DEF w
<1>4. CASE ~IsState(e)
  <2>1. T = S
    <3>1. ASSUME NEW i \in T PROVE i \in S
      <4>1. i # n + 1 /\ i \in 1 .. n + 1
        BY <1>1, <1>4
      <4>2. i \in 1 .. n
        BY <4>1, <1>1
      <4> QED
        BY <4>2, <1>1
    <3>2. ASSUME NEW i \in S PROVE i \in T
      <4>1. i \in 1 .. n /\ i \in 1 .. n + 1
        BY <1>1
      <4> QED
        BY <4>1, <1>1
    <3> QED
      BY <3>1, <3>2
  <2>2. S # {} => last \in 1 .. n
    <3> SUFFICES ASSUME S # {} PROVE last \in 1 .. n
      OBVIOUS
    <3>1. T \in SUBSET (1 .. n) /\ T # {}
      BY <2>1, <1>1
    <3> HIDE DEF S, T
    <3> QED
      BY <3>1, <1>1, LastIsThere
  <2>3. LastTold(q, h) = IF S = {} THEN h ELSE q[last].frame.capsule
    <3> DEFINE first == CHOOSE i \in S : \A j \in S : j <= i
    <3>1. LastTold(q, h) = IF S = {} THEN h ELSE q[first].frame.capsule
      BY DEF LastTold
    <3> HIDE DEF S, T
    <3>2. first = last
      BY <2>1
    <3> QED
      BY <3>1, <3>2
  <2> HIDE DEF S, T, last
  <2>4. S # {} => w[last] = q[last]
    BY <2>2, <1>1
  <2> QED
    BY <2>1, <2>3, <2>4, <1>2, <1>4 DEF w
<1> QED
  BY <1>3, <1>4

LEMMA LastOfOne ==
  ASSUME NEW e \in Entries, NEW h
  PROVE  LastTold(<<e>>, h) = IF IsState(e) THEN e.frame.capsule ELSE h
<1>1. <<>> \in Seq(Entries) /\ Append(<<>>, e) = <<e>>
  OBVIOUS
<1>2. LastTold(Append(<<>>, e), h) = IF IsState(e) THEN e.frame.capsule ELSE LastTold(<<>>, h)
  BY <1>1, LastOfMore
<1>3. LastTold(<<>>, h) = h
  BY LastOfNone
<1> QED
  BY <1>1, <1>2, <1>3

\* What is last stays last when the first has drained and the next is written.
LEMMA LastOfRest ==
  ASSUME NEW q \in Seq(Entries), q # <<>>, NEW h, HeadIs(q, h),
         NEW g, g = IF Len(q) = 1 \/ ~IsState(q[2]) THEN h ELSE q[2].frame.capsule
  PROVE  LastTold(Tail(q), g) = LastTold(q, h) /\ HeadIs(Tail(q), g)
<1> DEFINE w == Tail(q)
           n == Len(q)
           S == {i \in DOMAIN q : IsState(q[i])}
           T == {i \in DOMAIN w : IsState(w[i])}
           last == CHOOSE i \in S : \A j \in S : j <= i
           next == CHOOSE i \in T : \A j \in T : j <= i
<1>1. /\ n \in Nat /\ n # 0 /\ DOMAIN q = 1 .. n /\ DOMAIN w = 1 .. n - 1 /\ Len(w) = n - 1
      /\ \A i \in 1 .. n - 1 : w[i] = q[i + 1]
  OBVIOUS
<1>2. /\ LastTold(w, g) = IF T = {} THEN g ELSE w[next].frame.capsule
      /\ LastTold(q, h) = IF S = {} THEN h ELSE q[last].frame.capsule
  BY DEF LastTold
<1>3. HeadIs(w, g)
  <2> SUFFICES ASSUME w # <<>>, IsState(w[1]) PROVE g = w[1].frame.capsule
    BY DEF HeadIs
  <2>1. n # 1 /\ 1 \in 1 .. n - 1
    BY <1>1
  <2>2. w[1] = q[2]
    BY <2>1, <1>1
  <2> QED
    BY <2>1, <2>2
<1> HIDE DEF w, n
<1>4. S \in SUBSET (1 .. n) /\ T \in SUBSET (1 .. n - 1) /\ n - 1 \in Nat
  BY <1>1
<1>5. \A i \in T : i + 1 \in S
  <2> SUFFICES ASSUME NEW i \in T PROVE i + 1 \in S
    OBVIOUS
  <2>1. i \in 1 .. n - 1 /\ i + 1 \in 1 .. n
    BY <1>1
  <2> QED
    BY <2>1, <1>1
<1>6. \A i \in S : i = 1 \/ i - 1 \in T
  <2> SUFFICES ASSUME NEW i \in S, i # 1 PROVE i - 1 \in T
    OBVIOUS
  <2>1. i \in 1 .. n /\ i - 1 \in 1 .. n - 1 /\ (i - 1) + 1 = i
    BY <1>1
  <2> QED
    BY <2>1, <1>1
<1>7. CASE T # {}
  <2>1. next \in T /\ \A j \in T : j <= next
    <3> HIDE DEF T
    <3> QED
      BY <1>4, <1>7, LastIsThere
  <2>2. next + 1 \in S
    BY <2>1, <1>5
  <2>3. last \in S /\ \A j \in S : j <= last
    <3>1. S # {}
      BY <2>2
    <3> HIDE DEF S
    <3> QED
      BY <3>1, <1>1, <1>4, LastIsThere
  <2> HIDE DEF last, next
  <2>4. next \in 1 .. n - 1 /\ last \in 1 .. n
    BY <2>1, <2>3, <1>4
  <2>5. next + 1 <= last
    BY <2>2, <2>3
  <2>6. last # 1
    BY <2>4, <2>5, <1>1
  <2>7. last - 1 <= next
    BY <2>1, <2>3, <2>6, <1>6
  <2>8. last = next + 1
    BY <2>4, <2>5, <2>7, <1>1
  <2>9. w[next] = q[last]
    BY <2>4, <2>8, <1>1
  <2> QED
    BY <2>2, <2>9, <1>2, <1>3, <1>7 DEF w
<1>8. CASE T = {}
  <2>1. n # 1 => ~IsState(q[2])
    <3> SUFFICES ASSUME n # 1, IsState(q[2]) PROVE FALSE
      OBVIOUS
    <3>1. 2 \in S
      BY <1>1
    <3>2. 2 - 1 \in T
      BY <3>1, <1>6
    <3> QED
      BY <3>2, <1>8
  <2>2. g = h
    BY <2>1 DEF n
  <2>3. CASE S = {}
    BY <2>2, <2>3, <1>2, <1>3, <1>8 DEF w
  <2>4. CASE S # {}
    <3>1. last \in S
      <4> HIDE DEF S
      <4> QED
        BY <2>4, <1>1, <1>4, LastIsThere
    <3>2. last = 1
      BY <3>1, <1>6, <1>8
    <3>3. q[last].frame.capsule = h
      BY <3>1, <3>2 DEF HeadIs
    <3> QED
      BY <2>2, <2>4, <3>3, <1>2, <1>3, <1>8 DEF w
  <2> QED
    BY <2>3, <2>4
<1> QED
  BY <1>7, <1>8

LEMMA CountsKeep ==
  ASSUME RunStateAssumption, limits \in LimitType,
         \/ Counts("edits", MaxEdits)
         \/ Counts("stalls", MaxStalls)
         \/ Counts("breaks", MaxBreaks)
  PROVE  limits' \in LimitType
<1>1. /\ MaxEdits \in Nat /\ MaxStalls \in Nat /\ MaxBreaks \in Nat
      /\ limits.edits \in 0 .. MaxEdits /\ limits.stalls \in 0 .. MaxStalls
      /\ limits.breaks \in 0 .. MaxBreaks
  BY DEF RunStateAssumption, LimitType
<1>2. ASSUME Counts("edits", MaxEdits) PROVE limits' \in LimitType
  <2>1. limits.edits + 1 \in 0 .. MaxEdits
    BY <1>1, <1>2 DEF Counts
  <2> QED
    BY <2>1, <1>2 DEF Counts, LimitType
<1>3. ASSUME Counts("stalls", MaxStalls) PROVE limits' \in LimitType
  <2>1. limits.stalls + 1 \in 0 .. MaxStalls
    BY <1>1, <1>3 DEF Counts
  <2> QED
    BY <2>1, <1>3 DEF Counts, LimitType
<1>4. ASSUME Counts("breaks", MaxBreaks) PROVE limits' \in LimitType
  <2>1. limits.breaks + 1 \in 0 .. MaxBreaks
    BY <1>1, <1>4 DEF Counts
  <2> QED
    BY <2>1, <1>4 DEF Counts, LimitType
<1> QED
  BY <1>2, <1>3, <1>4

\* A send, whatever the worker's speed.
LEMMA SendIs ==
  ASSUME NEW t, NEW r \in Roles, NEW frame \in Frames, NEW rest,
         t \in Coroutines, RunStateAssumption, ReportInv, QueueInv, Send(t, r, frame, rest)
  PROVE  /\ steps' = [steps EXCEPT ![t] = rest]
         /\ turn' \in {"", t} /\ (turn' = t => rest # <<>> \/ t = "")
         /\ queue' \in [Roles -> Seq(Entries)]
         /\ heard' \in [Roles -> Capsules(MaxReports)]
         /\ \A q \in Roles \ {r} : queue'[q] = queue[q] /\ heard'[q] = heard[q]
         /\ HeadIs(queue'[r], heard'[r])
         /\ LastTold(queue'[r], heard'[r]) =
              IF frame.kind = "run_state" THEN frame.capsule ELSE LastTold(queue[r], heard[r])
         /\ limits' \in LimitType
<1> DEFINE e == [by |-> t, frame |-> frame]
           h == Written(frame, r)
<1>1. /\ e \in Entries /\ e.frame = frame
      /\ IsState(e) <=> frame.kind = "run_state"
  BY DEF Entries, IsState
<1>2. h \in Capsules(MaxReports) /\ h = IF frame.kind = "run_state" THEN frame.capsule ELSE heard[r]
  BY DEF Written, Frames, QueueInv
<1>3. /\ queue[r] \in Seq(Entries) /\ heard[r] \in Capsules(MaxReports)
      /\ HeadIs(queue[r], heard[r])
      /\ queue \in [Roles -> Seq(Entries)] /\ heard \in [Roles -> Capsules(MaxReports)]
  BY DEF QueueInv
<1>4. UNCHANGED limits => limits' \in LimitType
  BY DEF ReportInv
<1> HIDE DEF h
<1>5. CASE /\ queue[r] = <<>> /\ GoesOn(t, rest)
           /\ heard' = [heard EXCEPT ![r] = h] /\ UNCHANGED <<queue, limits>>
  BY <1>2, <1>3, <1>4, <1>5, LastOfNone DEF GoesOn, HeadIs
<1>6. CASE /\ queue[r] = <<>> /\ GivesWay(t, rest) /\ Counts("stalls", MaxStalls)
           /\ heard' = [heard EXCEPT ![r] = h] /\ queue' = [queue EXCEPT ![r] = <<e>>]
  <2>1. limits' \in LimitType
    BY <1>6, CountsKeep DEF ReportInv
  <2>2. /\ queue'[r] = <<e>> /\ heard'[r] = h
        /\ \A q \in Roles \ {r} : queue'[q] = queue[q] /\ heard'[q] = heard[q]
        /\ queue' \in [Roles -> Seq(Entries)] /\ heard' \in [Roles -> Capsules(MaxReports)]
    <3>1. <<e>> \in Seq(Entries)
      BY <1>1
    <3> HIDE DEF e
    <3> QED
      BY <3>1, <1>2, <1>3, <1>6
  <2>3. HeadIs(queue'[r], heard'[r])
    <3>1. <<e>>[1] = e
      OBVIOUS
    <3> HIDE DEF e
    <3> QED
      BY <3>1, <2>2, <1>1, <1>2 DEF HeadIs
  <2>4. LastTold(<<e>>, h) = IF IsState(e) THEN e.frame.capsule ELSE h
    BY <1>1, LastOfOne
  <2>5. steps' = [steps EXCEPT ![t] = rest] /\ turn' = ""
    BY <1>6 DEF GivesWay
  <2>6. LastTold(queue[r], heard[r]) = heard[r]
    BY <1>6, LastOfNone
  <2> HIDE DEF e
  <2> QED
    BY <2>1, <2>2, <2>3, <2>4, <2>5, <2>6, <1>1, <1>2
<1>7. CASE /\ queue[r] # <<>> /\ GivesWay(t, rest)
           /\ queue' = [queue EXCEPT ![r] = Append(@, e)]
           /\ UNCHANGED <<heard, limits>>
  <2>1. /\ queue'[r] = Append(queue[r], e) /\ heard' = heard
        /\ \A q \in Roles \ {r} : queue'[q] = queue[q]
        /\ queue' \in [Roles -> Seq(Entries)]
    <3>1. Append(queue[r], e) \in Seq(Entries)
      BY <1>1, <1>3
    <3> HIDE DEF e
    <3> QED
      BY <3>1, <1>3, <1>7
  <2>2. HeadIs(queue'[r], heard'[r])
    <3>1. Append(queue[r], e)[1] = queue[r][1]
      BY <1>3, <1>7
    <3> HIDE DEF e
    <3> QED
      BY <3>1, <2>1, <1>3, <1>7 DEF HeadIs
  <2>3. LastTold(queue'[r], heard'[r]) = IF IsState(e) THEN e.frame.capsule ELSE LastTold(queue[r], heard[r])
    BY <2>1, <1>1, <1>3, LastOfMore
  <2>4. steps' = [steps EXCEPT ![t] = rest] /\ turn' = ""
    BY <1>7 DEF GivesWay
  <2> HIDE DEF e
  <2> QED
    BY <2>1, <2>2, <2>3, <2>4, <1>1, <1>3, <1>4, <1>7
<1> QED
  BY <1>5, <1>6, <1>7 DEF Send, h

-----------------------------------------------------------------------------
(* What a step of one handler leaves as it is.                                  *)

LEMMA PlanKeeps ==
  ASSUME StepInv, filed' = filed, round' = round, clients' = clients,
         NEW t \in Coroutines, NEW rest, Plan(t, rest, Len(filed), round, clients),
         steps' = [steps EXCEPT ![t] = rest],
         turn' \in {"", t}, turn' = t => rest # <<>> \/ t = ""
  PROVE  StepInv'
<1>1. rest \in Seq(Items(Len(filed)))
  BY DEF Plan
<1>2. steps' \in [Coroutines -> Seq(Items(Len(filed)))]
  BY <1>1 DEF StepInv
<1>3. \A q \in Coroutines : Plan(q, steps'[q], Len(filed), round, clients)
  BY DEF StepInv
<1>4. turn' \in Coroutines \cup {""} /\ (turn' # "" => steps'[turn'] # <<>>)
  BY DEF StepInv
<1> QED
  BY <1>2, <1>3, <1>4 DEF StepInv

LEMMA StepsRest ==
  ASSUME StepInv, UNCHANGED <<filed, round, clients, steps, turn>>
  PROVE  StepInv'
  BY DEF StepInv

\* The handler that is at a step of its own, which is none that looks.
LEMMA AtIs ==
  ASSUME RunStateAssumption, ReportInv, StepInv, NEW t \in Coroutines, NEW do, At(t, do)
  PROVE  /\ t \in Roles /\ t \in clients /\ turn \in {"", t} /\ steps[t] # <<>>
         /\ Plan(t, Rest(t), Len(filed), round, clients)
         /\ Head(steps[t]) \in Items(Len(filed)) /\ Head(steps[t]).do = do
         /\ do \in Opens => ~Opening(Rest(t)) /\ (t = "reviewer" => round <= Len(filed))
         /\ t # "reviewer" => do # "repair"
         /\ do = "telling" => /\ Head(steps[t]).to \in Seq(Roles) \ {<<>>}
                              /\ Head(steps[t]).capsule \in Capsules(Len(filed))
         /\ do \in {"assign", "replay", "commit"} => Head(steps[t]).role \in Roles
<1>1. Len(filed) \in Nat /\ round \in Nat
  BY DEF ReportInv
<1>2. Plan(t, steps[t], Len(filed), round, clients) /\ steps[t] # <<>>
  BY DEF At, StepInv
<1>3. /\ Plan(t, Tail(steps[t]), Len(filed), round, clients)
      /\ Head(steps[t]) \in Items(Len(filed)) /\ t # "operator"
      /\ Head(steps[t]).do \in Opens => /\ ~Opening(Tail(steps[t]))
                                        /\ t = "reviewer" => round <= Len(filed)
      /\ t # "reviewer" => Head(steps[t]).do # "repair"
      /\ t \in Roles => t \in clients
  BY <1>1, <1>2, PlanRest
<1>4. t \in Roles
  BY <1>3 DEF Coroutines
<1>5. turn \in {"", t} /\ Head(steps[t]).do = do
  BY DEF At
<1>6. /\ do = "telling" => /\ Head(steps[t]).to \in Seq(Roles) \ {<<>>}
                           /\ Head(steps[t]).capsule \in Capsules(Len(filed))
      /\ do \in {"assign", "replay", "commit"} => Head(steps[t]).role \in Roles
  BY <1>1, <1>3, <1>5, ItemTypes
<1> QED
  BY <1>2, <1>3, <1>4, <1>5, <1>6 DEF Rest

\* Whoever looks has the event loop.
LEMMA LookerIs ==
  ASSUME RunStateAssumption, LooksInv
  PROVE  /\ turn = "" => ~look.on
         /\ \A t, do : At(t, do) /\ do \notin {"remember", "assign", "replay"} => ~look.on
         /\ \A t, do : At(t, do) /\ look.on => turn = t
         /\ \A t : At(t, "remember") /\ look.on => Retained # {}
<1>1. "" \notin Roles
  BY NamesDiffer DEF Coroutines
<1>2. look.on => turn \in Roles /\ Head(steps[turn]).do \in {"remember", "assign", "replay"}
  BY DEF LooksInv, LookType
<1>3. turn = "" => ~look.on
  BY <1>1, <1>2
<1>4. \A t, do : At(t, do) /\ look.on => turn = t
  BY <1>3 DEF At
<1>5. \A t, do : At(t, do) /\ do \notin {"remember", "assign", "replay"} => ~look.on
  BY <1>2, <1>4 DEF At
<1>6. \A t : At(t, "remember") /\ look.on => Retained # {}
  BY <1>4 DEF At, LooksInv, LookType
<1> QED
  BY <1>3, <1>4, <1>5, <1>6

\* With no look under way a step that leaves files and receipts keeps the looks.
LEMMA LooksRest ==
  ASSUME LooksInv, ~look.on, UNCHANGED <<receipts, guidance, files, look, fresh>>
  PROVE  LooksInv'
<1>1. LookType'
  BY DEF LooksInv, LookType, Place
<1>2. ReceiptInv'
  BY DEF LooksInv, ReceiptInv, Remembers, Current
<1>3. RememberInv' /\ HintInv'
  BY DEF RememberInv, HintInv
<1> QED
  BY <1>1, <1>2, <1>3 DEF LooksInv

\* So does the end of a look that is not for a receipt.
LEMMA LooksEnd ==
  ASSUME RunStateAssumption, LooksInv, ~(look.on /\ Head(steps[turn]).do = "remember"),
         look' = Unread, UNCHANGED <<receipts, guidance, files, fresh>>
  PROVE  LooksInv'
<1>1. /\ look'.on = FALSE /\ look'.seen = <<>> /\ look' \in
          [on : BOOLEAN, seen : Seq(Nat), fresh : SUBSET Roles, failed : BOOLEAN]
  BY DEF Unread
<1>2. Files \in Nat
  BY DEF RunStateAssumption
<1>3. LookType'
  <2>1. Len(look'.seen) <= 2 * Files /\ Len(look'.seen) = 0
    BY <1>1, <1>2
  <2> QED
    BY <2>1, <1>1 DEF LooksInv, LookType, Place, Unread
<1>4. ReceiptInv'
  BY DEF LooksInv, ReceiptInv, Remembers, Current
<1>5. RememberInv' /\ HintInv'
  BY <1>1 DEF RememberInv, HintInv
<1> QED
  BY <1>3, <1>4, <1>5 DEF LooksInv

LEMMA QueueRest ==
  ASSUME QueueInv, ReportInv, filed' = filed, clients \subseteq clients',
         UNCHANGED <<queue, heard, kept, owed, pending>>
  PROVE  QueueInv'
  BY DEF QueueInv

\* A send to r, with what is kept, owed and pending of the others as it was.
LEMMA QueueSent ==
  ASSUME QueueInv, filed' = filed, clients' = clients, NEW r \in clients, clients \subseteq Roles,
         queue' \in [Roles -> Seq(Entries)],
         heard' \in [Roles -> Capsules(MaxReports)],
         \A q \in Roles \ {r} : queue'[q] = queue[q] /\ heard'[q] = heard[q],
         HeadIs(queue'[r], heard'[r]),
         kept' \in [Roles -> Capsules(MaxReports)], owed' \in [Roles -> 0 .. Len(filed)],
         pending' \in SUBSET Roles,
         \A q \in Roles \ {r} :
            kept'[q] = kept[q] /\ owed'[q] = owed[q] /\ (q \in pending => q \in pending'),
         r \in pending' \/ /\ kept'[r].n >= owed'[r]
                           /\ LastTold(queue'[r], heard'[r]).n >= owed'[r]
  PROVE  QueueInv'
<1>1. ASSUME NEW q \in Roles
      PROVE  /\ q \in clients' \/ queue'[q] = <<>>
             /\ HeadIs(queue'[q], heard'[q])
             /\ q \in pending' \/ /\ kept'[q].n >= owed'[q]
                                  /\ LastTold(queue'[q], heard'[q]).n >= owed'[q]
  <2>1. CASE q = r
    BY <2>1
  <2>2. CASE q # r
    BY <2>2 DEF QueueInv
  <2> QED
    BY <2>1, <2>2
<1> QED
  BY <1>1 DEF QueueInv

-----------------------------------------------------------------------------
(* Every action keeps the invariant.                                            *)

LEMMA BoundsAreNumbers ==
  ASSUME RunStateAssumption
  PROVE  /\ Files \in Nat /\ MaxReports \in Nat /\ MaxEdits \in Nat
         /\ MaxGuidance \in Nat /\ MaxStalls \in Nat /\ MaxBreaks \in Nat
<1> DEFINE S == {Files, MaxReports, MaxEdits, MaxGuidance, MaxStalls, MaxBreaks}
<1>1. S \subseteq Nat
  BY DEF RunStateAssumption
<1>2. /\ Files \in S /\ MaxReports \in S /\ MaxEdits \in S
      /\ MaxGuidance \in S /\ MaxStalls \in S /\ MaxBreaks \in S
  OBVIOUS
<1> QED
  BY <1>1, <1>2

LEMMA NothingIs ==
  ASSUME RunStateAssumption
  PROVE  /\ Nothing \in Capsules(MaxReports) /\ Nothing.n = 0
         /\ \A k \in Nat : Len(filed) = k => Plain \in Capsules(k) /\ Plain.n = k
         /\ MaxReports \in Nat /\ Files \in Nat /\ MaxGuidance \in Nat
<1>1. MaxReports \in Nat /\ Files \in Nat /\ MaxGuidance \in Nat
  BY BoundsAreNumbers
<1>2. Nothing.n = 0 /\ \A k \in Nat : Nothing \in Capsules(k)
  BY DEF Nothing, Capsules
<1>3. ASSUME NEW k \in Nat, Len(filed) = k PROVE Plain \in Capsules(k) /\ Plain.n = k
  BY <1>3 DEF Plain, Nothing, Capsules
<1> QED
  BY <1>1, <1>2, <1>3

\* A stamp is of all files, and there is none of no file.
LEMMA StampsAre ==
  ASSUME RunStateAssumption, LookType, NEW q \in Roles, receipts[q].stamp # <<>>
  PROVE  /\ Files \in Nat /\ Files # 0
         /\ receipts[q].stamp \in Seq(Nat) /\ Len(receipts[q].stamp) = Files
         /\ \A i \in 1 .. Files : receipts[q].stamp[i] \in Nat /\ receipts[q].stamp[i] <= files[i]
<1>1. /\ receipts[q].stamp \in Seq(Nat) /\ Len(receipts[q].stamp) = Files
      /\ \A i \in 1 .. Files : receipts[q].stamp[i] <= files[i]
  BY DEF LookType
<1>2. Files \in Nat
  BY NothingIs
<1> DEFINE s == receipts[q].stamp
<1> HIDE DEF s
<1>3. s \in Seq(Nat) /\ Len(s) = Files /\ s # <<>>
  BY <1>1 DEF s
<1>4. Files # 0 /\ \A i \in 1 .. Files : s[i] \in Nat
  BY <1>2, <1>3
<1> QED
  BY <1>1, <1>2, <1>4 DEF s

LEMMA InitState == RunStateAssumption /\ Init => StateInv
<1> SUFFICES ASSUME RunStateAssumption, Init PROVE StateInv
  OBVIOUS
<1>1. /\ MaxReports \in Nat /\ MaxEdits \in Nat /\ MaxStalls \in Nat /\ MaxBreaks \in Nat
      /\ Files \in Nat /\ MaxGuidance \in Nat
  BY BoundsAreNumbers
<1>2. filed = <<>> /\ Len(filed) = 0 /\ DOMAIN filed = {} /\ round = 1
  <2>1. filed = <<>> /\ round = 1
    BY DEF Init
  <2> QED
    BY <2>1
<1>3. ReportInv
  <2>1. limits \in LimitType
    <3>1. limits = [edits |-> 0, stalls |-> 0, breaks |-> 0]
      BY DEF Init
    <3> QED
      BY <3>1, <1>1 DEF LimitType
  <2>2. /\ decided \subseteq Specialists /\ activated \subseteq decided /\ busy \subseteq Roles
        /\ gated = 0
    BY NamesDiffer DEF Init
  <2>3. filed \in Seq([by : Roles, round : Nat])
    BY <1>2
  <2>4. Len(filed) <= MaxReports /\ round \in Nat \ {0} /\ round <= Len(filed) + 1 /\ gated \in 0 .. round
    BY <1>1, <1>2, <2>2
  <2> QED
    BY <1>2, <2>1, <2>2, <2>3, <2>4 DEF ReportInv
<1>4. StepInv
  <2>1. /\ clients = Roles /\ turn = "" /\ steps = [t \in Coroutines |-> <<>>]
    BY DEF Init
  <2>2. \A t \in Coroutines : Plan(t, <<>>, Len(filed), round, clients)
    BY <1>2, PlanEmpty
  <2>3. <<>> \in Seq(Items(Len(filed)))
    OBVIOUS
  <2> QED
    BY <2>1, <2>2, <2>3 DEF StepInv
<1>5. QueueInv
  <2>1. /\ queue = [r \in Roles |-> <<>>] /\ heard = [r \in Roles |-> Nothing]
        /\ kept = [r \in Roles |-> Nothing] /\ owed = [r \in Roles |-> 0] /\ pending = {}
    BY DEF Init
  <2>2. <<>> \in Seq(Entries) /\ LastTold(<<>>, Nothing) = Nothing /\ HeadIs(<<>>, Nothing)
    BY LastOfNone DEF HeadIs
  <2> QED
    BY <2>1, <2>2, <1>2, NothingIs DEF QueueInv
<1>6. LooksInv
  <2>1. /\ files = [f \in 1 .. Files |-> 0] /\ look = Unread /\ fresh = {} /\ guidance = 0
        /\ receipts = [r \in Roles |-> [stamp |-> <<>>, guidance |-> -1]]
    BY DEF Init, NoStamp
  <2>2. look.on = FALSE /\ look.seen = <<>> /\ Len(look.seen) = 0
        /\ look \in [on : BOOLEAN, seen : Seq(Nat), fresh : SUBSET Roles, failed : BOOLEAN]
    BY <2>1 DEF Unread
  <2>3. [stamp |-> <<>>, guidance |-> -1] \in [stamp : Seq(Nat), guidance : Int]
    OBVIOUS
  <2>4. \A q \in Roles : receipts[q].stamp = <<>> /\ receipts[q].guidance = -1
    BY <2>1
  <2>5. LookType
    BY <2>1, <2>2, <2>3, <2>4, <1>1 DEF LookType
  <2>6. ReceiptInv /\ RememberInv /\ HintInv
    BY <2>2, <2>4 DEF ReceiptInv, RememberInv, HintInv
  <2> QED
    BY <2>5, <2>6 DEF LooksInv
<1> QED
  BY <1>3, <1>4, <1>5, <1>6 DEF StateInv

LEMMA EditKeeps ==
  ASSUME RunStateAssumption, StateInv, NEW f \in 1 .. Files, Edit(f)
  PROVE  StateInv'
<1>1. /\ UNCHANGED <<filed, round, busy, decided, activated, gated, clients, steps, turn, queue>>
      /\ UNCHANGED <<pending, kept, heard, owed, receipts, guidance, look>>
      /\ files' = [files EXCEPT ![f] = @ + 1] /\ fresh' = {} /\ Counts("edits", MaxEdits)
  BY DEF Edit, reports, told
<1>2. ReportInv'
  BY <1>1, CountsKeep DEF StateInv, ReportInv
<1>3. StepInv'
  BY <1>1, StepsRest DEF StateInv
<1>4. QueueInv'
  BY <1>1, QueueRest DEF StateInv
<1>5. /\ files \in [1 .. Files -> Nat] /\ files' \in [1 .. Files -> Nat]
      /\ \A i \in 1 .. Files : files[i] <= files'[i] /\ files[i] \in Nat /\ files'[i] \in Nat
      /\ files'[f] = files[f] + 1
  <2>1. files \in [1 .. Files -> Nat]
    BY DEF StateInv, LooksInv, LookType
  <2> QED
    BY <1>1, <2>1
<1>6. Files \in Nat /\ Files # 0
  BY NothingIs
<1>7. look.seen \in Seq(Nat) /\ Len(look.seen) \in Nat /\ Len(look.seen) <= 2 * Files
  BY DEF StateInv, LooksInv, LookType
<1>8. \A i \in 1 .. Len(look.seen) :
        Place(i) \in 1 .. Files /\ look.seen[i] \in Nat /\ look.seen[i] <= files[Place(i)]
  <2>1. \A i \in 1 .. Len(look.seen) : look.seen[i] <= files[Place(i)]
    BY DEF StateInv, LooksInv, LookType
  <2>2. \A i \in 1 .. Len(look.seen) : Place(i) \in 1 .. Files /\ look.seen[i] \in Nat
    BY <1>6, <1>7 DEF Place
  <2> QED
    BY <2>1, <2>2
<1>9. LookType'
  <2>1. \A i \in 1 .. Len(look.seen) : look.seen[i] <= files'[Place(i)]
    BY <1>5, <1>8
  <2>2. \A q \in Roles : receipts[q].stamp # <<>> =>
          \A i \in 1 .. Files : receipts[q].stamp[i] \in Nat /\ receipts[q].stamp[i] <= files[i]
    BY StampsAre DEF StateInv, LooksInv
  <2>3. \A q \in Roles : receipts[q].stamp # <<>> =>
          \A i \in 1 .. Files : receipts[q].stamp[i] <= files'[i]
    BY <2>2, <1>5
  <2>4. /\ guidance' = guidance /\ receipts' = receipts /\ look' = look /\ turn' = turn
        /\ steps' = steps /\ fresh' = {}
    BY <1>1
  <2>5. \A i : Place(i)' = Place(i)
    BY DEF Place
  <2> QED
    BY <2>1, <2>3, <2>4, <2>5, <1>5 DEF StateInv, LooksInv, LookType
<1>10. ReceiptInv'
  <2> SUFFICES ASSUME NEW q \in Roles, receipts[q].stamp # <<>>,
                      \A i \in 1 .. Files : receipts[q].stamp[i] = files'[i]
               PROVE  FALSE
    BY <1>1 DEF ReceiptInv
  <2>1. receipts[q].stamp[f] <= files[f]
    BY DEF StateInv, LooksInv, LookType
  <2> QED
    BY <2>1, <1>5
<1>11. RememberInv'
  <2> SUFFICES ASSUME Len(look.seen) >= Files, \A i \in 1 .. Files : look.seen[i] = files'[i]
               PROVE  FALSE
    BY <1>1 DEF RememberInv
  <2>1. f \in 1 .. Len(look.seen) /\ Place(f) = f
    BY <1>6, <1>7 DEF Place
  <2>2. look.seen[f] <= files[f]
    BY <2>1, <1>8
  <2> QED
    BY <2>2, <1>5
<1>9a. HintInv'
  <2>1. \A i \in 1 .. Files : Len(look.seen) >= Files /\ Noticed(i) => Noticed(i)'
    <3> SUFFICES ASSUME NEW i \in 1 .. Files, Len(look.seen) >= Files, Noticed(i)
                 PROVE  Noticed(i)'
      OBVIOUS
    <3>1. i \in 1 .. Len(look.seen)
      BY <1>6, <1>7
    <3>2. look.seen[i] < files[i] /\ look.seen[i] \in Nat
      BY <3>1, <1>8 DEF Noticed
    <3>3. look.seen[i] < files'[i]
      BY <3>2, <1>5
    <3> QED
      BY <3>3, <1>1 DEF Noticed
  <2> QED
    BY <2>1, <1>1 DEF StateInv, LooksInv, HintInv, Current
<1> QED
  BY <1>2, <1>3, <1>4, <1>9, <1>10, <1>11, <1>9a DEF StateInv, LooksInv

\* What one that looks is at.
LEMMA ObserverIs ==
  ASSUME RunStateAssumption, StateInv, NEW t \in Coroutines, Observes(t)
  PROVE  /\ t \in Roles /\ turn \in {"", t} /\ steps[t] # <<>>
         /\ Head(steps[t]).do \in {"remember", "assign", "replay"}
         /\ Head(steps[t]).do = "remember" => Retained # {}
         /\ At(t, "remember") <=> Head(steps[t]).do = "remember"
         /\ look.on => turn = t
<1>1. At(t, "remember") \/ At(t, "assign") \/ At(t, "replay")
  BY DEF Observes, Renders
<1>2. /\ t \in Roles /\ turn \in {"", t} /\ steps[t] # <<>>
      /\ Head(steps[t]).do \in {"remember", "assign", "replay"}
  BY <1>1, AtIs DEF StateInv, At
<1>3. At(t, "remember") <=> Head(steps[t]).do = "remember"
  BY <1>1 DEF At
<1>4. Head(steps[t]).do = "remember" => Retained # {}
  BY DEF Observes, Renders, At
<1>5. look.on => turn = t
  BY <1>1, LookerIs DEF StateInv
<1> QED
  BY <1>2, <1>3, <1>4, <1>5

LEMMA LookKeeps ==
  ASSUME RunStateAssumption, StateInv, NEW t \in Coroutines, Look(t)
  PROVE  StateInv'
<1>1. /\ UNCHANGED <<filed, round, busy, decided, activated, gated, clients, steps, queue>>
      /\ UNCHANGED <<pending, kept, heard, owed, receipts, guidance, files, limits>>
      /\ Observes(t) /\ ~look.on
      /\ look' = [Unread EXCEPT !.on = TRUE] /\ turn' = t
      /\ fresh' = IF At(t, "remember") THEN fresh \ {t} ELSE fresh
  BY DEF Look, reports, told
<1>2. /\ t \in Roles /\ steps[t] # <<>> /\ Head(steps[t]).do \in {"remember", "assign", "replay"}
      /\ Head(steps[t]).do = "remember" => Retained # {}
      /\ At(t, "remember") <=> Head(steps[t]).do = "remember"
  BY <1>1, ObserverIs
<1>3. Files \in Nat /\ t # ""
  BY NothingIs, NamesDiffer
<1>4. ReportInv'
  BY <1>1 DEF StateInv, ReportInv
<1>5. StepInv'
  BY <1>1, <1>2 DEF StateInv, StepInv
<1>6. QueueInv'
  BY <1>1, QueueRest DEF StateInv
<1>7. /\ look'.on = TRUE /\ look'.seen = <<>> /\ Len(look'.seen) = 0
      /\ look' \in [on : BOOLEAN, seen : Seq(Nat), fresh : SUBSET Roles, failed : BOOLEAN]
  <2>1. look' = [on |-> TRUE, seen |-> <<>>, fresh |-> {}, failed |-> FALSE]
    BY <1>1 DEF Unread
  <2> QED
    BY <2>1
<1>8. LookType'
  BY <1>1, <1>2, <1>3, <1>7 DEF StateInv, LooksInv, LookType
<1>9. ReceiptInv'
  <2> SUFFICES ASSUME NEW q \in Roles, receipts[q].stamp # <<>>, Current(q),
                      \A i \in 1 .. Files : receipts[q].stamp[i] = files[i]
               PROVE  q \in fresh' \/ (q = t /\ Head(steps[t]).do = "remember")
    BY <1>1, <1>7 DEF ReceiptInv, Remembers, Current
  <2>1. q \in fresh
    BY <1>1 DEF StateInv, LooksInv, ReceiptInv, Remembers
  <2> QED
    BY <2>1, <1>1, <1>2
<1>9a. Len(look'.seen) >= Files => Files = 0
  <2>1. Files \in Nat
    BY NothingIs
  <2>2. 0 >= Files => Files = 0
    BY <2>1
  <2>3. Len(look'.seen) = 0
    BY <1>7
  <2> QED
    BY <2>2, <2>3
<1>10. RememberInv'
  BY <1>9a DEF RememberInv
<1>11. HintInv'
  <2> SUFFICES ASSUME Len(look'.seen) >= Files, NEW q \in Roles, receipts[q].stamp # <<>>
               PROVE  FALSE
    BY <1>1 DEF HintInv
  <2>1. Files = 0
    BY <1>9a
  <2> QED
    BY <2>1, StampsAre DEF StateInv, LooksInv
<1> QED
  BY <1>4, <1>5, <1>6, <1>8, <1>9, <1>10, <1>11 DEF StateInv, LooksInv

LEMMA UnreadableKeeps ==
  ASSUME RunStateAssumption, StateInv, NEW t \in Coroutines, Unreadable(t)
  PROVE  StateInv'
<1>1. /\ UNCHANGED <<filed, round, busy, decided, activated, gated, clients, steps, turn, queue>>
      /\ UNCHANGED <<pending, kept, heard, owed, receipts, guidance, fresh, files, limits>>
      /\ Observes(t) /\ look.on /\ look' = [look EXCEPT !.failed = TRUE]
  BY DEF Unreadable, reports, told, hints
<1>2. /\ look'.on /\ look'.seen = look.seen /\ look'.fresh = look.fresh
      /\ look' \in [on : BOOLEAN, seen : Seq(Nat), fresh : SUBSET Roles, failed : BOOLEAN]
  BY <1>1 DEF StateInv, LooksInv, LookType
<1>3. ReportInv' /\ StepInv' /\ QueueInv'
  BY <1>1, StepsRest, QueueRest DEF StateInv, ReportInv
<1>4. LookType'
  BY <1>1, <1>2 DEF StateInv, LooksInv, LookType, Place
<1>5. ReceiptInv' /\ RememberInv'
  BY <1>1, <1>2 DEF StateInv, LooksInv, ReceiptInv, RememberInv, Remembers, Current
<1>6. HintInv'
  BY <1>1, <1>2 DEF StateInv, LooksInv, HintInv, Noticed, Current
<1> QED
  BY <1>3, <1>4, <1>5, <1>6 DEF StateInv, LooksInv

LEMMA AppendIs ==
  ASSUME NEW S, NEW s \in Seq(S), NEW v \in S
  PROVE  /\ Append(s, v) \in Seq(S) /\ Len(s) \in Nat /\ Len(Append(s, v)) = Len(s) + 1
         /\ DOMAIN Append(s, v) = 1 .. Len(s) + 1
         /\ \A j \in 1 .. Len(s) : Append(s, v)[j] = s[j] /\ s[j] \in S
         /\ \A j \in 1 .. Len(s) + 1 : Append(s, v)[j] \in S
         /\ Append(s, v)[Len(s) + 1] = v
<1> DEFINE w == Append(s, v)
<1>1. /\ w \in Seq(S) /\ Len(s) \in Nat /\ Len(w) = Len(s) + 1 /\ w[Len(s) + 1] = v
      /\ \A j \in 1 .. Len(s) : w[j] = s[j] /\ s[j] \in S
  <2>1. w \in Seq(S)
    OBVIOUS
  <2>2. Len(s) \in Nat /\ Len(w) = Len(s) + 1
    OBVIOUS
  <2>3. w[Len(s) + 1] = v
    OBVIOUS
  <2>4. \A j \in 1 .. Len(s) : s[j] \in S
    OBVIOUS
  <2>5. \A j \in 1 .. Len(s) : w[j] = s[j]
    <3> TAKE j \in 1 .. Len(s)
    <3>1. j \in 1 .. Len(s) + 1 /\ j # Len(s) + 1 /\ Len(s) \in Nat
      BY <2>2
    <3> QED
      BY <3>1
  <2> QED
    BY <2>1, <2>2, <2>3, <2>4, <2>5
<1> HIDE DEF w
<1>2. DOMAIN w = 1 .. Len(s) + 1 /\ \A j \in 1 .. Len(s) + 1 : w[j] \in S
  BY <1>1
<1> QED
  BY <1>1, <1>2 DEF w

LEMMA TailIs ==
  ASSUME NEW S, NEW s \in Seq(S), s # <<>>
  PROVE  /\ Head(s) = s[1] /\ s[1] \in S /\ Tail(s) \in Seq(S)
         /\ Len(s) \in Nat /\ Len(s) # 0
         /\ Len(s) # 1 => s[2] \in S /\ Tail(s) # <<>>
<1>1. Len(s) \in Nat /\ Len(s) # 0
  OBVIOUS
<1>2. Head(s) = s[1] /\ s[1] \in S
  BY <1>1
<1>3. Tail(s) \in Seq(S)
  OBVIOUS
<1>4. Len(s) # 1 => s[2] \in S
  BY <1>1
<1>5. Len(s) # 1 => Tail(s) # <<>>
  <2> DEFINE w == Tail(s)
             n == Len(s)
  <2>1. n \in Nat /\ Len(w) = n - 1 /\ Len(<<>>) = 0
    BY <1>1
  <2> HIDE DEF w, n
  <2>2. w = <<>> => n = 1
    BY <2>1
  <2> QED
    BY <2>2 DEF w, n
<1> QED
  BY <1>1, <1>2, <1>3, <1>4, <1>5

LEMMA ReadKeeps ==
  ASSUME RunStateAssumption, StateInv, NEW t \in Coroutines, Read(t)
  PROVE  StateInv'
<1> DEFINE s == look.seen
           n == Len(s)
           i == n + 1
           w == Append(s, files[Place(i)])
<1>1. /\ UNCHANGED <<filed, round, busy, decided, activated, gated, clients, steps, turn, queue>>
      /\ UNCHANGED <<pending, kept, heard, owed, receipts, guidance, files, limits>>
      /\ Observes(t) /\ look.on /\ ~Looked
      /\ look' = [look EXCEPT !.seen = w, !.fresh = IF i = Files THEN fresh ELSE look.fresh]
      /\ fresh' = IF i = Files /\ At(t, "remember") THEN fresh \cup {t} ELSE fresh
  BY DEF Read, reports, told, Place
<1>2. /\ t \in Roles /\ turn = t
      /\ At(t, "remember") <=> Head(steps[t]).do = "remember"
  BY <1>1, ObserverIs
<1>3. /\ LookType /\ ReceiptInv /\ RememberInv /\ HintInv
  BY DEF StateInv, LooksInv
<1>4. /\ Files \in Nat /\ s \in Seq(Nat) /\ n \in Nat /\ n <= 2 * Files /\ n # 2 * Files
  BY <1>1, <1>3, NothingIs DEF LookType, Looked
<1>5. i <= 2 * Files /\ Place(i) \in 1 .. Files /\ Files # 0
  BY <1>4 DEF Place
<1>6. files \in [1 .. Files -> Nat] /\ files[Place(i)] \in Nat
  BY <1>3, <1>5 DEF LookType
<1>7. /\ w \in Seq(Nat) /\ Len(w) = i
      /\ \A j \in 1 .. n : w[j] = s[j] /\ w[j] \in Nat
      /\ \A j \in 1 .. i : w[j] \in Nat
      /\ w[i] = files[Place(i)]
  <2> DEFINE v == files[Place(i)]
  <2>1. v \in Nat /\ s \in Seq(Nat)
    BY <1>4, <1>6
  <2> HIDE DEF v, s
  <2>2. /\ Append(s, v) \in Seq(Nat) /\ Len(Append(s, v)) = Len(s) + 1
        /\ \A j \in 1 .. Len(s) : Append(s, v)[j] = s[j] /\ s[j] \in Nat
        /\ \A j \in 1 .. Len(s) + 1 : Append(s, v)[j] \in Nat
        /\ Append(s, v)[Len(s) + 1] = v
    BY <2>1, AppendIs
  <2> QED
    BY <2>2 DEF v
<1>7a. n \in Nat /\ i \in Nat /\ i = n + 1 /\ Files \in Nat
  BY <1>4
<1> HIDE DEF w
<1>8. /\ look'.seen = w /\ look'.on /\ look'.failed = look.failed
      /\ look'.fresh = IF i = Files THEN fresh ELSE look.fresh
      /\ look' \in [on : BOOLEAN, seen : Seq(Nat), fresh : SUBSET Roles, failed : BOOLEAN]
      /\ fresh' \subseteq Roles /\ fresh \subseteq fresh'
  BY <1>1, <1>2, <1>3, <1>7 DEF LookType
<1>9. ReportInv' /\ StepInv' /\ QueueInv'
  BY <1>1, StepsRest, QueueRest DEF StateInv, ReportInv
<1>10. \A j \in 1 .. n : s[j] <= files[Place(j)]
  BY <1>3 DEF LookType
<1>11. \A j \in 1 .. i : w[j] <= files[Place(j)]
  <2> SUFFICES ASSUME NEW j \in 1 .. i PROVE w[j] <= files[Place(j)]
    OBVIOUS
  <2>1. CASE j = i
    BY <2>1, <1>6, <1>7
  <2>2. CASE j # i
    <3>1. j \in 1 .. n
      BY <2>2, <1>4
    <3> QED
      BY <3>1, <1>7, <1>10
  <2> QED
    BY <2>1, <2>2
<1>12. LookType'
  <2>1. Len(look'.seen) = i /\ look'.on
    BY <1>7, <1>8
  <2>2. \A j : Place(j)' = Place(j)
    BY DEF Place
  <2>3. \A j \in 1 .. Len(look'.seen) : look'.seen[j] <= files'[Place(j)]
    BY <2>1, <1>1, <1>8, <1>11
  <2>4. Len(look'.seen) <= 2 * Files
    BY <2>1, <1>5
  <2> QED
    BY <2>1, <2>2, <2>3, <2>4, <1>1, <1>3, <1>8 DEF LookType
<1>13. ReceiptInv'
  BY <1>1, <1>3, <1>8 DEF ReceiptInv, Remembers, Current
<1>14. RememberInv'
  <2> SUFFICES ASSUME Head(steps[t]).do = "remember", i >= Files,
                      \A j \in 1 .. Files : w[j] = files[j]
               PROVE  t \in fresh'
    BY <1>1, <1>2, <1>7, <1>8 DEF RememberInv
  <2>1. CASE i = Files
    BY <2>1, <1>1, <1>2
  <2>2. CASE i # Files
    <3>1. n >= Files /\ \A j \in 1 .. Files : j \in 1 .. n
      BY <2>2, <1>4
    <3>2. \A j \in 1 .. Files : s[j] = files[j]
      BY <3>1, <1>7
    <3>3. t \in fresh
      BY <3>1, <3>2, <1>1, <1>2, <1>3, <1>5 DEF RememberInv
    <3> QED
      BY <3>3, <1>8
  <2> QED
    BY <2>1, <2>2
<1>15. HintInv'
  <2> SUFFICES ASSUME Head(steps[t]).do # "remember", i >= Files,
                      NEW q \in Roles, receipts[q].stamp # <<>>, Current(q),
                      \A j \in 1 .. Files : receipts[q].stamp[j] = w[j]
               PROVE  q \in look'.fresh \/ \E j \in 1 .. Files : Noticed(j)'
    BY <1>1, <1>2, <1>7, <1>8 DEF HintInv, Current
  <2>1. CASE i = Files
    <3>1. CASE \A j \in 1 .. Files : w[j] = files[j]
      <4>1. \A j \in 1 .. Files : receipts[q].stamp[j] = files[j]
        BY <3>1
      <4>2. q \in fresh \/ Remembers(q)
        BY <4>1, <1>3 DEF ReceiptInv
      <4>3. ~Remembers(q)
        BY <1>2 DEF Remembers
      <4> QED
        BY <4>2, <4>3, <2>1, <1>8
    <3>2. CASE \E j \in 1 .. Files : w[j] # files[j]
      <4>1. PICK j \in 1 .. Files : w[j] # files[j]
        BY <3>2
      <4>2. j \in 1 .. i /\ Place(j) = j /\ j \in Nat /\ j # 0
        BY <2>1, <1>4 DEF Place
      <4>3. w[j] <= files[j] /\ w[j] \in Nat /\ files[j] \in Nat
        <5>1. w[j] <= files[Place(j)] /\ w[j] \in Nat
          BY <4>2, <1>7, <1>11
        <5>2. files[j] \in Nat
          BY <1>6
        <5> QED
          BY <5>1, <5>2, <4>2
      <4>4. w[j] < files[j] /\ ~(Files + j <= i)
        BY <4>1, <4>2, <4>3, <2>1, <1>4
      <4>5. Noticed(j)'
        BY <4>4, <1>1, <1>7, <1>8 DEF Noticed
      <4> QED
        BY <4>5
    <3> QED
      BY <3>1, <3>2
  <2>2. CASE i # Files
    <3>1. n >= Files /\ \A j \in 1 .. Files : j \in 1 .. n
      BY <2>2, <1>4
    <3>2. \A j \in 1 .. Files : receipts[q].stamp[j] = s[j]
      BY <3>1, <1>7
    <3>3. q \in look.fresh \/ \E j \in 1 .. Files : Noticed(j)
      BY <3>1, <3>2, <1>1, <1>2, <1>3 DEF HintInv
    <3>4. ASSUME NEW j \in 1 .. Files, Noticed(j) PROVE Noticed(j)'
      <4>1. s[j] < files[j] /\ w[j] = s[j]
        BY <3>1, <3>4, <1>7 DEF Noticed
      <4>2. ASSUME Files + j <= i PROVE w[j] < w[Files + j]
        <5>1. CASE Files + j = i
          <6>1. Place(i) = j
            BY <5>1, <1>4 DEF Place
          <6> QED
            BY <5>1, <6>1, <4>1, <1>7
        <5>2. CASE Files + j # i
          <6>1. Files + j <= n /\ Files + j \in 1 .. n
            <7> HIDE DEF i, n
            <7>1. j \in Nat /\ j # 0
              BY <1>7a
            <7> QED
              BY <7>1, <4>2, <5>2, <1>7a
          <6> QED
            BY <6>1, <4>1, <3>4, <1>7 DEF Noticed
        <5> QED
          BY <5>1, <5>2
      <4> QED
        BY <4>1, <4>2, <1>1, <1>7, <1>8 DEF Noticed
    <3> QED
      BY <2>2, <3>3, <3>4, <1>8
  <2> QED
    BY <2>1, <2>2
<1> QED
  BY <1>9, <1>12, <1>13, <1>14, <1>15 DEF StateInv, LooksInv

LEMMA DrainedKeeps ==
  ASSUME RunStateAssumption, StateInv, NEW r \in Roles, Drained(r)
  PROVE  StateInv'
<1> DEFINE q == queue[r]
           by == q[1].by
           g == IF Len(q) = 1 \/ ~IsState(q[2]) THEN heard[r] ELSE q[2].frame.capsule
<1>1. /\ UNCHANGED <<filed, round, busy, decided, activated, gated, clients, steps>>
      /\ UNCHANGED <<pending, kept, owed, receipts, guidance, fresh, files, look, limits>>
      /\ turn = "" /\ q # <<>> /\ queue' = [queue EXCEPT ![r] = Tail(q)]
  BY DEF Drained, reports, hints
<1>2. /\ q \in Seq(Entries) /\ heard \in [Roles -> Capsules(MaxReports)]
      /\ queue \in [Roles -> Seq(Entries)] /\ HeadIs(q, heard[r])
      /\ r \in pending \/ /\ kept[r].n >= owed[r]
                           /\ LastTold(q, heard[r]).n >= owed[r]
      /\ kept \in [Roles -> Capsules(MaxReports)] /\ owed \in [Roles -> 0 .. Len(filed)]
      /\ pending \in SUBSET Roles /\ r \in clients /\ clients \subseteq Roles
  BY <1>1 DEF StateInv, QueueInv, StepInv
<1>3. Head(q) = q[1] /\ q[1] \in Entries /\ Tail(q) \in Seq(Entries)
  BY <1>1, <1>2, TailIs
<1>4. by \in Coroutines
  BY <1>3 DEF Entries
<1>5. Len(q) # 1 => q[2] \in Entries
  BY <1>1, <1>2, TailIs
<1>6. heard' = IF Len(q) = 1 THEN heard ELSE [heard EXCEPT ![r] = Written(q[2].frame, r)]
  BY DEF Drained
<1>7. g \in Capsules(MaxReports)
  BY <1>2, <1>5 DEF Entries, Frames, IsState
<1>8. heard' \in [Roles -> Capsules(MaxReports)] /\ heard'[r] = g
      /\ \A p \in Roles \ {r} : heard'[p] = heard[p]
  <2>1. CASE Len(q) = 1
    BY <2>1, <1>2, <1>6
  <2>2. CASE Len(q) # 1
    <3>1. Written(q[2].frame, r) = g
      BY <2>2 DEF Written, IsState
    <3> HIDE DEF g
    <3> QED
      BY <2>2, <3>1, <1>2, <1>6, <1>7
  <2> QED
    BY <2>1, <2>2
<1>9. LastTold(Tail(q), g) = LastTold(q, heard[r]) /\ HeadIs(Tail(q), g)
  BY <1>1, <1>2, LastOfRest
<1>10. /\ queue' \in [Roles -> Seq(Entries)] /\ queue'[r] = Tail(q)
       /\ \A p \in Roles \ {r} : queue'[p] = queue[p]
  BY <1>1, <1>2, <1>3
<1>11. QueueInv'
  <2> HIDE DEF q, g
  <2>1. \A p \in Roles \ {r} : queue'[p] = queue[p] /\ heard'[p] = heard[p]
    BY <1>8, <1>10
  <2>2. HeadIs(queue'[r], heard'[r]) /\ LastTold(queue'[r], heard'[r]) = LastTold(q, heard[r])
    BY <1>8, <1>9, <1>10
  <2>3. r \in pending' \/ /\ kept'[r].n >= owed'[r]
                          /\ LastTold(queue'[r], heard'[r]).n >= owed'[r]
    BY <2>2, <1>1, <1>2
  <2> QED
    BY <2>1, <2>2, <2>3, <1>1, <1>2, <1>8, <1>10, QueueSent DEF StateInv
<1>12. ReportInv'
  BY <1>1 DEF StateInv, ReportInv
<1>13. StepInv'
  <2>1. turn' = IF steps[by] = <<>> THEN "" ELSE by
    BY <1>3 DEF Drained
  <2> QED
    BY <2>1, <1>1, <1>4 DEF StateInv, StepInv
<1>14. LooksInv'
  BY <1>1, LookerIs, LooksRest DEF StateInv
<1> QED
  BY <1>11, <1>12, <1>13, <1>14 DEF StateInv

LEMMA ReportKeeps ==
  ASSUME RunStateAssumption, StateInv, NEW r \in Roles, Report(r)
  PROVE  StateInv'
<1> DEFINE k == Len(filed)
           x == [by |-> r, round |-> round]
           rest == <<Do("remember"), Do("route")>>
<1>1. /\ UNCHANGED <<round, decided, activated, gated, clients, queue, pending, kept, heard, owed>>
      /\ UNCHANGED <<receipts, guidance, fresh, files, look, limits>>
      /\ turn = "" /\ r \in clients /\ k < MaxReports
      /\ filed' = Append(filed, x) /\ busy' = busy \ {r} /\ GoesOn(r, rest)
  BY DEF Report, told, hints
<1>2. /\ filed \in Seq([by : Roles, round : Nat]) /\ k \in Nat /\ round \in Nat \ {0}
      /\ round <= k + 1 /\ MaxReports \in Nat
      /\ \A i \in 1 .. k : filed[i].round \in 1 .. round
  BY NothingIs DEF StateInv, ReportInv
<1>3. x \in [by : Roles, round : Nat] /\ x.round = round
  BY <1>2
<1>4. /\ filed' \in Seq([by : Roles, round : Nat]) /\ Len(filed') = k + 1
      /\ DOMAIN filed' = 1 .. k + 1
      /\ \A i \in 1 .. k : filed'[i] = filed[i]
      /\ filed'[k + 1] = x
  <2> DEFINE R == [by : Roles, round : Nat]
  <2>1. x \in R /\ filed \in Seq(R) /\ filed' = Append(filed, x)
    BY <1>1, <1>2, <1>3
  <2> HIDE DEF x, R
  <2> QED
    BY <2>1, AppendIs DEF R
<1>5. ReportInv'
  <2>1. \A i \in 1 .. k + 1 : filed'[i].round \in 1 .. round
    <3> SUFFICES ASSUME NEW i \in 1 .. k + 1 PROVE filed'[i].round \in 1 .. round
      OBVIOUS
    <3>1. CASE i = k + 1
      <4> HIDE DEF x, k
      <4>1. filed'[i].round = round
        BY <3>1, <1>3, <1>4
      <4> QED
        BY <4>1, <1>2
    <3>2. CASE i # k + 1
      <4>1. i \in 1 .. k
        BY <3>2, <1>2
      <4> QED
        BY <4>1, <1>2, <1>4
    <3> QED
      BY <3>1, <3>2
  <2>2. k + 1 <= MaxReports /\ round <= (k + 1) + 1
    <3>1. k < MaxReports
      BY <1>1
    <3> HIDE DEF k
    <3> QED
      BY <3>1, <1>2
  <2> QED
    BY <2>1, <2>2, <1>1, <1>4 DEF StateInv, ReportInv
<1>6. Plan(r, rest, k + 1, round, clients) /\ rest # <<>>
  <2>1. /\ rest[1] = Do("remember") /\ rest[2] = Do("route") /\ DOMAIN rest = 1 .. 2
        /\ rest # <<>>
    OBVIOUS
  <2>2. rest \in Seq(Items(k + 1))
    BY <1>2, ItemsAre
  <2>3. Do("remember").do = "remember" /\ Do("route").do = "route"
    BY DEF Do
  <2> HIDE DEF rest
  <2>4. \A i \in DOMAIN rest : i = 1 \/ i = 2
    BY <2>1
  <2>5. Once(rest) /\ NoRepair(rest)
    BY <2>1, <2>3, <2>4 DEF Once, NoRepair, Opens
  <2> QED
    BY <2>1, <2>2, <2>5, <1>1, <1>2, NamesDiffer DEF Plan
<1>7. StepInv'
  <2> HIDE DEF rest
  <2>1. /\ steps' = [steps EXCEPT ![r] = rest] /\ turn' = r
        /\ steps \in [Coroutines -> Seq(Items(k))] /\ r \in Coroutines
    BY <1>1, <1>6, NamesDiffer DEF GoesOn, StateInv, StepInv
  <2>2. \A t \in Coroutines : Plan(t, steps[t], k + 1, round, clients)
    <3>1. k + 1 \in Nat /\ k <= k + 1 /\ clients \subseteq clients /\ round \in Nat
      BY <1>2
    <3>2. \A t \in Coroutines : Plan(t, steps[t], k, round, clients)
      BY DEF StateInv, StepInv
    <3> HIDE DEF k
    <3> QED
      BY <3>1, <3>2, <1>2, PlanGrows
  <2>3. ASSUME NEW t \in Coroutines PROVE Plan(t, steps'[t], k + 1, round, clients)
    <3>1. CASE t = r
      BY <3>1, <2>1, <1>6
    <3>2. CASE t # r
      BY <3>2, <2>1, <2>2
    <3> QED
      BY <3>1, <3>2
  <2>4. steps' \in [Coroutines -> Seq(Items(k + 1))]
    BY <2>1, <2>3 DEF Plan
  <2>5. steps'[r] # <<>>
    BY <2>1, <1>6
  <2> QED
    BY <2>1, <2>3, <2>4, <2>5, <1>1, <1>4 DEF StateInv, StepInv
<1>8. QueueInv'
  <2>1. 0 .. k \subseteq 0 .. Len(filed')
    BY <1>2, <1>4
  <2>2. owed \in [Roles -> 0 .. Len(filed')]
    BY <2>1 DEF StateInv, QueueInv
  <2> QED
    BY <2>2, <1>1 DEF StateInv, QueueInv
<1>9. LooksInv'
  BY <1>1, LookerIs, LooksRest DEF StateInv
<1> QED
  BY <1>5, <1>7, <1>8, <1>9 DEF StateInv

-----------------------------------------------------------------------------
(* What a handler may be given to do.                                           *)

\* Steps that open no round.
Quiet(k) == {x \in Items(k) : x.do \notin Opens}

LEMMA PlanOf ==
  ASSUME NEW k \in Nat, NEW n \in Nat, NEW C, NEW t \in C, t # "operator", NEW s \in Seq(Quiet(k))
  PROVE  Plan(t, s, k, n, C) /\ ~Opening(s)
<1>1. \A i \in DOMAIN s : s[i] \in Quiet(k)
  OBVIOUS
<1>2. s \in Seq(Items(k)) /\ \A i \in DOMAIN s : s[i].do \notin Opens
  <2>1. \A i \in DOMAIN s : s[i] \in Items(k) /\ s[i].do \notin Opens
    BY <1>1 DEF Quiet
  <2> QED
    BY <2>1
<1>3. \A i \in DOMAIN s : s[i].do # "repair"
  BY <1>2 DEF Opens
<1> QED
  BY <1>2, <1>3 DEF Plan, Once, Opening, NoRepair

LEMMA QuietAre ==
  ASSUME NEW k \in Nat
  PROVE  /\ \A d \in {"remember", "gate", "again", "baseline"} : Do(d) \in Quiet(k)
         /\ \A r \in Roles : /\ Assign(r) \in Quiet(k) /\ Commit(r) \in Quiet(k)
                             /\ [do |-> "replay", role |-> r] \in Quiet(k)
         /\ \A to \in Seq(Roles) \ {<<>>}, c \in Capsules(k) : Telling(to, c) \in Quiet(k)
<1>1. \A d \in {"remember", "gate", "again", "baseline"} : Do(d) \in Quiet(k)
  <2> TAKE d \in {"remember", "gate", "again", "baseline"}
  <2>1. Do(d) \in Items(k)
    BY ItemsAre
  <2>2. Do(d).do = d /\ d \notin Opens
    BY DEF Do, Opens
  <2> QED
    BY <2>1, <2>2 DEF Quiet
<1>2. \A r \in Roles : /\ Assign(r) \in Quiet(k) /\ Commit(r) \in Quiet(k)
                       /\ [do |-> "replay", role |-> r] \in Quiet(k)
  <2> TAKE r \in Roles
  <2>1. /\ Assign(r) \in Items(k) /\ Commit(r) \in Items(k)
        /\ [do |-> "replay", role |-> r] \in Items(k)
    BY ItemsAre
  <2>2. /\ Assign(r).do \notin Opens /\ Commit(r).do \notin Opens
        /\ [do |-> "replay", role |-> r].do \notin Opens
    BY DEF Assign, Commit, Opens
  <2> QED
    BY <2>1, <2>2 DEF Quiet
<1>3. \A to \in Seq(Roles) \ {<<>>}, c \in Capsules(k) : Telling(to, c) \in Quiet(k)
  <2> TAKE to \in Seq(Roles) \ {<<>>}, c \in Capsules(k)
  <2>1. Telling(to, c) \in Items(k)
    BY ItemsAre
  <2>2. Telling(to, c).do \notin Opens
    BY DEF Telling, Opens
  <2> QED
    BY <2>1, <2>2 DEF Quiet
<1> QED
  BY <1>1, <1>2, <1>3

LEMMA ConcatIs ==
  ASSUME NEW S, NEW s \in Seq(S), NEW w \in Seq(S)
  PROVE  s \o w \in Seq(S)
  OBVIOUS

LEMMA OrderIs ==
  ASSUME NEW S, IsFiniteSet(S)
  PROVE  SetToSeq(S) \in Seq(S)
<1>1. Cardinality(S) \in Nat /\ ExistsBijection(1 .. Cardinality(S), S)
  BY FS_CardinalityType
<1>2. PICK f \in Bijection(1 .. Cardinality(S), S) : TRUE
  BY <1>1 DEF ExistsBijection
<1>3. f \in [1 .. Cardinality(S) -> S] /\ IsInjective(f)
  BY <1>2 DEF Bijection, Injection
<1>4. SetToSeq(S) \in [1 .. Cardinality(S) -> S]
  BY <1>3 DEF SetToSeq
<1> DEFINE s == SetToSeq(S)
<1> HIDE DEF s
<1>5. s \in [1 .. Cardinality(S) -> S]
  BY <1>4 DEF s
<1>6. s \in Seq(S)
  BY <1>1, <1>5
<1> QED
  BY <1>6 DEF s

\* A handler that begins when its role joins.
LEMMA JoinKeeps ==
  ASSUME RunStateAssumption, ReportInv, StepInv, filed' = filed, round' = round, NEW r \in Roles,
         clients' = clients \cup {r}, NEW rest \in Seq(Quiet(Len(filed))), rest # <<>>,
         GoesOn(r, rest)
  PROVE  StepInv'
<1>1. Len(filed) \in Nat /\ round \in Nat
  BY DEF ReportInv
<1>2. r \in Coroutines /\ r # "operator" /\ r # ""
  BY NamesDiffer
<1>3. steps' = [steps EXCEPT ![r] = rest] /\ turn' = r
  BY DEF GoesOn
<1>4. Plan(r, rest, Len(filed), round, clients')
  BY <1>1, <1>2, PlanOf
<1>5. steps \in [Coroutines -> Seq(Items(Len(filed)))] /\ rest \in Seq(Items(Len(filed)))
  BY <1>4 DEF StepInv, Plan
<1>6. ASSUME NEW t \in Coroutines PROVE Plan(t, steps'[t], Len(filed), round, clients')
  <2>1. CASE t = r
    BY <2>1, <1>3, <1>4, <1>5
  <2>2. CASE t # r
    <3>1. Plan(t, steps[t], Len(filed), round, clients) /\ clients \subseteq clients'
      BY DEF StepInv
    <3>2. Plan(t, steps[t], Len(filed), round, clients')
      BY <3>1, <1>1, PlanGrows
    <3> QED
      BY <2>2, <3>2, <1>3, <1>5
  <2> QED
    BY <2>1, <2>2
<1>7. steps' \in [Coroutines -> Seq(Items(Len(filed)))] /\ steps'[r] = rest
  BY <1>2, <1>3, <1>5
<1>8. clients' \subseteq Roles
  BY DEF StepInv
<1> QED
  BY <1>2, <1>3, <1>6, <1>7, <1>8 DEF StepInv

\* A step that sends.
LEMMA SendKeeps ==
  ASSUME RunStateAssumption, ReportInv, StepInv, QueueInv,
         UNCHANGED <<filed, round, clients>>,
         NEW t \in Coroutines, NEW r \in clients, NEW frame \in Frames, NEW rest,
         Plan(t, rest, Len(filed), round, clients), Send(t, r, frame, rest),
         kept' \in [Roles -> Capsules(MaxReports)], owed' \in [Roles -> 0 .. Len(filed)],
         pending' \in SUBSET Roles,
         \A q \in Roles \ {r} :
            kept'[q] = kept[q] /\ owed'[q] = owed[q] /\ (q \in pending => q \in pending'),
         \/ r \in pending'
         \/ /\ kept'[r].n >= owed'[r]
            /\ frame.kind = "run_state" => frame.capsule.n >= owed'[r]
            /\ frame.kind # "run_state" => owed'[r] = owed[r] /\ r \notin pending
  PROVE  StepInv' /\ QueueInv' /\ limits' \in LimitType
<1>1. r \in Roles /\ clients \subseteq Roles
  BY DEF StepInv
<1>2. /\ steps' = [steps EXCEPT ![t] = rest]
      /\ turn' \in {"", t} /\ (turn' = t => rest # <<>> \/ t = "")
      /\ queue' \in [Roles -> Seq(Entries)]
      /\ heard' \in [Roles -> Capsules(MaxReports)]
      /\ \A q \in Roles \ {r} : queue'[q] = queue[q] /\ heard'[q] = heard[q]
      /\ HeadIs(queue'[r], heard'[r])
      /\ LastTold(queue'[r], heard'[r]) =
           IF frame.kind = "run_state" THEN frame.capsule ELSE LastTold(queue[r], heard[r])
      /\ limits' \in LimitType
  BY <1>1, SendIs
<1>3. StepInv'
  BY <1>2, PlanKeeps
<1>4. r \notin pending => LastTold(queue[r], heard[r]).n >= owed[r]
  BY <1>1 DEF QueueInv
<1>5. r \in pending' \/ /\ kept'[r].n >= owed'[r]
                        /\ LastTold(queue'[r], heard'[r]).n >= owed'[r]
  <2>1. CASE frame.kind = "run_state"
    BY <2>1, <1>2
  <2>2. CASE frame.kind # "run_state"
    BY <2>2, <1>2, <1>4
  <2> QED
    BY <2>1, <2>2
<1>6. QueueInv'
  BY <1>1, <1>2, <1>5, QueueSent
<1> QED
  BY <1>2, <1>3, <1>6

LEMMA FramesAre ==
  ASSUME RunStateAssumption
  PROVE  /\ AssignmentFrame \in Frames /\ AssignmentFrame.kind # "run_state"
         /\ OtherFrame \in Frames /\ OtherFrame.kind # "run_state"
         /\ \A c \in Capsules(MaxReports) :
              /\ RunStateFrame(c) \in Frames /\ RunStateFrame(c).kind = "run_state"
              /\ RunStateFrame(c).capsule = c
  BY DEF AssignmentFrame, OtherFrame, RunStateFrame, Frames

\* Another frame than a run state.
LEMMA OtherKeeps ==
  ASSUME RunStateAssumption, ReportInv, StepInv, QueueInv,
         UNCHANGED <<filed, round, clients, pending, kept, owed>>,
         NEW t \in Coroutines, NEW r \in clients, NEW frame \in {AssignmentFrame, OtherFrame},
         NEW rest, Plan(t, rest, Len(filed), round, clients), Send(t, r, frame, rest)
  PROVE  StepInv' /\ QueueInv' /\ limits' \in LimitType
<1>1. frame \in Frames /\ frame.kind # "run_state"
  BY FramesAre
<1>2. /\ kept \in [Roles -> Capsules(MaxReports)] /\ owed \in [Roles -> 0 .. Len(filed)]
      /\ pending \in SUBSET Roles /\ (r \in pending \/ kept[r].n >= owed[r])
  BY DEF QueueInv, StepInv
<1> QED
  BY <1>1, <1>2, SendKeeps

\* A run state, which is kept unless another was to be told.
LEMMA StateKeeps ==
  ASSUME RunStateAssumption, ReportInv, StepInv, QueueInv,
         UNCHANGED <<filed, round, clients>>,
         NEW t \in Coroutines, NEW r \in clients, NEW c \in Capsules(MaxReports), NEW rest,
         Plan(t, rest, Len(filed), round, clients), Send(t, r, RunStateFrame(c), rest),
         kept' = [kept EXCEPT ![r] = c] \/ (kept' = kept /\ kept[r] = c),
         owed' \in [Roles -> 0 .. Len(filed)], pending' \in SUBSET Roles,
         \A q \in Roles \ {r} : owed'[q] = owed[q] /\ (q \in pending => q \in pending'),
         r \in pending' \/ c.n >= owed'[r]
  PROVE  StepInv' /\ QueueInv' /\ limits' \in LimitType
<1>1. /\ RunStateFrame(c) \in Frames /\ RunStateFrame(c).kind = "run_state"
      /\ RunStateFrame(c).capsule = c
  BY FramesAre
<1>2. kept \in [Roles -> Capsules(MaxReports)] /\ r \in Roles
  BY DEF QueueInv, StepInv
<1>3. /\ kept' \in [Roles -> Capsules(MaxReports)] /\ kept'[r] = c
      /\ \A q \in Roles \ {r} : kept'[q] = kept[q]
  BY <1>2
<1> QED
  BY <1>1, <1>3, SendKeeps

-----------------------------------------------------------------------------
(* Stamps.                                                                      *)

LEMMA HalvesAre ==
  ASSUME NEW s \in Seq(Nat), NEW F \in Nat, Len(s) = 2 * F
  PROVE  /\ SubSeq(s, 1, F) \in Seq(Nat) /\ Len(SubSeq(s, 1, F)) = F
         /\ \A i \in 1 .. F : /\ SubSeq(s, 1, F)[i] = s[i]
                              /\ SubSeq(s, F + 1, 2 * F)[i] = s[F + i]
<1>1. SubSeq(s, 1, F) \in Seq(Nat)
  OBVIOUS
<1>2. Len(SubSeq(s, 1, F)) = F
  OBVIOUS
<1>3. ASSUME NEW i \in 1 .. F PROVE SubSeq(s, 1, F)[i] = s[i]
  OBVIOUS
<1>4. ASSUME NEW i \in 1 .. F PROVE SubSeq(s, F + 1, 2 * F)[i] = s[F + i]
  OBVIOUS
<1> QED
  BY <1>1, <1>2, <1>3, <1>4

\* A stamp is what both inventories saw.
LEMMA StampIs ==
  ASSUME RunStateAssumption, LookType, Looked
  PROVE  /\ Stamp \in Seq(Nat)
         /\ Stamp # <<>> =>
              /\ Len(Stamp) = Files /\ Files # 0 /\ Len(look.seen) = 2 * Files
              /\ Len(look.seen) >= Files
              /\ \A i \in 1 .. Files : /\ Stamp[i] = look.seen[i] /\ Stamp[i] <= files[i]
                                       /\ look.seen[i] = look.seen[Files + i]
                                       /\ Stamp[i] \in Nat
<1> DEFINE s == look.seen
           F == Files
<1>1. F \in Nat /\ s \in Seq(Nat)
  BY NothingIs DEF LookType
<1>2. CASE look.failed
  BY <1>2 DEF Stamp, NoStamp
<1>3. CASE ~look.failed /\ SubSeq(s, 1, F) # SubSeq(s, F + 1, 2 * F)
  BY <1>3 DEF Stamp, NoStamp
<1>4. CASE ~look.failed /\ SubSeq(s, 1, F) = SubSeq(s, F + 1, 2 * F)
  <2>1. Stamp = SubSeq(s, 1, F) /\ Len(s) = 2 * F
    BY <1>4 DEF Stamp, Looked
  <2>2. \A i \in 1 .. Len(s) : s[i] <= files[Place(i)]
    BY DEF LookType
  <2>3. \A i \in 1 .. F : Place(i) = i
    BY DEF Place
  <2> HIDE DEF s, F
  <2>4. /\ SubSeq(s, 1, F) \in Seq(Nat) /\ Len(SubSeq(s, 1, F)) = F
        /\ \A i \in 1 .. F : /\ SubSeq(s, 1, F)[i] = s[i]
                             /\ SubSeq(s, F + 1, 2 * F)[i] = s[F + i]
    BY <1>1, <2>1, HalvesAre
  <2>5. 2 * F >= F /\ \A i \in 1 .. F : i \in 1 .. 2 * F
    BY <1>1
  <2>6. \A i \in 1 .. F : s[i] <= files[i] /\ s[i] \in Nat
    BY <1>1, <2>1, <2>2, <2>3, <2>5
  <2>7. F = 0 => SubSeq(s, 1, F) = <<>>
    BY <1>1, <2>4
  <2>8. \A i \in 1 .. F : s[i] = s[F + i]
    BY <1>4, <2>4
  <2> QED
    BY <2>1, <2>4, <2>5, <2>6, <2>7, <2>8 DEF s, F
<1> QED
  BY <1>2, <1>3, <1>4

\* The hints of a capsule are true when it is made.
LEMMA CapsuleIs ==
  ASSUME RunStateAssumption, StateInv, NEW t, At(t, "assign") \/ At(t, "replay"), NEW r \in Roles
  PROVE  /\ Capsule(r) \in Capsules(Len(filed)) /\ Capsule(r) \in Capsules(MaxReports)
         /\ Capsule(r).n = Len(filed)
         /\ ~(look.on /\ Head(steps[turn]).do = "remember")
<1>1. look.on => turn = t /\ Head(steps[turn]).do # "remember"
  <2> SUFFICES ASSUME look.on PROVE turn = t /\ Head(steps[turn]).do # "remember"
    OBVIOUS
  <2>1. turn = t
    BY LookerIs DEF StateInv
  <2> QED
    BY <2>1 DEF At
<1>2. look.fresh \subseteq Roles
  BY DEF StateInv, LooksInv, LookType
<1>3. Unchanged \subseteq look.fresh /\ Unchanged \subseteq Roles
  <2> SUFFICES ASSUME NEW q \in Unchanged PROVE q \in look.fresh /\ q \in Roles
    OBVIOUS
  <2>1. /\ Looked /\ Stamp # <<>> /\ q \in Roles /\ Current(q) /\ receipts[q].stamp = Stamp
    BY DEF Unchanged, NoStamp
  <2>2. look.on
    BY <2>1 DEF Looked
  <2>3. /\ Len(look.seen) = 2 * Files /\ Len(look.seen) >= Files /\ Files \in Nat
        /\ \A i \in 1 .. Files : /\ Stamp[i] = look.seen[i] /\ Stamp[i] \in Nat
                                 /\ look.seen[i] = look.seen[Files + i]
    BY <2>1, StampIs, NothingIs DEF StateInv, LooksInv
  <2>4. q \in look.fresh \/ \E i \in 1 .. Files : Noticed(i)
    BY <1>1, <2>1, <2>2, <2>3 DEF StateInv, LooksInv, HintInv
  <2>5. ASSUME NEW i \in 1 .. Files, Noticed(i) PROVE FALSE
    <3>1. Files + i <= 2 * Files /\ look.seen[i] \in Nat
      BY <2>3
    <3>2. look.seen[i] < look.seen[Files + i]
      BY <3>1, <2>3, <2>5 DEF Noticed
    <3> QED
      BY <3>1, <3>2, <2>3
  <2> QED
    BY <2>1, <2>4, <2>5
<1>4. Len(filed) \in Nat /\ Len(filed) <= MaxReports /\ MaxReports \in Nat
  BY NothingIs DEF StateInv, ReportInv
<1>5. /\ Capsule(r).n = Len(filed)
      /\ Capsule(r) \in Capsules(Len(filed))
  BY <1>2, <1>3, <1>4 DEF Capsule, Capsules
<1>6. Capsule(r) \in Capsules(MaxReports)
  BY <1>4, <1>5, CapsulesGrow
<1> QED
  BY <1>1, <1>5, <1>6

-----------------------------------------------------------------------------
(* The other actions.                                                           *)

LEMMA RememberKeeps ==
  ASSUME RunStateAssumption, StateInv, NEW r \in Roles, Remember(r)
  PROVE  StateInv'
<1>1. /\ UNCHANGED <<filed, round, busy, decided, activated, gated, clients, queue>>
      /\ UNCHANGED <<pending, kept, heard, owed, guidance, fresh, files, limits>>
      /\ At(r, "remember") /\ Observed(r) /\ GivesWay(r, Rest(r)) /\ look' = Unread
      /\ receipts' = IF Retained = {} THEN receipts
                     ELSE [receipts EXCEPT ![r] = [stamp |-> Stamp, guidance |-> guidance]]
  BY DEF Remember, reports, told
<1>2. /\ r \in Coroutines /\ Plan(r, Rest(r), Len(filed), round, clients)
      /\ Head(steps[r]).do = "remember"
  BY <1>1, AtIs, NamesDiffer DEF StateInv
<1>3. ReportInv' /\ QueueInv'
  BY <1>1, QueueRest DEF StateInv, ReportInv
<1>4. StepInv'
  <2>1. steps' = [steps EXCEPT ![r] = Rest(r)] /\ turn' = ""
    BY <1>1 DEF GivesWay
  <2>2. r # ""
    BY <1>2, NamesDiffer
  <2> QED
    BY <2>1, <2>2, <1>1, <1>2, PlanKeeps DEF StateInv
<1>5. CASE Retained = {}
  <2>1. ~look.on
    BY <1>1, <1>5, LookerIs DEF StateInv
  <2>2. look = Unread
    BY <2>1 DEF StateInv, LooksInv, LookType
  <2>3. LooksInv'
    BY <1>1, <1>5, <2>1, <2>2, LooksRest DEF StateInv
  <2> QED
    BY <1>3, <1>4, <2>3 DEF StateInv
<1>6. CASE Retained # {}
  <2>1. Looked /\ look.on
    BY <1>1, <1>6 DEF Observed, Observes, Looked
  <2>2. turn = r /\ Head(steps[turn]).do = "remember"
    BY <1>1, <1>2, <2>1, LookerIs DEF StateInv
  <2>3. LookType /\ ReceiptInv /\ RememberInv
    BY DEF StateInv, LooksInv
  <2>4. /\ Stamp \in Seq(Nat) /\ Files \in Nat
        /\ Stamp # <<>> =>
             /\ Len(Stamp) = Files /\ Files # 0 /\ Len(look.seen) >= Files
             /\ \A i \in 1 .. Files : Stamp[i] = look.seen[i] /\ Stamp[i] <= files[i]
    BY <2>1, <2>3, StampIs, NothingIs
  <2> DEFINE st == Stamp
  <2>5. /\ receipts' = [receipts EXCEPT ![r] = [stamp |-> st, guidance |-> guidance]]
        /\ receipts \in [Roles -> [stamp : Seq(Nat), guidance : Int]]
        /\ guidance \in Nat /\ guidance <= MaxGuidance
    BY <1>1, <1>6, <2>3, NothingIs DEF LookType
  <2> HIDE DEF st
  <2>6. /\ receipts'[r].stamp = st /\ receipts'[r].guidance = guidance
        /\ \A q \in Roles \ {r} : receipts'[q] = receipts[q]
        /\ receipts' \in [Roles -> [stamp : Seq(Nat), guidance : Int]]
    <3>1. [stamp |-> st, guidance |-> guidance] \in [stamp : Seq(Nat), guidance : Int]
      BY <2>4, <2>5 DEF st
    <3> QED
      BY <3>1, <2>5
  <2>7. /\ look'.on = FALSE /\ look'.seen = <<>> /\ Len(look'.seen) = 0
        /\ look' \in [on : BOOLEAN, seen : Seq(Nat), fresh : SUBSET Roles, failed : BOOLEAN]
    <3>1. look' = [on |-> FALSE, seen |-> <<>>, fresh |-> {}, failed |-> FALSE]
      BY <1>1 DEF Unread
    <3> QED
      BY <3>1
  <2>8. LookType'
    <3>1. ASSUME NEW q \in Roles
          PROVE  /\ receipts'[q].guidance >= -1 /\ receipts'[q].guidance <= guidance
                 /\ receipts'[q].stamp # <<>> =>
                      /\ Len(receipts'[q].stamp) = Files
                      /\ \A i \in 1 .. Files : receipts'[q].stamp[i] <= files[i]
      <4>1. CASE q = r
        BY <4>1, <2>4, <2>5, <2>6 DEF st
      <4>2. CASE q # r
        BY <4>2, <2>3, <2>6 DEF LookType
      <4> QED
        BY <4>1, <4>2
    <3>2. Len(look'.seen) <= 2 * Files
      BY <2>4, <2>7
    <3>3. /\ files \in [1 .. Files -> Nat] /\ guidance \in 0 .. MaxGuidance /\ fresh \subseteq Roles
      BY <2>3 DEF LookType
    <3>4. \A i \in 1 .. Len(look'.seen) : look'.seen[i] <= files'[Place(i)']
      BY <2>7
    <3>5. look' = Unread' /\ files' = files /\ guidance' = guidance /\ fresh' = fresh
      BY <1>1 DEF Unread
    <3> QED
      BY <3>1, <3>2, <3>3, <3>4, <3>5, <2>6, <2>7 DEF LookType
  <2>9. ReceiptInv'
    <3> SUFFICES ASSUME NEW q \in Roles, receipts'[q].stamp # <<>>,
                        receipts'[q].guidance = guidance,
                        \A i \in 1 .. Files : receipts'[q].stamp[i] = files[i]
                 PROVE  q \in fresh
      BY <1>1 DEF ReceiptInv, Current
    <3>1. CASE q = r
      <4>1. st # <<>> /\ \A i \in 1 .. Files : st[i] = files[i]
        BY <3>1, <2>6
      <4>2. /\ Files # 0 /\ Len(look.seen) >= Files
            /\ \A i \in 1 .. Files : look.seen[i] = files[i]
        BY <4>1, <2>4 DEF st
      <4> QED
        BY <4>2, <3>1, <2>1, <2>2, <2>3 DEF RememberInv
    <3>2. CASE q # r
      <4>1. q \in fresh \/ Remembers(q)
        BY <3>2, <2>3, <2>6 DEF ReceiptInv, Current
      <4> QED
        BY <4>1, <3>2, <2>2 DEF Remembers
    <3> QED
      BY <3>1, <3>2
  <2>10. RememberInv' /\ HintInv'
    BY <2>7 DEF RememberInv, HintInv
  <2> QED
    BY <1>3, <1>4, <2>8, <2>9, <2>10 DEF StateInv, LooksInv
<1> QED
  BY <1>5, <1>6

LEMMA RouteKeeps ==
  ASSUME RunStateAssumption, StateInv, NEW r \in Roles, Route(r)
  PROVE  StateInv'
<1> DEFINE k == Len(filed)
<1>1. /\ UNCHANGED <<filed, round, busy, gated, clients, queue, pending, kept, heard, owed>>
      /\ UNCHANGED <<receipts, guidance, fresh, files, look, limits>>
      /\ At(r, "route") /\ (Evidence(r) \/ Implementation(r) \/ Approval(r) \/ Rejection(r))
  BY DEF Route, Evidence, Implementation, Approval, Rejection, told, hints
<1>2. /\ r \in Coroutines /\ r \in clients /\ r # "operator" /\ r # ""
      /\ r = "reviewer" => round <= k
  BY <1>1, AtIs, NamesDiffer DEF StateInv, Opens
<1>3. k \in Nat /\ round \in Nat
  BY DEF StateInv, ReportInv
<1>4. Plain \in Capsules(k)
  BY <1>3, NothingIs
<1>5. /\ "implementer" \in Roles /\ "reviewer" \in Roles /\ Specialists \subseteq Roles
      /\ IsFiniteSet(Specialists)
  BY NamesDiffer DEF RunStateAssumption
<1>6. QueueInv' /\ LooksInv'
  BY <1>1, QueueRest, LookerIs, LooksRest DEF StateInv
<1>7. ASSUME NEW rest, Plan(r, rest, k, round, clients), GoesOn(r, rest) PROVE StepInv'
  BY <1>1, <1>2, <1>7, PlanKeeps DEF StateInv, GoesOn
<1>8. ASSUME UNCHANGED <<decided, activated>> PROVE ReportInv'
  BY <1>1, <1>8 DEF StateInv, ReportInv
<1>9. CASE Evidence(r)
  <2> DEFINE rest == <<Telling(<<"implementer", "reviewer">>, Plain), Do("gate")>>
  <2>1. <<"implementer", "reviewer">> \in Seq(Roles) \ {<<>>}
    BY <1>5
  <2>2. rest \in Seq(Quiet(k))
    <3>1. /\ Telling(<<"implementer", "reviewer">>, Plain) \in Quiet(k) /\ Do("gate") \in Quiet(k)
      BY <2>1, <1>3, <1>4, QuietAre
    <3> QED
      BY <3>1
  <2>3. GoesOn(r, rest) /\ UNCHANGED <<decided, activated>>
    BY <1>9 DEF Evidence
  <2> HIDE DEF rest
  <2>4. StepInv'
    BY <2>2, <2>3, <1>2, <1>3, <1>7, PlanOf
  <2> QED
    BY <2>3, <2>4, <1>6, <1>8 DEF StateInv
<1>10. CASE Implementation(r)
  <2>1. PICK S \in SUBSET (Specialists \ decided) :
          /\ activated' = activated \cup S
          /\ GoesOn(r, <<Telling(<<"reviewer">> \o SetToSeq(S), Plain)>>
                         \o [i \in DOMAIN SetToSeq(S) |-> Assign(SetToSeq(S)[i])] \o <<Do("gate")>>)
    BY <1>10 DEF Implementation
  <2> DEFINE order == SetToSeq(S)
             head == <<Telling(<<"reviewer">> \o order, Plain)>>
             calls == [i \in DOMAIN order |-> Assign(order[i])]
             rest == head \o calls \o <<Do("gate")>>
  <2>2. IsFiniteSet(S) /\ S \subseteq Roles
    BY <1>5, FS_Subset
  <2>3. order \in Seq(Roles)
    <3>1. order \in Seq(S)
      BY <2>2, OrderIs
    <3> HIDE DEF order
    <3> QED
      BY <3>1, <2>2
  <2> HIDE DEF order
  <2>4. <<"reviewer">> \o order \in Seq(Roles) \ {<<>>}
    BY <2>3, <1>5
  <2>5. head \in Seq(Quiet(k))
    <3>1. Telling(<<"reviewer">> \o order, Plain) \in Quiet(k)
      BY <2>4, <1>3, <1>4, QuietAre
    <3> QED
      BY <3>1
  <2>6. calls \in Seq(Quiet(k))
    <3>1. /\ DOMAIN order = 1 .. Len(order) /\ Len(order) \in Nat
          /\ \A i \in DOMAIN order : order[i] \in Roles
      BY <2>3
    <3>2. \A i \in DOMAIN order : Assign(order[i]) \in Quiet(k)
      BY <3>1, <1>3, QuietAre
    <3>3. calls \in [1 .. Len(order) -> Quiet(k)]
      BY <3>1, <3>2
    <3> HIDE DEF calls
    <3> QED
      BY <3>1, <3>3
  <2>7. <<Do("gate")>> \in Seq(Quiet(k))
    <3>1. Do("gate") \in Quiet(k)
      BY <1>3, QuietAre
    <3> QED
      BY <3>1
  <2>8. GoesOn(r, rest)
    BY <2>1 DEF order
  <2>9. rest \in Seq(Quiet(k))
    <3> HIDE DEF head, calls
    <3>1. head \o calls \in Seq(Quiet(k))
      BY <2>5, <2>6, ConcatIs
    <3> QED
      BY <3>1, <2>7, ConcatIs
  <2> HIDE DEF rest
  <2>10. StepInv'
    BY <2>8, <2>9, <1>2, <1>3, <1>7, PlanOf
  <2>11. ReportInv'
    <3>1. activated \subseteq decided /\ decided \subseteq Specialists
      BY DEF StateInv, ReportInv
    <3>2. activated' \subseteq Specialists /\ decided' = Specialists
      BY <3>1, <2>1, <1>10 DEF Implementation
    <3> QED
      BY <3>2, <1>1 DEF StateInv, ReportInv
  <2> QED
    BY <2>10, <2>11, <1>6 DEF StateInv
<1>11. CASE Approval(r)
  <2>1. GoesOn(r, <<>>) /\ UNCHANGED <<decided, activated>>
    BY <1>11 DEF Approval
  <2>2. StepInv'
    BY <2>1, <1>3, <1>7, PlanEmpty
  <2> QED
    BY <2>1, <2>2, <1>6, <1>8 DEF StateInv
<1>12. CASE Rejection(r)
  <2> DEFINE a == Telling(<<"implementer">>, Plain)
             b == Do("repair")
             c == Assign("implementer")
             rest == <<a, b, c>>
  <2>1. r = "reviewer" /\ GoesOn(r, rest) /\ UNCHANGED <<decided, activated>>
    BY <1>12 DEF Rejection
  <2>2. a \in Items(k) /\ b \in Items(k) /\ c \in Items(k)
    <3>1. <<"implementer">> \in Seq(Roles) \ {<<>>}
      BY <1>5
    <3> QED
      BY <3>1, <1>3, <1>4, <1>5, ItemsAre
  <2>3. a.do = "telling" /\ b.do = "repair" /\ c.do = "assign"
    BY DEF Telling, Do, Assign
  <2> HIDE DEF a, b, c
  <2>4. rest \in Seq(Items(k)) /\ DOMAIN rest = 1 .. 3 /\ rest[1] = a /\ rest[2] = b /\ rest[3] = c
    BY <2>2
  <2> HIDE DEF rest
  <2>5. \A i \in DOMAIN rest : rest[i].do \in Opens => i = 2
    <3>1. \A i \in 1 .. 3 : i = 1 \/ i = 2 \/ i = 3
      OBVIOUS
    <3> QED
      BY <3>1, <2>3, <2>4 DEF Opens
  <2>6. Plan(r, rest, k, round, clients)
    BY <2>1, <2>4, <2>5, <1>2 DEF Plan, Once
  <2>7. StepInv'
    BY <2>1, <2>6, <1>7
  <2> QED
    BY <2>1, <2>7, <1>6, <1>8 DEF StateInv
<1> QED
  BY <1>1, <1>9, <1>10, <1>11, <1>12

LEMMA RepairKeeps ==
  ASSUME RunStateAssumption, StateInv, NEW r \in Roles, Repair(r)
  PROVE  StateInv'
<1> DEFINE k == Len(filed)
<1>1. /\ UNCHANGED <<filed, busy, gated, clients, queue, pending, kept, heard, owed>>
      /\ UNCHANGED <<receipts, guidance, fresh, files, look, limits>>
      /\ At(r, "repair") /\ steps' = [steps EXCEPT ![r] = Rest(r)] /\ turn' = ""
      /\ round' = round + 1 /\ decided' = {} /\ activated' = {}
  BY DEF Repair, GivesWay, told, hints
<1>2. /\ r \in Coroutines /\ r = "reviewer" /\ round <= k /\ ~Opening(Rest(r))
      /\ Plan(r, Rest(r), k, round, clients)
  BY <1>1, AtIs, NamesDiffer DEF StateInv, Opens
<1>3. k \in Nat /\ round \in Nat /\ round' = round + 1
  <2>1. k \in Nat /\ round \in Nat
    BY DEF StateInv, ReportInv
  <2> QED
    BY <2>1, <1>1
<1>4. ReportInv'
  <2> HIDE DEF k
  <2>1. \A i \in DOMAIN filed : filed[i].round \in 1 .. round'
    <3>1. 1 .. round \subseteq 1 .. round'
      BY <1>3
    <3> QED
      BY <3>1 DEF StateInv, ReportInv
  <2>2. gated \in 0 .. round'
    <3>1. 0 .. round \subseteq 0 .. round'
      BY <1>3
    <3> QED
      BY <3>1 DEF StateInv, ReportInv
  <2>3. round' \in Nat \ {0} /\ round' <= k + 1
    BY <1>2, <1>3
  <2> QED
    BY <2>1, <2>2, <2>3, <1>1 DEF StateInv, ReportInv, k
<1>5. StepInv'
  <2>1. /\ steps \in [Coroutines -> Seq(Items(k))] /\ Rest(r) \in Seq(Items(k))
        /\ clients \subseteq Roles
    BY <1>2 DEF StateInv, StepInv, Plan
  <2>2. ASSUME NEW t \in Coroutines PROVE Plan(t, steps'[t], k, round', clients)
    <3>1. CASE t = r
      <4>1. Plan(r, Rest(r), k, round', clients)
        BY <1>2, <1>3, PlanRound
      <4> QED
        BY <3>1, <4>1, <2>1, <1>1
    <3>2. CASE t # r
      <4>1. Plan(t, steps[t], k, round, clients)
        BY DEF StateInv, StepInv
      <4>2. Plan(t, steps[t], k, round', clients)
        BY <3>2, <4>1, <1>2, <1>3, PlanRound
      <4> QED
        BY <3>2, <4>2, <2>1, <1>1
    <3> QED
      BY <3>1, <3>2
  <2>3. steps' \in [Coroutines -> Seq(Items(k))]
    BY <2>1, <1>1
  <2> QED
    BY <2>1, <2>2, <2>3, <1>1 DEF StepInv
<1>6. QueueInv' /\ LooksInv'
  BY <1>1, QueueRest, LookerIs, LooksRest DEF StateInv
<1> QED
  BY <1>4, <1>5, <1>6 DEF StateInv

LEMMA DeliverKeeps ==
  ASSUME RunStateAssumption, StateInv, NEW t \in Coroutines, Deliver(t)
  PROVE  StateInv'
<1> DEFINE k == Len(filed)
           s == Head(steps[t])
           r == Head(s.to)
           rest == IF Len(s.to) = 1 THEN Rest(t)
                   ELSE <<Telling(Tail(s.to), s.capsule)>> \o Rest(t)
<1>1. /\ UNCHANGED <<filed, round, busy, decided, activated, gated, clients>>
      /\ UNCHANGED <<receipts, guidance, fresh, files, look>>
      /\ At(t, "telling")
  BY DEF Deliver, reports, hints
<1>2. \/ /\ r \notin clients /\ GoesOn(t, rest)
         /\ UNCHANGED <<queue, pending, kept, heard, owed, limits>>
      \/ /\ r \in clients /\ Defers(r) /\ GoesOn(t, rest)
         /\ pending' = pending \cup {r} /\ owed' = [owed EXCEPT ![r] = s.capsule.n]
         /\ UNCHANGED <<queue, kept, heard, limits>>
      \/ /\ r \in clients /\ ~Defers(r)
         /\ kept' = [kept EXCEPT ![r] = s.capsule] /\ owed' = [owed EXCEPT ![r] = s.capsule.n]
         /\ Send(t, r, RunStateFrame(s.capsule), rest) /\ UNCHANGED pending
  BY DEF Deliver, told
<1>3. /\ t \in clients /\ s.to \in Seq(Roles) \ {<<>>} /\ s.capsule \in Capsules(k)
      /\ Plan(t, Rest(t), k, round, clients) /\ t # "operator" /\ t # ""
  BY <1>1, AtIs, NamesDiffer DEF StateInv
<1>4. k \in Nat /\ k <= MaxReports /\ MaxReports \in Nat /\ round \in Nat
  BY NothingIs DEF StateInv, ReportInv
<1>5. r \in Roles /\ Tail(s.to) \in Seq(Roles) /\ (Len(s.to) # 1 => Tail(s.to) # <<>>)
  <2> DEFINE to == s.to
  <2>1. to \in Seq(Roles) /\ to # <<>>
    BY <1>3
  <2> HIDE DEF to
  <2>2. Head(to) \in Roles /\ Tail(to) \in Seq(Roles) /\ (Len(to) # 1 => Tail(to) # <<>>)
    BY <2>1, TailIs
  <2> QED
    BY <2>2 DEF to
<1>6. Plan(t, rest, k, round, clients)
  <2>1. CASE Len(s.to) = 1
    BY <2>1, <1>3
  <2>2. CASE Len(s.to) # 1
    <3> DEFINE x == Telling(Tail(s.to), s.capsule)
    <3>1. x \in Quiet(k)
      BY <2>2, <1>3, <1>4, <1>5, QuietAre
    <3>2. x \in Items(k) /\ x.do \notin Opens
      BY <3>1 DEF Quiet
    <3> HIDE DEF x
    <3>3. Plan(t, <<x>> \o Rest(t), k, round, clients)
      BY <3>2, <1>3, <1>4, PlanCons
    <3> QED
      BY <2>2, <3>3 DEF x
  <2> QED
    BY <2>1, <2>2
<1> DEFINE c == s.capsule
<1>7. c \in Capsules(MaxReports) /\ c.n \in 0 .. k
  <2>1. c \in Capsules(MaxReports)
    BY <1>3, <1>4, CapsulesGrow
  <2>2. c \in Capsules(k)
    BY <1>3
  <2> HIDE DEF c
  <2> QED
    BY <2>1, <2>2 DEF Capsules
<1> HIDE DEF rest, c, r
<1>8. LooksInv'
  BY <1>1, LookerIs, LooksRest DEF StateInv
<1>9. limits' \in LimitType => ReportInv'
  BY <1>1 DEF StateInv, ReportInv
<1>10. limits \in LimitType
  BY DEF StateInv, ReportInv
<1>11. GoesOn(t, rest) => StepInv'
  BY <1>1, <1>3, <1>6, PlanKeeps DEF StateInv, GoesOn
<1>12. /\ owed \in [Roles -> 0 .. k] /\ kept \in [Roles -> Capsules(MaxReports)]
       /\ pending \subseteq Roles /\ queue \in [Roles -> Seq(Entries)]
       /\ heard \in [Roles -> Capsules(MaxReports)] /\ clients \subseteq Roles
       /\ \A q \in Roles : HeadIs(queue[q], heard[q])
  BY DEF StateInv, QueueInv, StepInv
<1>13. CASE /\ r \notin clients /\ GoesOn(t, rest)
            /\ UNCHANGED <<queue, pending, kept, heard, owed, limits>>
  BY <1>1, <1>8, <1>9, <1>10, <1>11, <1>13, QueueRest DEF StateInv
<1>14. CASE /\ r \in clients /\ Defers(r) /\ GoesOn(t, rest)
            /\ pending' = pending \cup {r} /\ owed' = [owed EXCEPT ![r] = c.n]
            /\ UNCHANGED <<queue, kept, heard, limits>>
  <2>1. /\ owed' \in [Roles -> 0 .. k] /\ \A q \in Roles \ {r} : owed'[q] = owed[q]
        /\ pending' \in SUBSET Roles /\ r \in pending'
    BY <1>5, <1>7, <1>12, <1>14
  <2>2. QueueInv'
    BY <2>1, <1>1, <1>12, <1>14, QueueSent DEF StateInv
  <2> QED
    BY <2>2, <1>1, <1>8, <1>9, <1>10, <1>11, <1>14 DEF StateInv
<1>15. CASE /\ r \in clients /\ ~Defers(r)
            /\ kept' = [kept EXCEPT ![r] = c] /\ owed' = [owed EXCEPT ![r] = c.n]
            /\ Send(t, r, RunStateFrame(c), rest) /\ UNCHANGED pending
  <2>1. /\ owed' \in [Roles -> 0 .. k] /\ \A q \in Roles \ {r} : owed'[q] = owed[q]
        /\ owed'[r] = c.n /\ c.n >= owed'[r]
    <3> HIDE DEF k
    <3>1. c.n >= c.n
      BY <1>4, <1>7 DEF k
    <3> QED
      BY <3>1, <1>5, <1>7, <1>12, <1>15
  <2>2. StepInv' /\ QueueInv' /\ limits' \in LimitType
    BY <2>1, <1>1, <1>6, <1>7, <1>12, <1>15, StateKeeps DEF StateInv
  <2> QED
    BY <2>2, <1>8, <1>9 DEF StateInv
<1> QED
  BY <1>2, <1>13, <1>14, <1>15 DEF rest, c, r

\* What was deferred is made and sent.
LEMMA MaterializedKeeps ==
  ASSUME RunStateAssumption, StateInv, NEW t \in Coroutines, NEW r \in clients, NEW rest,
         At(t, "assign") \/ At(t, "replay"), Materialized(t, r, rest),
         Plan(t, rest, Len(filed), round, clients), UNCHANGED <<filed, round, clients, owed>>
  PROVE  StepInv' /\ QueueInv' /\ limits' \in LimitType
<1> DEFINE c == Capsule(r)
<1>1. r \in Roles
  BY DEF StateInv, StepInv
<1>2. c \in Capsules(MaxReports) /\ c.n = Len(filed)
  BY <1>1, CapsuleIs
<1>3. /\ pending' = pending \ {r} /\ kept' = [kept EXCEPT ![r] = c]
      /\ Send(t, r, RunStateFrame(c), rest)
  BY DEF Materialized
<1> HIDE DEF c
<1>4. /\ owed' \in [Roles -> 0 .. Len(filed)] /\ pending' \in SUBSET Roles
      /\ \A q \in Roles \ {r} : owed'[q] = owed[q] /\ (q \in pending => q \in pending')
      /\ owed'[r] \in 0 .. Len(filed) /\ Len(filed) \in Nat
  BY <1>1, <1>3 DEF StateInv, QueueInv, ReportInv
<1>5. c.n >= owed'[r]
  BY <1>2, <1>4
<1> QED
  BY <1>2, <1>3, <1>4, <1>5, StateKeeps DEF StateInv

LEMMA FlushKeeps ==
  ASSUME RunStateAssumption, StateInv, NEW t \in Coroutines, Flush(t)
  PROVE  StateInv'
<1> DEFINE k == Len(filed)
           r == Head(steps[t]).role
           rest == <<Commit(r)>> \o Rest(t)
<1>1. /\ UNCHANGED <<filed, round, busy, decided, activated, gated, clients, owed>>
      /\ UNCHANGED <<receipts, guidance, fresh, files>>
      /\ At(t, "assign") /\ look' = Unread
  BY DEF Flush, reports, hints
<1>2. \/ r \notin clients /\ GoesOn(t, Rest(t)) /\ UNCHANGED <<queue, pending, kept, heard, limits>>
      \/ GoesOn(t, rest) /\ UNCHANGED <<queue, pending, kept, heard, limits>>
      \/ r \in clients /\ Materialized(t, r, rest)
  BY DEF Flush
<1>3. /\ t \in clients /\ r \in Roles /\ Plan(t, Rest(t), k, round, clients)
      /\ t # "operator" /\ t # ""
  BY <1>1, AtIs, NamesDiffer DEF StateInv
<1>4. k \in Nat /\ round \in Nat /\ limits \in LimitType
  BY DEF StateInv, ReportInv
<1>5. Plan(t, rest, k, round, clients)
  <2>1. Commit(r) \in Quiet(k)
    BY <1>3, <1>4, QuietAre
  <2>2. Commit(r) \in Items(k) /\ Commit(r).do \notin Opens
    BY <2>1 DEF Quiet
  <2> QED
    BY <2>2, <1>3, <1>4, PlanCons
<1> HIDE DEF rest, r
<1>6. LooksInv'
  BY <1>1, <1>3, CapsuleIs, LooksEnd DEF StateInv
<1>7. limits' \in LimitType => ReportInv'
  BY <1>1 DEF StateInv, ReportInv
<1>8. ASSUME NEW w, Plan(t, w, k, round, clients), GoesOn(t, w) PROVE StepInv'
  BY <1>1, <1>3, <1>8, PlanKeeps DEF StateInv, GoesOn
<1>9. CASE UNCHANGED <<queue, pending, kept, heard, limits>>
  <2>1. CASE GoesOn(t, Rest(t)) \/ GoesOn(t, rest)
    <3>1. StepInv'
      BY <2>1, <1>3, <1>5, <1>8
    <3>2. QueueInv'
      BY <1>1, <1>9, QueueRest DEF StateInv
    <3> QED
      BY <3>1, <3>2, <1>4, <1>6, <1>7, <1>9 DEF StateInv
  <2>2. CASE r \in clients /\ Materialized(t, r, rest)
    BY <2>2, <1>1, <1>5, <1>6, <1>7, MaterializedKeeps DEF StateInv
  <2> QED
    BY <2>1, <2>2, <1>2
<1>10. CASE r \in clients /\ Materialized(t, r, rest)
  BY <1>1, <1>5, <1>6, <1>7, <1>10, MaterializedKeeps DEF StateInv
<1> QED
  BY <1>2, <1>9, <1>10

LEMMA SendAssignmentKeeps ==
  ASSUME RunStateAssumption, StateInv, NEW t \in Coroutines, SendAssignment(t)
  PROVE  StateInv'
<1> DEFINE k == Len(filed)
           r == Head(steps[t]).role
<1>1. /\ UNCHANGED <<filed, round, decided, activated, clients, pending, kept, owed>>
      /\ UNCHANGED <<receipts, guidance, fresh, files, look>>
      /\ At(t, "commit") /\ busy' = busy \cup {r}
      /\ gated' = IF r = "reviewer" /\ Has(t) THEN round ELSE gated
      /\ \/ r \in clients /\ Send(t, r, AssignmentFrame, Rest(t))
         \/ r \notin clients /\ Fails(t) /\ UNCHANGED <<queue, heard, limits>>
  BY DEF SendAssignment, hints
<1>2. /\ r \in Roles /\ Plan(t, Rest(t), k, round, clients) /\ t # ""
  BY <1>1, AtIs, NamesDiffer DEF StateInv
<1>3. k \in Nat /\ round \in Nat /\ limits \in LimitType
  BY DEF StateInv, ReportInv
<1> HIDE DEF r
<1>4. LooksInv'
  BY <1>1, LookerIs, LooksRest DEF StateInv
<1>5. limits' \in LimitType => ReportInv'
  <2>1. gated' \in 0 .. round
    BY <1>1, <1>3 DEF StateInv, ReportInv
  <2> QED
    BY <2>1, <1>1, <1>2 DEF StateInv, ReportInv
<1>6. CASE r \in clients /\ Send(t, r, AssignmentFrame, Rest(t))
  <2>1. StepInv' /\ QueueInv' /\ limits' \in LimitType
    BY <1>1, <1>2, <1>6, OtherKeeps DEF StateInv
  <2> QED
    BY <2>1, <1>4, <1>5 DEF StateInv
<1>7. CASE r \notin clients /\ Fails(t) /\ UNCHANGED <<queue, heard, limits>>
  <2>1. /\ steps' = [steps EXCEPT ![t] = <<>>] /\ turn' = ""
    BY <1>7 DEF Fails
  <2>2. StepInv'
    BY <2>1, <1>1, <1>2, <1>3, PlanEmpty, PlanKeeps DEF StateInv
  <2>3. QueueInv'
    BY <1>1, <1>7, QueueRest DEF StateInv
  <2> QED
    BY <2>1, <2>2, <2>3, <1>3, <1>4, <1>5, <1>7 DEF StateInv
<1> QED
  BY <1>1, <1>6, <1>7

LEMMA GateKeeps ==
  ASSUME RunStateAssumption, StateInv, NEW t \in Coroutines, Gate(t)
  PROVE  StateInv'
<1> DEFINE k == Len(filed)
<1>1. /\ UNCHANGED <<filed, round, busy, decided, activated, gated, clients, queue>>
      /\ UNCHANGED <<pending, kept, heard, owed, receipts, guidance, fresh, files, look>>
      /\ UNCHANGED <<limits>>
      /\ At(t, "gate") /\ (GoesOn(t, <<Assign("reviewer")>>) \/ GoesOn(t, <<>>))
  BY DEF Gate, reports, told, hints
<1>2. /\ t \in clients /\ t # "operator" /\ t # "" /\ "reviewer" \in Roles
  BY <1>1, AtIs, NamesDiffer DEF StateInv
<1>3. k \in Nat /\ round \in Nat
  BY DEF StateInv, ReportInv
<1>4. Plan(t, <<>>, k, round, clients) /\ Plan(t, <<Assign("reviewer")>>, k, round, clients)
  <2>1. Assign("reviewer") \in Quiet(k)
    BY <1>2, <1>3, QuietAre
  <2>2. <<Assign("reviewer")>> \in Seq(Quiet(k))
    BY <2>1
  <2> QED
    BY <2>2, <1>2, <1>3, PlanOf, PlanEmpty
<1>5. ASSUME NEW w, Plan(t, w, k, round, clients), GoesOn(t, w) PROVE StepInv'
  BY <1>1, <1>2, <1>5, PlanKeeps DEF StateInv, GoesOn
<1>6. StepInv'
  BY <1>1, <1>4, <1>5
<1>7. ReportInv' /\ QueueInv' /\ LooksInv'
  BY <1>1, QueueRest, LookerIs, LooksRest DEF StateInv, ReportInv
<1> QED
  BY <1>6, <1>7 DEF StateInv

LEMMA BreakKeeps ==
  ASSUME RunStateAssumption, StateInv, NEW r \in Roles, Break(r)
  PROVE  StateInv'
<1> DEFINE k == Len(filed)
           hit == {queue[r][i].by : i \in DOMAIN queue[r]}
<1>1. /\ UNCHANGED <<filed, round, busy, decided, activated, gated, turn, pending, kept, heard>>
      /\ UNCHANGED <<receipts, guidance, fresh, files, look>>
      /\ turn = "" /\ r \in clients /\ Counts("breaks", MaxBreaks)
      /\ steps[r] = <<>> \/ r \in hit
      /\ steps' = [t \in Coroutines |-> IF t \in hit THEN <<>> ELSE steps[t]]
      /\ clients' = clients \ {r} /\ queue' = [queue EXCEPT ![r] = <<>>]
      /\ owed' = [owed EXCEPT ![r] = 0]
  BY DEF Break, reports, hints
<1> HIDE DEF hit
<1>2. k \in Nat /\ round \in Nat /\ limits \in LimitType
  BY DEF StateInv, ReportInv
<1>3. ReportInv'
  <2>1. limits' \in LimitType
    BY <1>1, <1>2, CountsKeep
  <2> QED
    BY <2>1, <1>1 DEF StateInv, ReportInv
<1>4. StepInv'
  <2>1. steps \in [Coroutines -> Seq(Items(k))] /\ clients \subseteq Roles
    BY DEF StateInv, StepInv
  <2>2. ASSUME NEW t \in Coroutines PROVE Plan(t, steps'[t], k, round, clients')
    <3>1. CASE t \in hit
      <4>1. steps'[t] = <<>>
        BY <3>1, <1>1
      <4> QED
        BY <4>1, <1>2, PlanEmpty
    <3>2. CASE t \notin hit
      <4>1. Plan(t, steps[t], k, round, clients) /\ steps'[t] = steps[t]
        BY <3>2, <1>1 DEF StateInv, StepInv
      <4>2. steps[t] # <<>> => t # r
        BY <3>2, <1>1
      <4> QED
        BY <4>1, <4>2, <1>1 DEF Plan
    <3> QED
      BY <3>1, <3>2
  <2>3. steps' \in [Coroutines -> Seq(Items(k))]
    <3>1. \A t \in Coroutines : steps'[t] \in Seq(Items(k))
      BY <2>2 DEF Plan
    <3>2. steps' = [t \in Coroutines |-> steps'[t]]
      BY <1>1
    <3> QED
      BY <3>1, <3>2
  <2> QED
    BY <2>1, <2>2, <2>3, <1>1 DEF StepInv
<1>5. QueueInv'
  <2>1. /\ queue \in [Roles -> Seq(Entries)] /\ owed \in [Roles -> 0 .. k]
        /\ kept \in [Roles -> Capsules(MaxReports)] /\ heard \in [Roles -> Capsules(MaxReports)]
    BY DEF StateInv, QueueInv
  <2>2. /\ queue'[r] = <<>> /\ owed'[r] = 0
        /\ \A q \in Roles \ {r} : queue'[q] = queue[q] /\ owed'[q] = owed[q]
        /\ queue' \in [Roles -> Seq(Entries)] /\ owed' \in [Roles -> 0 .. k]
    <3>1. <<>> \in Seq(Entries) /\ 0 \in 0 .. k
      BY <1>2
    <3>2. queue' = [queue EXCEPT ![r] = <<>>] /\ owed' = [owed EXCEPT ![r] = 0]
      BY <1>1
    <3> HIDE DEF k
    <3> QED
      BY <3>1, <3>2, <2>1
  <2>3. \A c \in Capsules(MaxReports) : c.n >= 0
    BY NothingIs DEF Capsules
  <2>4. ASSUME NEW q \in Roles
        PROVE  /\ q \in clients' \/ queue'[q] = <<>>
               /\ HeadIs(queue'[q], heard[q])
               /\ q \in pending \/ /\ kept[q].n >= owed'[q]
                                   /\ LastTold(queue'[q], heard[q]).n >= owed'[q]
    <3>1. CASE q = r
      BY <3>1, <2>1, <2>2, <2>3, LastOfNone DEF HeadIs
    <3>2. CASE q # r
      BY <3>2, <2>2, <1>1 DEF StateInv, QueueInv
    <3> QED
      BY <3>1, <3>2
  <2> QED
    BY <2>1, <2>2, <2>4, <1>1 DEF StateInv, QueueInv
<1>6. LooksInv'
  BY <1>1, LookerIs, LooksRest DEF StateInv
<1> QED
  BY <1>3, <1>4, <1>5, <1>6 DEF StateInv

LEMMA ReconnectKeeps ==
  ASSUME RunStateAssumption, StateInv, NEW r \in Roles, Reconnect(r) \/ Handover(r)
  PROVE  StateInv'
<1> DEFINE k == Len(filed)
           rest == <<Do("again")>>
           more == <<Do("baseline"), [do |-> "replay", role |-> r], Do("again")>>
<1>1. /\ UNCHANGED <<filed, round, busy, decided, activated, gated, queue, pending, kept, heard, owed>>
      /\ UNCHANGED <<receipts, guidance, fresh, files, look, limits>>
      /\ turn = "" /\ clients' = clients \cup {r}
      /\ GoesOn(r, rest) \/ GoesOn(r, more)
  BY DEF Reconnect, Handover, reports, told, hints
<1>2. k \in Nat
  BY DEF StateInv, ReportInv
<1>3. rest \in Seq(Quiet(k)) /\ more \in Seq(Quiet(k)) /\ rest # <<>> /\ more # <<>>
  <2> DEFINE a == Do("again")
             b == Do("baseline")
             c == [do |-> "replay", role |-> r]
  <2>1. a \in Quiet(k) /\ b \in Quiet(k) /\ c \in Quiet(k)
    BY <1>2, QuietAre
  <2> HIDE DEF a, b, c
  <2>2. <<a>> \in Seq(Quiet(k)) /\ <<b, c, a>> \in Seq(Quiet(k)) /\ <<a>> # <<>> /\ <<b, c, a>> # <<>>
    BY <2>1
  <2> QED
    BY <2>2 DEF a, b, c
<1> HIDE DEF rest, more
<1>4. StepInv'
  BY <1>1, <1>3, JoinKeeps DEF StateInv
<1>5. ReportInv' /\ QueueInv' /\ LooksInv'
  BY <1>1, QueueRest, LookerIs, LooksRest DEF StateInv, ReportInv
<1> QED
  BY <1>4, <1>5 DEF StateInv

LEMMA SendsKeeps ==
  ASSUME RunStateAssumption, StateInv, NEW r \in Roles, Sends(r)
  PROVE  StateInv'
<1>1. /\ UNCHANGED <<filed, round, busy, decided, activated, gated, clients, pending, kept, owed>>
      /\ UNCHANGED <<receipts, guidance, fresh, files, look>>
      /\ At(r, "baseline") \/ At(r, "again")
      /\ Send(r, r, OtherFrame, Rest(r))
  BY DEF Sends, reports, hints
<1>2. r \in Coroutines /\ r \in clients /\ Plan(r, Rest(r), Len(filed), round, clients)
  BY <1>1, AtIs, NamesDiffer DEF StateInv
<1>3. StepInv' /\ QueueInv' /\ limits' \in LimitType
  BY <1>1, <1>2, OtherKeeps DEF StateInv
<1>4. ReportInv' /\ LooksInv'
  BY <1>1, <1>3, LookerIs, LooksRest DEF StateInv, ReportInv
<1> QED
  BY <1>3, <1>4 DEF StateInv

LEMMA ReplayKeeps ==
  ASSUME RunStateAssumption, StateInv, NEW r \in Roles, Replay(r)
  PROVE  StateInv'
<1>1. /\ UNCHANGED <<filed, round, busy, decided, activated, gated, clients, owed>>
      /\ UNCHANGED <<receipts, guidance, fresh, files>>
      /\ At(r, "replay") /\ look' = Unread
      /\ \/ Materialized(r, r, Rest(r))
         \/ ~Deferred(r) /\ Send(r, r, RunStateFrame(kept[r]), Rest(r)) /\ UNCHANGED <<pending, kept>>
         \/ GoesOn(r, Rest(r)) /\ UNCHANGED <<queue, pending, kept, heard, limits>>
  BY DEF Replay, reports, hints
<1>2. /\ r \in Coroutines /\ r \in clients /\ r # ""
      /\ Plan(r, Rest(r), Len(filed), round, clients)
  BY <1>1, AtIs, NamesDiffer DEF StateInv
<1>3. LooksInv'
  BY <1>1, CapsuleIs, LooksEnd DEF StateInv
<1>4. limits' \in LimitType => ReportInv'
  BY <1>1 DEF StateInv, ReportInv
<1>5. CASE Materialized(r, r, Rest(r))
  BY <1>1, <1>2, <1>3, <1>4, <1>5, MaterializedKeeps DEF StateInv
<1>6. CASE ~Deferred(r) /\ Send(r, r, RunStateFrame(kept[r]), Rest(r)) /\ UNCHANGED <<pending, kept>>
  <2> DEFINE c == kept[r]
  <2>1. /\ c \in Capsules(MaxReports) /\ r \notin pending /\ c.n >= owed[r]
        /\ owed \in [Roles -> 0 .. Len(filed)] /\ pending \in SUBSET Roles
    BY <1>6 DEF StateInv, QueueInv, Deferred
  <2>2. kept' = kept /\ kept[r] = c /\ Send(r, r, RunStateFrame(c), Rest(r))
    BY <1>6
  <2> HIDE DEF c
  <2>3. StepInv' /\ QueueInv' /\ limits' \in LimitType
    BY <2>1, <2>2, <1>1, <1>2, <1>6, StateKeeps DEF StateInv
  <2> QED
    BY <2>3, <1>3, <1>4 DEF StateInv
<1>7. CASE GoesOn(r, Rest(r)) /\ UNCHANGED <<queue, pending, kept, heard, limits>>
  <2>1. StepInv'
    BY <1>1, <1>2, <1>7, PlanKeeps DEF StateInv, GoesOn
  <2>2. QueueInv'
    BY <1>1, <1>7, QueueRest DEF StateInv
  <2>3. limits' \in LimitType
    BY <1>7 DEF StateInv, ReportInv
  <2> QED
    BY <2>1, <2>2, <2>3, <1>3, <1>4 DEF StateInv
<1> QED
  BY <1>1, <1>5, <1>6, <1>7

LEMMA GuideKeeps ==
  ASSUME RunStateAssumption, StateInv, NEW r \in Roles, Guide(r)
  PROVE  StateInv'
<1>1. /\ UNCHANGED <<filed, round, busy, decided, activated, gated, clients, pending, kept, owed>>
      /\ UNCHANGED <<receipts, files, look>>
      /\ turn = "" /\ guidance < MaxGuidance /\ guidance' = guidance + 1 /\ fresh' = {}
      /\ \/ r \in clients /\ Send("operator", r, OtherFrame, <<>>)
         \/ UNCHANGED <<steps, turn, queue, heard, limits>>
  BY DEF Guide, NextGeneration, reports
<1>2. Len(filed) \in Nat /\ round \in Nat /\ limits \in LimitType /\ "operator" \in Coroutines
  BY DEF StateInv, ReportInv, Coroutines
<1>3. StepInv' /\ QueueInv' /\ limits' \in LimitType
  <2>1. CASE r \in clients /\ Send("operator", r, OtherFrame, <<>>)
    <3>1. Plan("operator", <<>>, Len(filed), round, clients)
      BY <1>2, PlanEmpty
    <3> QED
      BY <3>1, <2>1, <1>1, <1>2, OtherKeeps DEF StateInv
  <2>2. CASE UNCHANGED <<steps, turn, queue, heard, limits>>
    BY <2>2, <1>1, <1>2, StepsRest, QueueRest DEF StateInv
  <2> QED
    BY <2>1, <2>2, <1>1
<1>4. ReportInv'
  BY <1>1, <1>3 DEF StateInv, ReportInv
<1>5. ~look.on
  BY <1>1, LookerIs DEF StateInv
<1>6. LookType /\ guidance \in Nat /\ MaxGuidance \in Nat
  BY NothingIs DEF StateInv, LooksInv, LookType
<1>7. \A q \in Roles : receipts[q].guidance \in Int /\ receipts[q].guidance <= guidance
  BY <1>6 DEF LookType
<1>7a. guidance < MaxGuidance /\ guidance' = guidance + 1 /\ receipts' = receipts
  BY <1>1
<1>7b. guidance \in Nat /\ MaxGuidance \in Nat
  BY <1>6
<1>8. LookType'
  <2>1. \A q \in Roles : receipts[q].guidance <= guidance'
    BY <1>7, <1>7a, <1>7b
  <2>2. guidance' \in 0 .. MaxGuidance
    BY <1>7a, <1>7b
  <2> QED
    BY <2>1, <2>2, <1>1, <1>5, <1>6 DEF LookType, Place, Unread
<1>9. ReceiptInv'
  <2>1. \A q \in Roles : receipts'[q].guidance # guidance'
    BY <1>7, <1>7a, <1>7b
  <2> QED
    BY <2>1 DEF ReceiptInv, Current
<1>10. RememberInv' /\ HintInv'
  BY <1>1, <1>5 DEF RememberInv, HintInv
<1> QED
  BY <1>3, <1>4, <1>8, <1>9, <1>10 DEF StateInv, LooksInv

-----------------------------------------------------------------------------
(* The invariant holds.                                                         *)

LEMMA NextState == RunStateAssumption /\ StateInv /\ [Next]_vars => StateInv'
<1> SUFFICES ASSUME RunStateAssumption, StateInv, [Next]_vars PROVE StateInv'
  OBVIOUS
<1>1. ASSUME NEW f \in 1 .. Files, Edit(f) PROVE StateInv'
  BY <1>1, EditKeeps
<1>2. ASSUME NEW t \in Coroutines,
             \/ Look(t) \/ Read(t) \/ Unreadable(t) \/ Deliver(t)
             \/ Flush(t) \/ SendAssignment(t) \/ Gate(t)
      PROVE  StateInv'
  BY <1>2, LookKeeps, ReadKeeps, UnreadableKeeps, DeliverKeeps, FlushKeeps, SendAssignmentKeeps,
     GateKeeps
<1>3. ASSUME NEW r \in Roles, Drained(r) \/ Report(r) \/ Remember(r) \/ Route(r) \/ Repair(r)
      PROVE  StateInv'
  BY <1>3, DrainedKeeps, ReportKeeps, RememberKeeps, RouteKeeps, RepairKeeps
<1>4. ASSUME NEW r \in Roles,
             Break(r) \/ Reconnect(r) \/ Handover(r) \/ Sends(r) \/ Replay(r) \/ Guide(r)
      PROVE  StateInv'
  BY <1>4, BreakKeeps, ReconnectKeeps, SendsKeeps, ReplayKeeps, GuideKeeps
<1>5. CASE UNCHANGED vars
  <2>1. /\ UNCHANGED <<filed, round, busy, decided, activated, gated, clients, steps, turn, queue>>
        /\ UNCHANGED <<pending, kept, heard, owed, receipts, guidance, fresh, files, look>>
        /\ UNCHANGED <<limits>>
    BY <1>5 DEF vars, reports, told, hints
  <2>2. ReportInv' /\ StepInv' /\ QueueInv'
    BY <2>1, StepsRest, QueueRest DEF StateInv, ReportInv
  <2>3. LookType'
    BY <2>1 DEF StateInv, LooksInv, LookType, Place, Unread
  <2>4. ReceiptInv' /\ RememberInv' /\ HintInv'
    BY <2>1 DEF StateInv, LooksInv, ReceiptInv, RememberInv, HintInv, Remembers, Noticed, Current
  <2> QED
    BY <2>2, <2>3, <2>4 DEF StateInv, LooksInv
<1> QED
  BY <1>1, <1>2, <1>3, <1>4, <1>5 DEF Next

LEMMA StateInvariant == RunStateAssumption => (Spec => []StateInv)
<1> SUFFICES ASSUME RunStateAssumption PROVE Spec => []StateInv
  OBVIOUS
<1>1. Init => StateInv
  BY InitState
<1>2. StateInv /\ [Next]_vars => StateInv'
  BY NextState
<1> QED
  BY <1>1, <1>2, PTL DEF Spec

LEMMA StateIsRight ==
  ASSUME RunStateAssumption, StateInv
  PROVE  TypeOK /\ NothingIsDropped /\ HintsAreTrue
<1>1. HintsAreTrue
  BY DEF StateInv, QueueInv, Capsules, HintsAreTrue
<1>2. NothingIsDropped
  <2> SUFFICES ASSUME NEW r \in Roles, r \notin pending PROVE Newest(r).n >= owed[r]
    BY DEF NothingIsDropped, StateInv, StepInv
  <2>1. Newest(r) = LastTold(queue[r], heard[r])
    BY DEF Newest, LastTold, IsState
  <2> QED
    BY <2>1 DEF StateInv, QueueInv
<1>3. /\ \A i \in DOMAIN filed : filed[i].by \in Roles /\ filed[i].round \in 1 .. round
      /\ Len(filed) \in Reports /\ round \in 1 .. MaxReports + 1 /\ gated \in 0 .. round
  <2>1. filed \in Seq([by : Roles, round : Nat]) /\ Len(filed) \in Nat /\ MaxReports \in Nat
    BY NothingIs DEF StateInv, ReportInv
  <2>2. \A i \in DOMAIN filed : filed[i].by \in Roles /\ filed[i].round \in 1 .. round
    <3> DEFINE R == [by : Roles, round : Nat]
    <3> HIDE DEF R
    <3>1. filed \in Seq(R)
      BY <2>1 DEF R
    <3>2. \A i \in DOMAIN filed : filed[i] \in R
      BY <3>1
    <3>3. \A i \in DOMAIN filed : filed[i].by \in Roles
      BY <3>2 DEF R
    <3> QED
      BY <3>3 DEF StateInv, ReportInv
  <2>3. /\ Len(filed) <= MaxReports /\ round \in Nat \ {0} /\ round <= Len(filed) + 1
        /\ gated \in 0 .. round
    BY DEF StateInv, ReportInv
  <2> QED
    BY <2>1, <2>2, <2>3 DEF Reports
<1>4. /\ busy \cup clients \cup pending \cup fresh \subseteq Roles /\ activated \subseteq decided
      /\ decided \subseteq Specialists
      /\ turn \in Coroutines \cup {""} /\ (turn # "" => steps[turn] # <<>>)
      /\ limits \in [edits : 0 .. MaxEdits, stalls : 0 .. MaxStalls, breaks : 0 .. MaxBreaks]
  BY DEF StateInv, ReportInv, StepInv, QueueInv, LooksInv, LookType, LimitType
<1>5. ASSUME NEW r \in Roles
      PROVE  /\ kept[r].n \in Reports /\ heard[r].n \in Reports /\ owed[r] \in Reports
             /\ \A i \in DOMAIN queue[r] : queue[r][i].by \in Coroutines
             /\ r \in clients \/ queue[r] = <<>>
             /\ receipts[r].guidance \in -1 .. guidance
  <2>1. kept[r] \in Capsules(MaxReports) /\ heard[r] \in Capsules(MaxReports)
    BY DEF StateInv, QueueInv
  <2>2. kept[r].n \in Reports /\ heard[r].n \in Reports
    BY <2>1 DEF Capsules, Reports
  <2>3. owed[r] \in Reports
    <3>1. owed[r] \in 0 .. Len(filed) /\ Len(filed) \in Reports
      BY <1>3 DEF StateInv, QueueInv
    <3> QED
      BY <3>1, NothingIs DEF Reports
  <2>4. queue[r] \in Seq(Entries)
    BY DEF StateInv, QueueInv
  <2>5. \A i \in DOMAIN queue[r] : queue[r][i] \in Entries
    BY <2>4
  <2>6. \A i \in DOMAIN queue[r] : queue[r][i].by \in Coroutines
    BY <2>5 DEF Entries
  <2>7. r \in clients \/ queue[r] = <<>>
    BY DEF StateInv, QueueInv
  <2>8. /\ receipts[r].guidance \in Int /\ receipts[r].guidance >= -1
        /\ receipts[r].guidance <= guidance /\ guidance \in Int
    BY NothingIs DEF StateInv, LooksInv, LookType
  <2>9. receipts[r].guidance \in -1 .. guidance
    BY <2>8
  <2> QED
    BY <2>2, <2>3, <2>6, <2>7, <2>9
<1>6. guidance \in 0 .. MaxGuidance /\ Len(look.seen) \in 0 .. 2 * Files
  <2>1. guidance \in 0 .. MaxGuidance /\ look.seen \in Seq(Nat) /\ Len(look.seen) <= 2 * Files
    BY DEF StateInv, LooksInv, LookType
  <2> QED
    BY <2>1, NothingIs
<1>7. TypeOK
  BY <1>3, <1>4, <1>5, <1>6 DEF TypeOK
<1> QED
  BY <1>1, <1>2, <1>7

-----------------------------------------------------------------------------
(* What follows.                                                             *)

\* Every variable keeps its type, for all constants (RunState's TypeOK).
THEOREM CapsuleTypes == RunStateAssumption => (Spec => []TypeOK)
<1> SUFFICES ASSUME RunStateAssumption PROVE Spec => []TypeOK
  OBVIOUS
<1>1. StateInv => TypeOK
  BY StateIsRight
<1>2. Spec => []StateInv
  BY StateInvariant
<1> QED
  BY <1>1, <1>2, PTL

\* As long as its connection stands, what a worker was to be told of the reports of
\* the others it has, is being sent, or gets with its next assignment, whatever
\* stalls, breaks and comes back (broker_workflow.py's _deliver_run_state and
\* _materialize_pending_run_state).
THEOREM ReportsAreTold == RunStateAssumption => (Spec => []NothingIsDropped)
<1> SUFFICES ASSUME RunStateAssumption PROVE Spec => []NothingIsDropped
  OBVIOUS
<1>1. StateInv => NothingIsDropped
  BY StateIsRight
<1>2. Spec => []StateInv
  BY StateInvariant
<1> QED
  BY <1>1, <1>2, PTL

\* A report that a worker is told is unchanged is one since whose acceptance no file
\* was edited and no guidance sent, up to the second of the two looks
\* (evidence_reuse.py's remember and snapshot).
THEOREM HintsHold == RunStateAssumption => (Spec => []HintsAreTrue)
<1> SUFFICES ASSUME RunStateAssumption PROVE Spec => []HintsAreTrue
  OBVIOUS
<1>1. StateInv => HintsAreTrue
  BY StateIsRight
<1>2. Spec => []StateInv
  BY StateInvariant
<1> QED
  BY <1>1, <1>2, PTL
=================================================================================
