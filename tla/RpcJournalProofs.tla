-------------------------- MODULE RpcJournalProofs --------------------------
(***************************************************************************)
(* Theorems about RpcJournal for all commands, clients, segment sizes and  *)
(* numbers of crashes, in three parts.                                     *)
(*                                                                         *)
(* Deliveries: its variables keep their types, and Pi is given every       *)
(* command at most once.  This needs no fact about the journal's numbers.  *)
(* A delivery is due only right behind the record of its command; the      *)
(* record is refused for a command that is known; and what was delivered   *)
(* is in registry.json before it is delivered, where no later process      *)
(* forgets it.                                                             *)
(*                                                                         *)
(* Answers, generations and handlers: whatever the registries, the         *)
(* journal, the acknowledgements or a handler's items say of a command is  *)
(* what Pi answered, because a verdict never changes.  Generations rise    *)
(* along the journal, none of the events is of a later generation than the *)
(* process that works, and a generation's prompt is known to nobody before *)
(* it.  Only the first two items of a handler record, each record follows  *)
(* from the status that the ones before it leave behind, and an open       *)
(* command of a running supervisor is with its Pi or on its way there.     *)
(*                                                                         *)
(* Recovery: what the files are worth to the next process, as long as not  *)
(* more deaths leave an event in the journal alone than a segment holds.   *)
(* The journal's numbers have no gap, its generations follow each other,   *)
(* and the registry is neither ahead of it nor further behind than what    *)
(* the journal still has.  The registry in memory is what a reader of the  *)
(* files makes of them, so every step of the supervisors is a step of      *)
(* CommandLog or changes nothing there.  Whoever notes the end has         *)
(* recorded a final status for every command before it.                    *)
(***************************************************************************)
EXTENDS RpcJournal, SequenceTheorems, WellFoundedInduction, TLAPS

-----------------------------------------------------------------------------
(* Items, and handlers that deliver nothing.                                *)

LEMMA NoCommandIsNone == NoCommand \notin Commands
  BY ConstantAssumption, SMT DEF NoCommand, Commands, Generations, Mail

LEMMA MailIsCommands == Mail \subseteq Commands
  BY DEF Commands

LEMMA StatusNames ==
  /\ {"received", "accepted", "started"} \subseteq Statuses
  /\ Terminal \subseteq Statuses
  /\ {"rejected", "completed", "failed", "aborted", "uncertain"} \subseteq Statuses
  /\ "unknown" \notin Statuses
  /\ Lifecycle = {"supervisor_started", "agent_started", "agent_settled", "supervisor_ended"}
  /\ Statuses \subseteq AckValues \cup {"received"}
  /\ {"none", "refused", "rejected", "accepted", "completed", "uncertain"} \subseteq AckValues
  BY DEF Statuses, Open, Terminal, Lifecycle, AckValues, Successful

LEMMA EmptyType == <<>> \in Seq(Items) /\ <<>> \in Seq(Event) /\ <<>> \in Seq(Nat) /\ Len(<<>>) = 0
  OBVIOUS

\* A handler that delivers nothing.
Plain(s) == s \in Seq(Items) /\ \A i \in 1..Len(s) : s[i].op # "send"

LEMMA PlainOne ==
  ASSUME NEW it \in Items, it.op # "send"
  PROVE  Plain(<<it>>)
  BY DEF Plain

LEMMA PlainEmpty == Plain(<<>>)
  BY EmptyType DEF Plain

LEMMA PlainConcatenation ==
  ASSUME NEW s, NEW t, Plain(s), Plain(t)
  PROVE  Plain(s \o t)
  BY DEF Plain

LEMMA PlainMoves ==
  ASSUME NEW S \in SUBSET Commands, NEW to \in Statuses
  PROVE  Plain(Moves(S, to))
<1>1. Item("move", S, to) \in Items /\ Item("move", S, to).op = "move"
  BY DEF Item, Items
<1>2. S # {} => Moves(S, to) = <<Item("move", S, to)>>
  BY DEF Moves
<1>3. S = {} => Moves(S, to) = <<>>
  BY DEF Moves
<1> QED  BY <1>1, <1>2, <1>3, PlainOne, PlainEmpty

LEMMA PlainNote ==
  ASSUME NEW kind \in Lifecycle
  PROVE  Plain(Note(kind))
<1>1. Item("note", {}, kind) \in Items /\ Item("note", {}, kind).op = "note"
  BY DEF Item, Items
<1> QED  BY <1>1, PlainOne DEF Note

LEMMA PlainAck ==
  ASSUME NEW c \in Mail, NEW value \in AckValues
  PROVE  Plain(Ack(c, value))
<1>1. Item("ack", {c}, value) \in Items /\ Item("ack", {c}, value).op = "ack"
  BY DEF Item, Items
<1> QED  BY <1>1, PlainOne DEF Ack

LEMMA PlainDo ==
  /\ \A c \in Commands : Plain(Do("begin", c))
  /\ \A c \in Mail : Plain(Do("read", c)) /\ Plain(Do("unlink", c))
  /\ Plain(Only("fail")) /\ Plain(Only("exit"))
<1>1. ASSUME NEW c \in Commands  PROVE Plain(Do("begin", c))
  <2>1. Item("begin", {c}, "") \in Items /\ Item("begin", {c}, "").op = "begin"
    BY DEF Item, Items
  <2> QED  BY <2>1, PlainOne DEF Do
<1>2. ASSUME NEW c \in Mail, NEW op \in {"read", "unlink"}  PROVE Plain(Do(op, c))
  <2>1. Item(op, {c}, "") \in Items /\ Item(op, {c}, "").op = op
    BY DEF Item, Items
  <2> QED  BY <2>1, PlainOne DEF Do
<1>3. ASSUME NEW op \in {"fail", "exit"}  PROVE Plain(Only(op))
  <2>1. Item(op, {}, "") \in Items /\ Item(op, {}, "").op = op
    BY DEF Item, Items
  <2> QED  BY <2>1, PlainOne DEF Only
<1> QED  BY <1>1, <1>2, <1>3

LEMMA PlainFinally ==
  ASSUME pending \subseteq Mail, NEW how \in {"failed", "clean"}
  PROVE  Plain(Finally(how))
<1>1. Item("giveup", pending, how) \in Items /\ Item("giveup", pending, how).op = "giveup"
  BY DEF Item, Items
<1> QED  BY <1>1, PlainOne DEF Finally

\* The fields of an item, by its kind.
LEMMA ItemFields ==
  ASSUME NEW it \in Items
  PROVE  /\ it.op = "move" => it.cmds \subseteq Commands /\ it.to \in Statuses
         /\ it.op = "note" => it.cmds = {} /\ it.to \in Lifecycle
         /\ it.op \in {"begin", "send"} => \E c \in Commands : it.cmds = {c}
         /\ it.op \in {"read", "unlink"} => \E c \in Mail : it.cmds = {c}
         /\ it.op = "ack" => (\E c \in Mail : it.cmds = {c}) /\ it.to \in AckValues
         /\ it.op = "giveup" => it.cmds \subseteq Mail /\ it.to \in {"failed", "clean"}
  BY DEF Items

LEMMA PlainClose ==
  ASSUME NEW how \in {"failed", "clean"}
  PROVE  Plain(CloseItems(how))
<1> DEFINE failed == IF how = "failed" THEN Of(mem, {"accepted", "started"}) ELSE {}
<1>1. failed \in SUBSET Commands /\ Of(mem, Open) \ failed \in SUBSET Commands
  BY DEF Of
<1>2. /\ Plain(Moves(failed, "failed"))
      /\ Plain(Moves(Of(mem, Open) \ failed, "uncertain"))
      /\ Plain(Note("supervisor_ended"))
      /\ Plain(Only("exit"))
  BY <1>1, PlainMoves, PlainNote, PlainDo, StatusNames
<1> QED  BY <1>2, PlainConcatenation DEF CloseItems

LEMMA TakenType ==
  ASSUME NEW c \in Commands
  PROVE  Moves({c}, "received") \o Do("send", c) \in Seq(Items)
<1>1. Item("send", {c}, "") \in Items
  BY DEF Item, Items
<1>2. ASSUME NEW it \in Items  PROVE <<it>> \in Seq(Items)
  OBVIOUS
<1>3. Moves({c}, "received") \in Seq(Items)
  BY PlainMoves, StatusNames DEF Plain
<1>4. Do("send", c) \in Seq(Items)
  BY <1>1, <1>2 DEF Do
<1> QED  BY <1>3, <1>4

-----------------------------------------------------------------------------
(* The registry and what a reader makes of the journal.                     *)

LEMMA JournalType ==
  ASSUME archive \in Seq(Event), current \in Seq(Event)
  PROVE  /\ Journal \in Seq(Event)
         /\ Len(Journal) = Len(archive) + Len(current)
         /\ \A i \in 1..Len(archive) : Journal[i] = archive[i]
         /\ \A i \in 1..Len(current) : Journal[Len(archive) + i] = current[i]
  BY DEF Journal

\* A bounded set of numbers has a latest one: the least distance from the bound.
LEMMA LatestIn ==
  ASSUME NEW n \in Nat, NEW S \in SUBSET (1..n), S # {}
  PROVE  Latest(S) \in S /\ \A j \in S : j <= Latest(S)
<1> DEFINE T == {n - i : i \in S}
<1>1. T \in SUBSET Nat /\ T # {}
  <2>1. PICK s \in S : TRUE
    OBVIOUS
  <2>2. n - s \in T
    BY <2>1
  <2>3. \A x \in S : n - x \in Nat
    OBVIOUS
  <2> QED  BY <2>2, <2>3
<1>2. PICK d \in T : \A x \in T : ~(<<x, d>> \in OpToRel(<, Nat))
  BY <1>1, NatLessThanWellFounded, WFMin
<1>3. PICK i \in S : d = n - i
  OBVIOUS
<1>4. \A j \in S : j <= i
  <2> SUFFICES ASSUME NEW j \in S  PROVE  j <= i
    OBVIOUS
  <2>1. n - j \in T /\ n - j \in Nat /\ d \in Nat
    BY <1>1
  <2>2. ~(n - j < d)
    BY <1>2, <2>1 DEF OpToRel
  <2> QED  BY <2>1, <2>2, <1>3
<1> QED  BY <1>4 DEF Latest

LEMMA EventFields ==
  ASSUME NEW e \in Event
  PROVE  /\ e.seq \in Nat /\ e.gen \in Nat
         /\ e.cmd \in Commands => e.kind \in Statuses
         /\ e.cmd \in Commands \/ (e.cmd = NoCommand /\ e.kind \in Lifecycle)
  BY NoCommandIsNone DEF Event

LEMMA NewerType ==
  ASSUME archive \in Seq(Event), current \in Seq(Event)
  PROVE  /\ Newer = {i \in 1..Len(Journal) : Journal[i].seq > saved.last}
         /\ \A c : About(c) \in SUBSET (1..Len(Journal))
  BY JournalType DEF Newer, About

LEMMA RecordedType ==
  ASSUME archive \in Seq(Event), current \in Seq(Event), saved \in Registry
  PROVE  /\ Recorded \in [Commands -> Statuses \cup {"unknown"}]
         /\ WasClosed \in BOOLEAN
<1>1. saved.cmds \in [Commands -> Statuses \cup {"unknown"}] /\ saved.closed \in BOOLEAN
  BY DEF Registry
<1>2. ASSUME NEW c \in Commands, About(c) # {}
      PROVE  Journal[Latest(About(c))].kind \in Statuses
  <2> DEFINE S == About(c)  n == Len(Journal)
  <2>a. n \in Nat /\ S \in SUBSET (1..n) /\ S # {}
    BY <1>2, NewerType, JournalType
  <2> HIDE DEF S, n
  <2>b. Latest(S) \in S
    BY <2>a, LatestIn
  <2> USE DEF S, n
  <2>1. Latest(About(c)) \in About(c)
    BY <2>b
  <2>2. Latest(About(c)) \in 1..Len(Journal) /\ Journal[Latest(About(c))].cmd = c
    BY <2>1, NewerType DEF About
  <2> QED  BY <2>2, JournalType, EventFields
<1>3. Recorded \in [Commands -> Statuses \cup {"unknown"}]
  BY <1>1, <1>2 DEF Recorded
<1>4. WasClosed \in BOOLEAN
  BY <1>1 DEF WasClosed
<1> QED  BY <1>3, <1>4

LEMMA LastEventType ==
  ASSUME archive \in Seq(Event), current \in Seq(Event), Journal # <<>>
  PROVE  LastEvent \in Event /\ Len(Journal) \in 1..Len(Journal) /\ Len(Journal) \in Nat
  BY JournalType DEF LastEvent

LEMMA ReplayedType ==
  ASSUME archive \in Seq(Event), current \in Seq(Event), saved \in Registry
  PROVE  Replayed \in Registry
<1>1. saved.last \in Nat /\ saved.gen \in Nat
  BY DEF Registry
<1>2. Newer # {} => Journal # <<>>
  BY NewerType, JournalType
<1>3. Journal # <<>> => LastEvent.seq \in Nat /\ LastEvent.gen \in Nat
  BY LastEventType, EventFields
<1> QED  BY <1>1, <1>2, <1>3, RecordedType DEF Replayed, Registry

LEMMA ApplyType ==
  ASSUME NEW reg \in Registry, NEW e \in Event
  PROVE  /\ Apply(reg, e) \in Registry
         /\ Apply(reg, e).last = e.seq
         /\ \A c \in Commands : Apply(reg, e).cmds[c] = IF c = e.cmd THEN e.kind ELSE reg.cmds[c]
<1>1. /\ reg.gen \in Nat /\ reg.closed \in BOOLEAN
      /\ reg.cmds \in [Commands -> Statuses \cup {"unknown"}]
  BY DEF Registry
<1>2. (IF e.cmd \in Commands THEN [reg.cmds EXCEPT ![e.cmd] = e.kind] ELSE reg.cmds)
        \in [Commands -> Statuses \cup {"unknown"}]
  BY <1>1, EventFields
<1>3. (IF e.cmd \in Commands THEN reg.closed ELSE e.kind = "supervisor_ended") \in BOOLEAN
  BY <1>1
<1>4. Apply(reg, e) \in Registry
  BY <1>1, <1>2, <1>3, EventFields DEF Apply, Registry
<1> QED  BY <1>1, <1>4, EventFields DEF Apply

LEMMA BlankType == Blank \in Registry
  BY DEF Blank, Registry

-----------------------------------------------------------------------------
(* TypeOK by the groups of variables that a step leaves alone together.     *)

FilesOK   == /\ archive \in Seq(Event) /\ current \in Seq(Event)
             /\ torn \in BOOLEAN /\ saved \in Registry
MailboxOK == /\ inbox \subseteq Mail /\ acks \in [Mail -> AckValues]
             /\ asks \in [Clients -> {"no"} \X {NoCommand} \cup {"clearing", "waiting"} \X Mail]
ProcOK    == proc \in {"down", "starting", "running", "closing", "stopping"}
WorkOK    == work \in Seq(Items)
WritingOK == writing \in Seq(Event) /\ Len(writing) <= 1
OthersOK  == pending \subseteq Mail /\ aborting \in BOOLEAN
PiOK      == /\ piUp \in BOOLEAN /\ sent \in [Commands -> Seq(Nat)]
             /\ verdict \in [Commands -> {"none", "yes", "no"}]
MemOK     == mem \in Registry
StopsOK   == stops \in Nat

LEMMA TypeParts ==
  TypeOK <=> FilesOK /\ MailboxOK /\ ProcOK /\ WorkOK /\ WritingOK /\ OthersOK /\ PiOK /\ MemOK /\ StopsOK
  BY DEF TypeOK, FilesOK, MailboxOK, ProcOK, WorkOK, WritingOK, OthersOK, PiOK, MemOK, StopsOK

LEMMA TypePartsNext ==
  TypeOK' <=> /\ FilesOK' /\ MailboxOK' /\ ProcOK' /\ WorkOK' /\ WritingOK' /\ OthersOK'
              /\ PiOK' /\ MemOK' /\ StopsOK'
  BY DEF TypeOK, FilesOK, MailboxOK, ProcOK, WorkOK, WritingOK, OthersOK, PiOK, MemOK, StopsOK

\* A step that leaves a group of variables alone keeps its types.
LEMMA Kept ==
  /\ FilesOK /\ UNCHANGED disk => FilesOK'
  /\ MailboxOK /\ UNCHANGED mailbox => MailboxOK'
  /\ PiOK /\ UNCHANGED pi => PiOK'
  /\ StopsOK /\ UNCHANGED stops => StopsOK'
  /\ MemOK /\ UNCHANGED mem => MemOK'
  /\ ProcOK /\ UNCHANGED proc => ProcOK'
  /\ WritingOK /\ UNCHANGED writing => WritingOK'
  /\ WorkOK /\ UNCHANGED work => WorkOK'
  /\ OthersOK /\ UNCHANGED <<pending, aborting>> => OthersOK'
<1>1. FilesOK /\ UNCHANGED disk => FilesOK'
  BY DEF FilesOK, disk
<1>2. MailboxOK /\ UNCHANGED mailbox => MailboxOK'
  BY DEF MailboxOK, mailbox
<1>3. PiOK /\ UNCHANGED pi => PiOK'
  BY DEF PiOK, pi
<1>4. OthersOK /\ UNCHANGED <<pending, aborting>> => OthersOK'
  BY DEF OthersOK
<1>5. /\ StopsOK /\ UNCHANGED stops => StopsOK'
      /\ MemOK /\ UNCHANGED mem => MemOK'
      /\ ProcOK /\ UNCHANGED proc => ProcOK'
      /\ WorkOK /\ UNCHANGED work => WorkOK'
  BY DEF StopsOK, MemOK, ProcOK, WorkOK
<1>6. WritingOK /\ UNCHANGED writing => WritingOK'
  BY DEF WritingOK
<1> QED  BY <1>1, <1>2, <1>3, <1>4, <1>5, <1>6

\* The process is gone: nothing of it is left to be of a wrong type.
LEMMA GoneType ==
  Gone => ProcOK' /\ MemOK' /\ WorkOK' /\ WritingOK' /\ OthersOK' /\ piUp' = FALSE
<1> SUFFICES ASSUME Gone
             PROVE  ProcOK' /\ MemOK' /\ WorkOK' /\ WritingOK' /\ OthersOK' /\ piUp' = FALSE
  OBVIOUS
<1>1. ProcOK' /\ OthersOK' /\ piUp' = FALSE
  BY DEF Gone, ProcOK, OthersOK
<1>2. MemOK'
  BY BlankType DEF Gone, MemOK
<1>3. WorkOK' /\ WritingOK'
  BY EmptyType DEF Gone, WorkOK, WritingOK
<1> QED  BY <1>1, <1>2, <1>3

\* The head of a handler is an item, what follows it is a handler.
LEMMA HeadType ==
  ASSUME work \in Seq(Items), work # <<>>
  PROVE  Head(work) \in Items /\ Rest \in Seq(Items)
  BY DEF Rest

LEMMA SubjectType ==
  ASSUME work \in Seq(Items)
  PROVE  /\ At("begin") \/ At("send") => Subject \in Commands /\ Head(work).cmds = {Subject}
         /\ At("read") \/ At("unlink") \/ At("ack")
              => Subject \in Mail /\ Head(work).cmds = {Subject}
<1>1. At("begin") \/ At("send") => \E c \in Commands : Head(work).cmds = {c}
  BY HeadType, ItemFields DEF At
<1>2. At("read") \/ At("unlink") \/ At("ack") => \E c \in Mail : Head(work).cmds = {c}
  BY HeadType, ItemFields DEF At
<1> QED  BY <1>1, <1>2 DEF Subject

-----------------------------------------------------------------------------
(* The invariant.                                                           *)

Live == proc # "down"

\* A dead process has nothing left to do.
Quiet == ~Live => work = <<>> /\ writing = <<>>

\* The event appended belongs to the item at the head of the handler; a command's
\* next status was permitted when it was appended, and still is.
WritingFits ==
  writing # <<>> =>
    /\ work # <<>> /\ Head(work).op \in {"move", "note"}
    /\ writing[1].kind = Head(work).to
    /\ Head(work).op = "move" =>
         /\ writing[1].cmd \in Head(work).cmds /\ writing[1].cmd \in Commands
         /\ Permitted(mem.cmds[writing[1].cmd], writing[1].kind)
    /\ Head(work).op = "note" => writing[1].cmd = NoCommand

\* A process forgets no command that registry.json has.
NothingForgotten == Live => \A c \in Commands : saved.cmds[c] # "unknown" => mem.cmds[c] # "unknown"

\* What was delivered is in registry.json.
DeliveredIsSaved == \A c \in Commands : sent[c] # <<>> => saved.cmds[c] # "unknown"

\* A delivery is due only right behind the record of its command, and once that is
\* made, registry.json has it and nobody delivered it.
Due(c) == saved.cmds[c] # "unknown" /\ sent[c] = <<>>
SendsFollow ==
  \A i \in DOMAIN work :
    work[i].op = "send" =>
      \/ i = 1 /\ \A c \in work[i].cmds : Due(c)
      \/ i = 2 /\ work[1] = Item("move", work[i].cmds, "received")

DeliveryInvariant ==
  TypeOK /\ Quiet /\ WritingFits /\ NothingForgotten /\ DeliveredIsSaved /\ SendsFollow /\ DeliveredOnce

LEMMA PlainSends ==
  ASSUME Plain(work')
  PROVE  SendsFollow' /\ WorkOK'
  BY DEF Plain, SendsFollow, WorkOK

\* Behind a head that is no record nothing is to be delivered.
LEMMA PlainRest ==
  ASSUME work \in Seq(Items), work # <<>>, SendsFollow, Head(work).op # "move"
  PROVE  Plain(Rest)
<1>1. Rest \in Seq(Items) /\ Len(Rest) = Len(work) - 1 /\ \A i \in 1..Len(Rest) : Rest[i] = work[i + 1]
  BY DEF Rest
<1>2. ASSUME NEW i \in 1..Len(Rest), Rest[i].op = "send"  PROVE FALSE
  <2>1. i + 1 \in DOMAIN work /\ i + 1 # 1 /\ work[i + 1].op = "send"
    BY <1>1, <1>2
  <2>2. work[1] = Item("move", work[i + 1].cmds, "received")
    BY <2>1 DEF SendsFollow
  <2>3. Head(work) = work[1]
    OBVIOUS
  <2> QED  BY <2>2, <2>3 DEF Item
<1> QED  BY <1>1, <1>2 DEF Plain

LEMMA TwoAndMore ==
  ASSUME NEW a \in Items, NEW b \in Items, NEW rest \in Seq(Items), NEW s, s = <<a>> \o <<b>> \o rest
  PROVE  /\ s \in Seq(Items) /\ Len(rest) \in Nat
         /\ Len(s) = 2 + Len(rest) /\ s[1] = a /\ s[2] = b
         /\ \A i \in 1..Len(rest) : s[2 + i] = rest[i]
         /\ Head(s) = a /\ s # <<>>
  OBVIOUS

\* A command recorded and delivered by what follows.
LEMMA TakenFollows ==
  ASSUME NEW c \in Commands, NEW rest, Plain(rest), work' = Moves({c}, "received") \o Do("send", c) \o rest
  PROVE  SendsFollow' /\ WorkOK'
<1> DEFINE m == Item("move", {c}, "received")
           d == Item("send", {c}, "")
<1>1. Moves({c}, "received") = <<m>> /\ Do("send", c) = <<d>>
  BY DEF Moves, Do
<1>2. m \in Items /\ d \in Items /\ rest \in Seq(Items)
  BY StatusNames DEF Item, Items, Plain
<1>3. m.op = "move" /\ d.cmds = {c}
  BY DEF Item
<1> DEFINE s == work'
<1>4. s = <<m>> \o <<d>> \o rest
  BY <1>1
<1> HIDE DEF m, d, s
<1>5. /\ s \in Seq(Items) /\ Len(rest) \in Nat
      /\ Len(s) = 2 + Len(rest) /\ s[1] = m /\ s[2] = d
      /\ \A i \in 1..Len(rest) : s[2 + i] = rest[i]
  BY <1>2, <1>4, TwoAndMore
<1>6. ASSUME NEW i \in DOMAIN s, s[i].op = "send"  PROVE i = 2
  <2>1. i \in 1..(2 + Len(rest))
    BY <1>5
  <2>2. i # 1
    BY <1>3, <1>5, <1>6
  <2>3. CASE i > 2
    <3>1. i - 2 \in 1..Len(rest)
      BY <1>5, <2>1, <2>3
    <3>2. s[2 + (i - 2)] = rest[i - 2] /\ rest[i - 2].op # "send"
      BY <1>5, <3>1 DEF Plain
    <3>3. 2 + (i - 2) = i
      BY <2>1
    <3> QED  BY <1>6, <3>2, <3>3
  <2> QED  BY <1>5, <2>1, <2>2, <2>3
<1>7. \A i \in DOMAIN s : s[i].op = "send" => i = 2 /\ s[1] = Item("move", s[i].cmds, "received")
  BY <1>3, <1>5, <1>6 DEF m
<1> QED  BY <1>5, <1>7 DEF SendsFollow, WorkOK, s

-----------------------------------------------------------------------------
(* What kinds of steps do to the invariant.                                 *)

\* Who works on something is alive, and who does nothing writes nothing.
LEMMA WorkerLives ==
  ASSUME DeliveryInvariant
  PROVE  /\ work # <<>> \/ writing # <<>> \/ proc = "running" => Live
         /\ work = <<>> => writing = <<>>
  BY DEF DeliveryInvariant, Quiet, Live, WritingFits

\* A step of a live process that touches neither registry nor Pi.
LEMMA GoesOn ==
  ASSUME DeliveryInvariant, Live, Live', UNCHANGED <<disk, stops, mem, pi>>, writing' = <<>>,
         MailboxOK', ProcOK', OthersOK', Plain(work') \/ (WorkOK' /\ SendsFollow')
  PROVE  DeliveryInvariant'
<1>1. Quiet' /\ WritingFits'
  BY DEF Quiet, WritingFits
<1>2. UNCHANGED <<saved, mem, sent>>
  BY DEF disk, pi
<1>3. NothingForgotten' /\ DeliveredIsSaved' /\ DeliveredOnce'
  BY <1>2 DEF DeliveryInvariant, NothingForgotten, DeliveredIsSaved, DeliveredOnce
<1>4. WorkOK' /\ SendsFollow' /\ WritingOK'
  BY PlainSends, EmptyType DEF Plain, WorkOK, WritingOK
<1>5. TypeOK'
  BY <1>4, Kept, TypeParts, TypePartsNext DEF DeliveryInvariant
<1> QED  BY <1>1, <1>3, <1>4, <1>5 DEF DeliveryInvariant

\* The end of a process.
LEMMA GoneKeeps ==
  ASSUME DeliveryInvariant, Gone, FilesOK', UNCHANGED <<mailbox, saved, sent, verdict>>, stops' \in Nat
  PROVE  DeliveryInvariant'
<1>1. Quiet' /\ WritingFits' /\ NothingForgotten'
  BY DEF Gone, Quiet, WritingFits, NothingForgotten, Live
<1>2. DeliveredIsSaved' /\ DeliveredOnce'
  BY DEF DeliveryInvariant, DeliveredIsSaved, DeliveredOnce
<1>3. SendsFollow'
  BY PlainEmpty, PlainSends DEF Gone
<1>4. PiOK'
  BY GoneType, TypeParts DEF DeliveryInvariant, PiOK
<1>5. TypeOK'
  BY <1>4, GoneType, Kept, TypeParts, TypePartsNext DEF DeliveryInvariant, StopsOK
<1> QED  BY <1>1, <1>2, <1>3, <1>5 DEF DeliveryInvariant

\* Clients, Pi and a rotation touch nothing that the invariant is about.
LEMMA Outside ==
  ASSUME DeliveryInvariant, UNCHANGED <<saved, stops, process, sent>>,
         FilesOK', MailboxOK', PiOK'
  PROVE  DeliveryInvariant'
<1>1. Quiet' /\ WritingFits' /\ NothingForgotten'
  BY DEF DeliveryInvariant, Quiet, WritingFits, NothingForgotten, Live, process
<1>2. DeliveredIsSaved' /\ DeliveredOnce'
  BY DEF DeliveryInvariant, DeliveredIsSaved, DeliveredOnce
<1>3. SendsFollow'
  BY DEF DeliveryInvariant, SendsFollow, Due, process
<1>4. TypeOK'
  BY Kept, TypeParts, TypePartsNext DEF DeliveryInvariant, process
<1> QED  BY <1>1, <1>2, <1>3, <1>4 DEF DeliveryInvariant

-----------------------------------------------------------------------------
(* The invariant is preserved.                                              *)

LEMMA TypeInit == Init => TypeOK
<1> SUFFICES ASSUME Init  PROVE TypeOK
  OBVIOUS
<1>1. FilesOK
  BY BlankType, EmptyType DEF Init, FilesOK
<1>2. MailboxOK
  BY StatusNames DEF Init, MailboxOK
<1>3. ProcOK /\ OthersOK /\ StopsOK
  BY DEF Init, ProcOK, OthersOK, StopsOK
<1>4. WorkOK /\ WritingOK /\ MemOK
  BY BlankType, EmptyType DEF Init, WorkOK, WritingOK, MemOK
<1>5. PiOK
  BY EmptyType DEF Init, PiOK
<1> QED  BY <1>1, <1>2, <1>3, <1>4, <1>5, TypeParts

LEMMA DeliveryInit == Init => DeliveryInvariant
<1> SUFFICES ASSUME Init  PROVE DeliveryInvariant
  OBVIOUS
<1>1. \A c \in Commands : sent[c] = <<>>
  BY DEF Init
<1>2. DeliveredIsSaved /\ DeliveredOnce
  BY <1>1, EmptyType DEF DeliveredIsSaved, DeliveredOnce
<1>3. Quiet /\ WritingFits /\ NothingForgotten /\ SendsFollow
  BY DEF Init, Quiet, WritingFits, NothingForgotten, SendsFollow, Live
<1> QED  BY <1>2, <1>3, TypeInit DEF DeliveryInvariant

LEMMA DeliveryClient ==
  ASSUME DeliveryInvariant, NEW k \in Clients, Client(k)
  PROVE  DeliveryInvariant'
<1>1. /\ inbox \subseteq Mail /\ acks \in [Mail -> AckValues]
      /\ asks \in [Clients -> {"no"} \X {NoCommand} \cup {"clearing", "waiting"} \X Mail]
  BY TypeParts DEF DeliveryInvariant, MailboxOK
<1>2. ASSUME NEW c \in Mail, Ask(k, c)  PROVE MailboxOK'
  BY <1>1, <1>2, StatusNames DEF Ask, MailboxOK
<1>3. ASSUME Post(k)  PROVE MailboxOK'
  <2>1. asks[k] \in {"clearing", "waiting"} \X Mail
    BY <1>1, <1>3 DEF Post
  <2>2. asks[k][2] \in Mail
    BY <2>1
  <2>3. asks' \in [Clients -> {"no"} \X {NoCommand} \cup {"clearing", "waiting"} \X Mail]
    BY <1>1, <1>3, <2>2 DEF Post
  <2>4. inbox' \subseteq Mail /\ acks' = acks
    BY <1>1, <1>3, <2>2 DEF Post
  <2> QED  BY <1>1, <2>3, <2>4 DEF MailboxOK
<1>4. ASSUME Leave(k)  PROVE MailboxOK'
  BY <1>1, <1>4, StatusNames DEF Leave, MailboxOK
<1>5. ASSUME Vanish(k)  PROVE MailboxOK'
  BY <1>1, <1>5 DEF Vanish, MailboxOK
<1>6. MailboxOK'
  BY <1>2, <1>3, <1>4, <1>5 DEF Client
<1>7. UNCHANGED <<disk, stops, process, pi, saved, sent>>
  BY DEF Client, Ask, Post, Leave, Vanish, disk, pi
<1> QED  BY <1>6, <1>7, Kept, Outside, TypeParts DEF DeliveryInvariant

LEMMA DeliveryPi ==
  ASSUME DeliveryInvariant, Pi
  PROVE  DeliveryInvariant'
<1>1. PiOK
  BY TypeParts DEF DeliveryInvariant
<1>2. ASSUME NEW c \in Commands, NEW v \in {"yes", "no"}, Decide(c, v)  PROVE PiOK'
  BY <1>1, <1>2 DEF Decide, PiOK
<1>3. ASSUME PiDies  PROVE PiOK'
  BY <1>1, <1>3 DEF PiDies, PiOK
<1>4. PiOK'
  BY <1>2, <1>3 DEF Pi
<1>5. UNCHANGED <<disk, mailbox, stops, process, saved, sent>>
  BY DEF Pi, Decide, PiDies, disk
<1> QED  BY <1>4, <1>5, Kept, Outside, TypeParts DEF DeliveryInvariant

LEMMA DeliveryRotate ==
  ASSUME DeliveryInvariant, Rotate
  PROVE  DeliveryInvariant'
<1>1. FilesOK'
  BY EmptyType, TypeParts DEF DeliveryInvariant, Rotate, FilesOK
<1>2. UNCHANGED <<mailbox, stops, process, pi, saved, sent>>
  BY DEF Rotate, pi
<1> QED  BY <1>1, <1>2, Kept, Outside, TypeParts DEF DeliveryInvariant

\* What registry.json knows, a reader of it and of the journal knows.
LEMMA ReplayForgetsNothing ==
  ASSUME archive \in Seq(Event), current \in Seq(Event), saved \in Registry,
         NEW c \in Commands, saved.cmds[c] # "unknown"
  PROVE  Replayed.cmds[c] # "unknown"
<1>1. About(c) # {} => Journal[Latest(About(c))].kind \in Statuses
  <2> SUFFICES ASSUME About(c) # {}  PROVE Journal[Latest(About(c))].kind \in Statuses
    OBVIOUS
  <2> DEFINE S == About(c)  n == Len(Journal)
  <2>1. n \in Nat /\ S \in SUBSET (1..n) /\ S # {}
    BY NewerType, JournalType
  <2> HIDE DEF S, n
  <2>2. Latest(S) \in S
    BY <2>1, LatestIn
  <2> USE DEF S, n
  <2>3. Latest(About(c)) \in 1..Len(Journal) /\ Journal[Latest(About(c))].cmd = c
    BY <2>2, NewerType DEF About
  <2> QED  BY <2>3, JournalType, EventFields
<1>2. "unknown" \notin Statuses
  BY DEF Statuses, Open, Terminal
<1>3. Recorded[c] # "unknown"
  BY <1>1, <1>2 DEF Recorded
<1> QED  BY <1>3 DEF Replayed

\* A process begins with what a reader knows.
LEMMA Begins ==
  ASSUME DeliveryInvariant, Live', ProcOK', OthersOK', piUp' \in BOOLEAN, stops' \in Nat,
         mem' \in Registry, mem'.cmds = Replayed.cmds,
         UNCHANGED <<disk, mailbox, sent, verdict>>, writing' = <<>>, Plain(work')
  PROVE  DeliveryInvariant'
<1>1. archive \in Seq(Event) /\ current \in Seq(Event) /\ saved \in Registry
  BY TypeParts DEF DeliveryInvariant, FilesOK
<1>2. UNCHANGED saved
  BY DEF disk
<1>3. NothingForgotten'
  BY <1>1, <1>2, ReplayForgetsNothing DEF NothingForgotten
<1>4. Quiet' /\ WritingFits'
  BY DEF Quiet, WritingFits
<1>5. DeliveredIsSaved' /\ DeliveredOnce'
  BY <1>2 DEF DeliveryInvariant, DeliveredIsSaved, DeliveredOnce
<1>6. WorkOK' /\ WritingOK' /\ MemOK' /\ StopsOK'
  BY EmptyType DEF Plain, WorkOK, WritingOK, MemOK, StopsOK
<1>7. PiOK'
  BY TypeParts DEF DeliveryInvariant, PiOK
<1>8. TypeOK'
  BY <1>6, <1>7, Kept, TypeParts, TypePartsNext DEF DeliveryInvariant
<1> QED  BY <1>3, <1>4, <1>5, <1>8, PlainSends DEF DeliveryInvariant

LEMMA DeliveryStart ==
  ASSUME DeliveryInvariant, Start
  PROVE  DeliveryInvariant'
<1>1. archive \in Seq(Event) /\ current \in Seq(Event) /\ saved \in Registry
  BY TypeParts DEF DeliveryInvariant, FilesOK
<1>2. Replayed \in Registry /\ NextGeneration \in Commands /\ NextGeneration \in Nat
  BY <1>1, ReplayedType DEF Start, Commands, Generations
<1>3. mem' \in Registry /\ mem'.cmds = Replayed.cmds
  <2>1. mem' = [Replayed EXCEPT !.gen = NextGeneration]
    BY DEF Start
  <2> QED  BY <1>2, <2>1 DEF Registry
<1>4. /\ Plain(Note("supervisor_started"))
      /\ Plain(Leftovers)
      /\ Plain(Do("begin", NextGeneration))
  BY <1>2, PlainNote, PlainMoves, PlainDo, StatusNames DEF Leftovers, Of
<1>5. Plain(work')
  BY <1>4, PlainConcatenation DEF Start
<1>6. writing' = <<>>
  BY DEF Start, DeliveryInvariant, Quiet, Live
<1>7. Live' /\ ProcOK' /\ piUp' \in BOOLEAN
  BY DEF Start, Live, ProcOK
<1>8. UNCHANGED <<disk, mailbox, stops, sent, verdict, pending, aborting>>
  BY DEF Start
<1>9. OthersOK' /\ stops' \in Nat
  BY <1>8, Kept, TypeParts DEF DeliveryInvariant, StopsOK
<1> QED  BY <1>3, <1>5, <1>6, <1>7, <1>8, <1>9, Begins

LEMMA DeliveryStop ==
  ASSUME DeliveryInvariant, Stop
  PROVE  DeliveryInvariant'
<1>1. UNCHANGED <<disk, mailbox, sent, verdict>>
  BY DEF Stop
<1>2. FilesOK' /\ UNCHANGED saved
  BY <1>1, Kept, TypeParts DEF DeliveryInvariant, disk
<1>3. stops' \in Nat
  BY TypeParts DEF DeliveryInvariant, Stop, StopsOK
<1>4. ASSUME ~Gone  PROVE DeliveryInvariant'
  <2>1. /\ proc' = "stopping" /\ mem' = Replayed /\ work' = StopItems
        /\ writing' = <<>> /\ pending' = {} /\ aborting' = FALSE /\ piUp' = FALSE
    BY <1>4 DEF Stop
  <2>2. Plain(Moves(Of(Replayed, Open), "uncertain")) /\ Plain(Only("exit"))
    BY PlainMoves, PlainDo, StatusNames DEF Of
  <2>3. Plain(IF Replayed.closed THEN <<>> ELSE Note("supervisor_ended"))
    BY PlainEmpty, PlainNote, StatusNames
  <2>4. Plain(work')
    BY <2>1, <2>2, <2>3, PlainConcatenation DEF StopItems
  <2>5. mem' \in Registry /\ mem'.cmds = Replayed.cmds
    BY <2>1, ReplayedType, TypeParts DEF DeliveryInvariant, FilesOK
  <2>6. Live' /\ ProcOK' /\ OthersOK' /\ piUp' \in BOOLEAN
    BY <2>1 DEF Live, ProcOK, OthersOK
  <2> QED  BY <1>1, <1>3, <2>1, <2>4, <2>5, <2>6, Begins
<1>5. ASSUME Gone  PROVE DeliveryInvariant'
  BY <1>1, <1>2, <1>3, <1>5, GoneKeeps
<1> QED  BY <1>4, <1>5

\* The event that is appended fits the head of the handler.
LEMMA AppendFits ==
  ASSUME TypeOK, AppendEvent
  PROVE  /\ TypeOK'
         /\ \E e \in Event : /\ writing' = <<e>> /\ current' = Append(current, e)
                             /\ e.seq = mem.last + 1 /\ e.kind = Head(work).to
                             /\ \/ /\ Head(work).op = "move" /\ e.cmd \in Head(work).cmds
                                   /\ e.cmd \in Commands /\ Permitted(mem.cmds[e.cmd], e.kind)
                                \/ Head(work).op = "note" /\ e.cmd = NoCommand
<1>1. mem.last \in Nat /\ mem.gen \in Nat
  BY TypeParts DEF MemOK, Registry
<1>2. Head(work) \in Items
  BY HeadType, TypeParts DEF WorkOK, AppendEvent, Recording
<1>3. PICK c \in IF Head(work).op = "move" THEN Head(work).cmds ELSE {NoCommand} :
        LET e == [seq |-> mem.last + 1, gen |-> mem.gen, kind |-> Head(work).to, cmd |-> c] IN
        /\ c \in Commands => Permitted(mem.cmds[c], e.kind)
        /\ current' = Append(current, e)
        /\ writing' = <<e>>
  BY DEF AppendEvent
<1> DEFINE e == [seq |-> mem.last + 1, gen |-> mem.gen, kind |-> Head(work).to, cmd |-> c]
<1>4. Head(work).op = "move" \/ Head(work).op = "note"
  BY DEF AppendEvent, Recording
<1>5. \/ Head(work).op = "move" /\ c \in Head(work).cmds /\ c \in Commands /\ Head(work).to \in Statuses
      \/ Head(work).op = "note" /\ c = NoCommand /\ Head(work).to \in Lifecycle
  BY <1>2, <1>3, <1>4, ItemFields
<1>6. e \in Event
  BY <1>1, <1>5 DEF Event
<1>7. writing' = <<e>> /\ current' = Append(current, e)
  BY <1>3
<1>8. c \in Commands => Permitted(mem.cmds[c], Head(work).to)
  BY <1>3
<1>9. /\ e.seq = mem.last + 1 /\ e.kind = Head(work).to
      /\ \/ /\ Head(work).op = "move" /\ e.cmd \in Head(work).cmds
            /\ e.cmd \in Commands /\ Permitted(mem.cmds[e.cmd], e.kind)
         \/ Head(work).op = "note" /\ e.cmd = NoCommand
  BY <1>5, <1>8
<1> HIDE DEF e
<1>10. FilesOK'
  <2>1. current \in Seq(Event) /\ archive' = archive /\ torn' = torn /\ saved' = saved
    BY TypeParts DEF FilesOK, AppendEvent
  <2>2. current' \in Seq(Event)
    BY <1>6, <1>7, <2>1
  <2> QED  BY <2>1, <2>2, TypeParts DEF FilesOK
<1>11. WritingOK'
  BY <1>6, <1>7 DEF WritingOK
<1>12. UNCHANGED <<mailbox, stops, proc, mem, work, pending, aborting, pi>>
  BY DEF AppendEvent
<1>13. TypeOK'
  BY <1>10, <1>11, <1>12, Kept, TypeParts, TypePartsNext
<1> QED  BY <1>6, <1>7, <1>9, <1>13

LEMMA DeliveryAppend ==
  ASSUME DeliveryInvariant, AppendEvent
  PROVE  DeliveryInvariant'
<1>0. TypeOK'
  BY AppendFits DEF DeliveryInvariant
<1>1. PICK e \in Event : /\ writing' = <<e>>
                         /\ e.kind = Head(work).to
                         /\ \/ /\ Head(work).op = "move" /\ e.cmd \in Head(work).cmds
                               /\ e.cmd \in Commands /\ Permitted(mem.cmds[e.cmd], e.kind)
                            \/ Head(work).op = "note" /\ e.cmd = NoCommand
  BY AppendFits DEF DeliveryInvariant
<1>2. work # <<>> /\ UNCHANGED <<saved, proc, mem, work, sent>>
  BY DEF AppendEvent, Recording, pi
<1>3. WritingFits'
  <2>1. writing'[1] = e
    BY <1>1
  <2> QED  BY <1>1, <1>2, <2>1 DEF WritingFits
<1>4. Quiet' /\ NothingForgotten'
  BY <1>2 DEF DeliveryInvariant, Quiet, NothingForgotten, Live
<1>5. DeliveredIsSaved' /\ DeliveredOnce'
  BY <1>2 DEF DeliveryInvariant, DeliveredIsSaved, DeliveredOnce
<1>6. SendsFollow'
  BY <1>2 DEF DeliveryInvariant, SendsFollow, Due
<1> QED  BY <1>0, <1>3, <1>4, <1>5, <1>6 DEF DeliveryInvariant

LEMMA PermittedReceived ==
  \A old : Permitted(old, "received") => old = "unknown"
  BY DEF Permitted

\* Of what follows the record just made, only that command is due.
LEMMA SaveFollows ==
  ASSUME DeliveryInvariant, SaveRegistry
  PROVE  SendsFollow' /\ WorkOK'
<1> DEFINE e == writing[1]
<1>1. /\ work \in Seq(Items) /\ work # <<>> /\ writing # <<>>
      /\ writing \in Seq(Event) /\ Len(writing) <= 1 /\ mem \in Registry
      /\ Head(work) = work[1] /\ Head(work) \in Items
  <2>1. work \in Seq(Items) /\ writing \in Seq(Event) /\ Len(writing) <= 1 /\ mem \in Registry
    BY DEF DeliveryInvariant, TypeOK
  <2>2. work # <<>> /\ writing # <<>>
    BY DEF DeliveryInvariant, WritingFits, SaveRegistry
  <2> QED  BY <2>1, <2>2
<1>2. e \in Event
  BY <1>1
<1>3. saved' = Apply(mem, e) /\ sent' = sent
  BY DEF SaveRegistry, pi
<1>4. work' = (IF Head(work).op = "move" THEN Moves(Head(work).cmds \ {e.cmd}, Head(work).to) ELSE <<>>)
              \o Rest
  BY DEF SaveRegistry, Rest
<1>5. Rest \in Seq(Items) /\ Len(Rest) = Len(work) - 1 /\ \A i \in 1..Len(Rest) : Rest[i] = work[i + 1]
  BY <1>1 DEF Rest
<1>6. CASE Head(work).op # "move"
  <2>1. Plain(Rest)
    BY <1>1, <1>6, PlainRest DEF DeliveryInvariant
  <2>2. work' = <<>> \o Rest
    BY <1>4, <1>6
  <2> QED  BY <2>1, <2>2, PlainEmpty, PlainConcatenation, PlainSends
<1>7. ASSUME Head(work).op = "move", Head(work).cmds \ {e.cmd} # {}  PROVE SendsFollow' /\ WorkOK'
  <2>1. ASSUME NEW i \in 1..Len(Rest), Rest[i].op = "send"  PROVE FALSE
    <3>1. i + 1 \in DOMAIN work /\ work[i + 1].op = "send" /\ i + 1 # 1
      BY <1>1, <1>5, <2>1
    <3>2. i + 1 = 2 /\ work[1] = Item("move", work[i + 1].cmds, "received")
      BY <3>1 DEF DeliveryInvariant, SendsFollow
    <3>3. \E c \in Commands : work[i + 1].cmds = {c}
      BY <1>1, <3>1, ItemFields
    <3>4. Head(work).cmds = work[i + 1].cmds
      BY <1>1, <3>2 DEF Item
    <3>5. e.cmd \in Head(work).cmds
      BY <1>1, <1>7 DEF DeliveryInvariant, WritingFits
    <3> QED  BY <1>7, <3>3, <3>4, <3>5
  <2>2. Plain(Rest)
    BY <1>5, <2>1 DEF Plain
  <2>3. Plain(Moves(Head(work).cmds \ {e.cmd}, Head(work).to))
    <3>1. Head(work).cmds \ {e.cmd} \in SUBSET Commands /\ Head(work).to \in Statuses
      BY <1>1, <1>7, ItemFields
    <3> QED  BY <3>1, PlainMoves
  <2>4. work' = Moves(Head(work).cmds \ {e.cmd}, Head(work).to) \o Rest
    BY <1>4, <1>7
  <2> QED  BY <2>2, <2>3, <2>4, PlainConcatenation, PlainSends
<1>8. ASSUME Head(work).op = "move", Head(work).cmds \ {e.cmd} = {}  PROVE SendsFollow' /\ WorkOK'
  <2>1. work' = Rest
    <3>1. work' = <<>> \o Rest
      BY <1>4, <1>8 DEF Moves
    <3> QED  BY <1>5, <3>1
  <2>2. ASSUME NEW i \in DOMAIN work', work'[i].op = "send"
        PROVE  i = 1 /\ \A c \in work'[i].cmds : Due(c)'
    <3>1. i \in 1..Len(Rest) /\ work'[i] = work[i + 1]
      BY <1>5, <2>1, <2>2
    <3>2. i + 1 \in DOMAIN work /\ work[i + 1].op = "send" /\ i + 1 # 1
      BY <1>1, <1>5, <2>2, <3>1
    <3>3. i + 1 = 2 /\ work[1] = Item("move", work[i + 1].cmds, "received")
      BY <3>2 DEF DeliveryInvariant, SendsFollow
    <3>4. Head(work).cmds = work'[i].cmds /\ Head(work).to = "received"
      BY <1>1, <3>1, <3>3 DEF Item
    <3>5. /\ e.cmd \in Head(work).cmds /\ e.cmd \in Commands /\ e.kind = Head(work).to
          /\ Permitted(mem.cmds[e.cmd], e.kind)
      BY <1>1, <1>8 DEF DeliveryInvariant, WritingFits
    <3>6. mem.cmds[e.cmd] = "unknown"
      BY <3>4, <3>5, PermittedReceived
    <3>7. saved.cmds[e.cmd] = "unknown"
      BY <1>1, <3>5, <3>6, WorkerLives DEF DeliveryInvariant, NothingForgotten
    <3>8. sent[e.cmd] = <<>>
      BY <3>5, <3>7 DEF DeliveryInvariant, DeliveredIsSaved
    <3>9. saved'.cmds[e.cmd] # "unknown"
      BY <1>1, <1>2, <1>3, <3>4, <3>5, ApplyType
    <3>10. \A c \in work'[i].cmds : c = e.cmd
      BY <1>8, <3>4
    <3>11. \A c \in work'[i].cmds : Due(c)'
      BY <1>3, <3>8, <3>9, <3>10 DEF Due
    <3>12. i = 1
      BY <3>1, <3>3
    <3> QED  BY <3>11, <3>12
  <2> QED  BY <1>5, <2>1, <2>2 DEF SendsFollow, WorkOK
<1> QED  BY <1>6, <1>7, <1>8

LEMMA DeliverySave ==
  ASSUME DeliveryInvariant, SaveRegistry
  PROVE  DeliveryInvariant'
<1>1. mem \in Registry /\ writing[1] \in Event /\ writing # <<>>
  <2>1. writing \in Seq(Event) /\ Len(writing) <= 1 /\ writing # <<>> /\ mem \in Registry
    BY DEF DeliveryInvariant, TypeOK, SaveRegistry
  <2> QED  BY <2>1
<1>2. Live /\ UNCHANGED <<proc, sent>>
  BY <1>1, WorkerLives DEF SaveRegistry, pi
<1>3. saved' = Apply(mem, writing[1]) /\ mem' = saved' /\ writing' = <<>>
  BY DEF SaveRegistry
<1>4. \A c \in Commands : mem.cmds[c] # "unknown" => saved'.cmds[c] # "unknown"
  BY <1>1, <1>3, ApplyType, EventFields, StatusNames
<1>5. DeliveredIsSaved'
  BY <1>2, <1>4 DEF DeliveryInvariant, DeliveredIsSaved, NothingForgotten
<1>6. NothingForgotten' /\ WritingFits' /\ Quiet'
  BY <1>2, <1>3 DEF NothingForgotten, WritingFits, Quiet, Live
<1>7. DeliveredOnce'
  BY <1>2 DEF DeliveryInvariant, DeliveredOnce
<1>8. FilesOK' /\ MemOK' /\ WritingOK'
  <2>1. mem' \in Registry
    BY <1>1, <1>3, ApplyType
  <2>2. FilesOK' /\ MemOK'
    BY <1>3, <2>1, TypeParts DEF DeliveryInvariant, FilesOK, MemOK, SaveRegistry
  <2> QED  BY <1>3, <2>2, EmptyType DEF WritingOK
<1>9. UNCHANGED <<mailbox, stops, proc, pending, aborting, pi>>
  BY DEF SaveRegistry
<1>10. TypeOK'
  BY <1>8, <1>9, SaveFollows, Kept, TypeParts, TypePartsNext DEF DeliveryInvariant
<1> QED  BY <1>5, <1>6, <1>7, <1>10, SaveFollows DEF DeliveryInvariant

LEMMA DeliverySend ==
  ASSUME DeliveryInvariant, Send
  PROVE  DeliveryInvariant'
<1>1. /\ work \in Seq(Items) /\ work # <<>> /\ pending \subseteq Mail /\ sent \in [Commands -> Seq(Nat)]
      /\ Subject \in Commands /\ Head(work).cmds = {Subject} /\ Head(work).op = "send" /\ writing = <<>>
      /\ mem.gen \in Nat
  BY SubjectType DEF DeliveryInvariant, TypeOK, Send, At, Registry
<1>2. Plain(Rest)
  BY <1>1, PlainRest DEF DeliveryInvariant
<1>3. Live /\ UNCHANGED <<saved, mem, writing>>
  BY <1>1, WorkerLives DEF Send, disk
<1>4. Due(Subject)
  <2>1. 1 \in DOMAIN work /\ work[1] = Head(work)
    BY <1>1
  <2>2. \A c \in work[1].cmds : Due(c)
    BY <1>1, <2>1 DEF DeliveryInvariant, SendsFollow, Item
  <2> QED  BY <1>1, <2>1, <2>2
<1>5. CASE piUp
  <2>1. /\ sent' = [sent EXCEPT ![Subject] = Append(@, mem.gen)] /\ work' = Rest /\ proc' = proc
        /\ pending' = pending \cup Awaited(Subject)
        /\ UNCHANGED <<disk, mailbox, stops, mem, writing, aborting, piUp, verdict>>
    BY <1>5 DEF Send
  <2>2. sent[Subject] = <<>> /\ saved.cmds[Subject] # "unknown"
    BY <1>4 DEF Due
  <2>3. Append(sent[Subject], mem.gen) \in Seq(Nat) /\ Len(Append(sent[Subject], mem.gen)) = 1
    BY <1>1, <2>2, EmptyType, AppendProperties
  <2>4. \A c \in Commands : sent'[c] = IF c = Subject THEN Append(sent[Subject], mem.gen) ELSE sent[c]
    BY <1>1, <2>1
  <2>5. DeliveredOnce'
    <3> SUFFICES ASSUME NEW c \in Commands  PROVE Len(sent'[c]) <= 1
      BY DEF DeliveredOnce
    <3>1. CASE c = Subject
      <4>1. sent'[c] = Append(sent[Subject], mem.gen)
        BY <2>4, <3>1
      <4> QED  BY <2>3, <4>1
    <3>2. CASE c # Subject
      BY <2>4, <3>2 DEF DeliveryInvariant, DeliveredOnce
    <3> QED  BY <3>1, <3>2
  <2>6. DeliveredIsSaved'
    BY <1>3, <2>2, <2>4 DEF DeliveryInvariant, DeliveredIsSaved
  <2>7. NothingForgotten' /\ Quiet' /\ WritingFits'
    BY <1>1, <1>3, <2>1 DEF DeliveryInvariant, NothingForgotten, Quiet, WritingFits, Live
  <2>8. PiOK'
    <3>1. sent' \in [Commands -> Seq(Nat)]
      BY <1>1, <2>1, <2>3
    <3> QED  BY <2>1, <3>1, TypeParts DEF DeliveryInvariant, PiOK
  <2>9. OthersOK'
    BY <1>1, <2>1, TypeParts DEF DeliveryInvariant, Awaited, OthersOK
  <2>10. TypeOK'
    BY <1>2, <2>1, <2>8, <2>9, PlainSends, Kept, TypeParts, TypePartsNext DEF DeliveryInvariant
  <2> QED  BY <1>2, <2>1, <2>5, <2>6, <2>7, <2>10, PlainSends DEF DeliveryInvariant
<1>6. CASE ~piUp
  <2>1. UNCHANGED <<disk, mailbox, stops, mem, writing, pending, aborting, pi>>
    BY <1>6 DEF Send, pi
  <2>2. ASSUME Subject \in Mail  PROVE Plain(work') /\ Live' /\ ProcOK'
    <3>1. Plain(Moves({Subject}, "uncertain")) /\ Plain(Ack(Subject, "uncertain"))
      BY <2>2, PlainMoves, PlainAck, MailIsCommands, StatusNames
    <3>2. work' = Moves({Subject}, "uncertain") \o Ack(Subject, "uncertain") \o Rest /\ UNCHANGED proc
      BY <1>6, <2>2 DEF Send
    <3>3. Plain(work')
      BY <1>2, <3>1, <3>2, PlainConcatenation
    <3> QED  BY <1>3, <3>2, <3>3, Kept, TypeParts DEF DeliveryInvariant, Live
  <2>3. ASSUME Subject \notin Mail  PROVE Plain(work') /\ Live' /\ ProcOK'
    <3>1. work' = Finally("failed") /\ proc' = "closing"
      BY <1>6, <2>3 DEF Send
    <3> QED  BY <1>1, <3>1, PlainFinally DEF Live, ProcOK
  <2>4. MailboxOK' /\ OthersOK' /\ writing' = <<>>
    BY <1>1, <2>1, Kept, TypeParts DEF DeliveryInvariant
  <2> QED  BY <1>3, <2>1, <2>2, <2>3, <2>4, GoesOn
<1> QED  BY <1>5, <1>6

LEMMA DeliveryLoop ==
  ASSUME DeliveryInvariant,
         \/ \E c \in Mail : Scan(c) \/ Response(c)
         \/ InitialResponse \/ AgentStart
         \/ \E outcome \in Outcomes : AgentSettled(outcome)
  PROVE  DeliveryInvariant'
<1>1. ASSUME NEW c \in Mail, Scan(c)  PROVE Plain(work')
  BY <1>1, PlainDo DEF Scan
<1>2. ASSUME NEW c \in Mail, Response(c)  PROVE Plain(work')
  <2>1. /\ Plain(Moves({c}, "rejected")) /\ Plain(Moves({c}, "accepted"))
        /\ Plain(Moves({c}, "completed"))
    BY PlainMoves, MailIsCommands, StatusNames
  <2>2. Plain(Ack(c, "rejected")) /\ Plain(Ack(c, "accepted")) /\ Plain(Ack(c, "completed"))
    BY PlainAck, StatusNames
  <2>3. /\ Plain(Moves({c}, "rejected") \o Ack(c, "rejected"))
        /\ Plain(Moves({c}, "accepted") \o Ack(c, "accepted"))
        /\ Plain(Moves({c}, "accepted") \o Moves({c}, "completed") \o Ack(c, "completed"))
    BY <2>1, <2>2, PlainConcatenation
  <2>4. work' \in {Moves({c}, "rejected") \o Ack(c, "rejected"),
                   Moves({c}, "accepted") \o Ack(c, "accepted"),
                   Moves({c}, "accepted") \o Moves({c}, "completed") \o Ack(c, "completed")}
    BY <1>2 DEF Response
  <2> QED  BY <2>3, <2>4
<1>3. ASSUME InitialResponse  PROVE Plain(work')
  <2>1. mem.gen \in Commands
    BY <1>3 DEF InitialResponse, Commands
  <2>2. /\ Plain(Moves({mem.gen}, "rejected")) /\ Plain(Moves({mem.gen}, "accepted"))
        /\ Plain(Only("fail"))
    BY <2>1, PlainMoves, PlainDo, StatusNames
  <2> QED  BY <1>3, <2>2, PlainConcatenation DEF InitialResponse
<1>4. ASSUME AgentStart  PROVE Plain(work')
  <2>1. Active(mem) \cap Of(mem, {"accepted"}) \in SUBSET Commands
    BY DEF Of
  <2>2. /\ Plain(Moves(Active(mem) \cap Of(mem, {"accepted"}), "started"))
        /\ Plain(Note("agent_started"))
    BY <2>1, PlainMoves, PlainNote, StatusNames
  <2> QED  BY <1>4, <2>2, PlainConcatenation DEF AgentStart
<1>5. ASSUME NEW outcome \in Outcomes, AgentSettled(outcome)  PROVE Plain(work')
  <2>1. Active(mem) \in SUBSET Commands
    BY DEF Of, Active
  <2>2. (IF aborting THEN "aborted" ELSE outcome) \in Statuses
    BY ConstantAssumption, StatusNames
  <2>3. /\ Plain(Moves(Active(mem), IF aborting THEN "aborted" ELSE outcome))
        /\ Plain(Note("agent_settled"))
    BY <2>1, <2>2, PlainMoves, PlainNote, StatusNames
  <2>4. work' = Moves(Active(mem), IF aborting THEN "aborted" ELSE outcome) \o Note("agent_settled")
    BY <1>5 DEF AgentSettled
  <2> QED  BY <2>3, <2>4, PlainConcatenation
<1>6. Plain(work')
  BY <1>1, <1>2, <1>3, <1>4, <1>5
<1>7. Idle /\ UNCHANGED <<disk, mailbox, stops, proc, mem, writing, pi>>
  BY DEF Scan, Response, InitialResponse, AgentStart, AgentSettled
<1>8. writing' = <<>> /\ Live /\ Live'
  BY <1>7, WorkerLives DEF Idle, Live
<1>9. OthersOK'
  <2>1. OthersOK
    BY TypeParts DEF DeliveryInvariant
  <2>2. ASSUME NEW c \in Mail, Response(c)  PROVE OthersOK'
    BY <2>1, <2>2 DEF Response, OthersOK
  <2>3. ASSUME NEW outcome \in Outcomes, AgentSettled(outcome)  PROVE OthersOK'
    BY <2>1, <2>3 DEF AgentSettled, OthersOK
  <2>4. ASSUME UNCHANGED <<pending, aborting>>  PROVE OthersOK'
    BY <2>1, <2>4, Kept
  <2> QED  BY <2>2, <2>3, <2>4 DEF Scan, InitialResponse, AgentStart
<1>10. MailboxOK' /\ ProcOK'
  BY <1>7, Kept, TypeParts DEF DeliveryInvariant
<1> QED  BY <1>6, <1>7, <1>8, <1>9, <1>10, GoesOn

LEMMA DeliveryRead ==
  ASSUME DeliveryInvariant, Read
  PROVE  DeliveryInvariant'
<1>1. Subject \in Mail /\ mem \in Registry /\ work # <<>> /\ writing = <<>>
  BY SubjectType DEF DeliveryInvariant, TypeOK, Read, At
<1>2. Plain(Do("unlink", Subject))
  BY <1>1, PlainDo
<1>3. ASSUME Subject \notin inbox  PROVE Plain(work')
  <2>1. work' = Refused(Subject) \o Do("unlink", Subject)
    BY <1>3 DEF Read
  <2>2. Plain(Refused(Subject))
    BY <1>1, PlainAck, PlainEmpty, StatusNames DEF Refused
  <2> QED  BY <1>2, <2>1, <2>2, PlainConcatenation
<1>4. ASSUME Subject \in inbox, Subject \in Known(mem)  PROVE Plain(work')
  <2>1. work' = Repeated(Subject) \o Do("unlink", Subject)
    BY <1>4 DEF Read
  <2>2. Plain(Refused(Subject))
    BY <1>1, PlainAck, PlainEmpty, StatusNames DEF Refused
  <2>3. mem.cmds[Subject] \in Statuses
    BY <1>1, <1>4, MailIsCommands DEF Known, Of, Registry
  <2>4. mem.cmds[Subject] # "received" => Plain(Ack(Subject, mem.cmds[Subject]))
    BY <1>1, <2>3, PlainAck, StatusNames
  <2>5. Plain(Repeated(Subject))
    BY <2>2, <2>4, PlainEmpty DEF Repeated
  <2> QED  BY <1>2, <2>1, <2>5, PlainConcatenation
<1>5. ASSUME Subject \in inbox, Subject \notin Known(mem), Full(mem)  PROVE Plain(work')
  <2>1. work' = Ack(Subject, "refused") \o Do("unlink", Subject)
    BY <1>5 DEF Read
  <2> QED  BY <1>1, <1>2, <2>1, PlainAck, PlainConcatenation, StatusNames
<1>6. ASSUME Subject \in inbox, Subject \notin Known(mem), ~Full(mem)  PROVE SendsFollow' /\ WorkOK'
  <2>1. work' = Moves({Subject}, "received") \o Do("send", Subject) \o Do("unlink", Subject)
    BY <1>6 DEF Read, Taken
  <2> QED  BY <1>1, <1>2, <2>1, TakenFollows, MailIsCommands
<1>7. UNCHANGED <<disk, mailbox, stops, proc, mem, writing, pending, aborting, pi>>
  BY DEF Read
<1>8. writing' = <<>> /\ Live /\ Live'
  BY <1>1, <1>7, WorkerLives DEF Live
<1>9. MailboxOK' /\ ProcOK' /\ OthersOK'
  BY <1>7, Kept, TypeParts DEF DeliveryInvariant
<1> QED  BY <1>3, <1>4, <1>5, <1>6, <1>7, <1>8, <1>9, GoesOn

LEMMA DeliveryItem ==
  ASSUME DeliveryInvariant, Begin \/ Acknowledge \/ Unlink \/ Fail
  PROVE  DeliveryInvariant'
<1>1. work \in Seq(Items) /\ pending \subseteq Mail
  BY DEF DeliveryInvariant, TypeOK
<1>2. writing = <<>> /\ work # <<>>
  BY DEF Begin, Acknowledge, Unlink, Fail, At
<1>3. Live
  BY <1>2, WorkerLives
<1>4. UNCHANGED <<disk, stops, mem, writing, pending, aborting, pi>>
  BY DEF Begin, Acknowledge, Unlink, Fail
<1>5. ASSUME Begin  PROVE SendsFollow' /\ WorkOK' /\ Live' /\ ProcOK' /\ MailboxOK'
  <2>1. Subject \in Commands
    BY <1>1, <1>5, SubjectType DEF Begin
  <2>2. ASSUME Full(mem)  PROVE SendsFollow' /\ WorkOK'
    BY <1>1, <1>5, <2>2, PlainFinally, PlainSends DEF Begin
  <2>3. ASSUME ~Full(mem)  PROVE SendsFollow' /\ WorkOK'
    <3>1. work' = Moves({Subject}, "received") \o Do("send", Subject)
      BY <1>5, <2>3 DEF Begin
    <3>2. Moves({Subject}, "received") \o Do("send", Subject) \in Seq(Items)
      BY <2>1, TakenType
    <3>3. work' = Moves({Subject}, "received") \o Do("send", Subject) \o <<>>
      BY <3>1, <3>2
    <3> QED  BY <2>1, <3>3, PlainEmpty, TakenFollows
  <2>4. proc' \in {"closing", "running"} /\ UNCHANGED mailbox
    BY <1>5 DEF Begin
  <2>5. MailboxOK'
    BY <2>4, Kept, TypeParts DEF DeliveryInvariant
  <2> QED  BY <2>2, <2>3, <2>4, <2>5 DEF Live, ProcOK
<1>6. ASSUME Acknowledge \/ Unlink  PROVE Plain(work') /\ Live' /\ ProcOK'
  <2>1. work' = Rest /\ proc' = proc /\ Head(work).op # "move"
    BY <1>6 DEF Acknowledge, Unlink, At
  <2> QED  BY <1>1, <1>2, <1>3, <2>1, PlainRest, Kept, TypeParts DEF DeliveryInvariant, Live
<1>7. ASSUME Acknowledge  PROVE MailboxOK'
  <2>1. Subject \in Mail /\ Head(work) \in Items /\ Head(work).op = "ack"
    BY <1>1, <1>7, SubjectType, HeadType DEF Acknowledge, At
  <2>2. Head(work).to \in AckValues
    BY <2>1, ItemFields
  <2> QED  BY <1>7, <2>1, <2>2, TypeParts DEF DeliveryInvariant, Acknowledge, MailboxOK
<1>8. ASSUME Unlink  PROVE MailboxOK'
  BY <1>8, TypeParts DEF DeliveryInvariant, Unlink, MailboxOK
<1>9. ASSUME Fail  PROVE Plain(work') /\ Live' /\ ProcOK' /\ MailboxOK'
  BY <1>1, <1>9, PlainFinally, Kept, TypeParts DEF DeliveryInvariant, Fail, Live, ProcOK
<1>10. OthersOK' /\ writing' = <<>>
  BY <1>2, <1>4, Kept, TypeParts DEF DeliveryInvariant
<1> QED  BY <1>3, <1>4, <1>5, <1>6, <1>7, <1>8, <1>9, <1>10, GoesOn

LEMMA DeliveryGiveUp ==
  ASSUME DeliveryInvariant, GiveUp
  PROVE  DeliveryInvariant'
<1>1. work \in Seq(Items) /\ Head(work) \in Items /\ Head(work).op = "giveup"
      /\ work # <<>> /\ writing = <<>>
  BY HeadType DEF DeliveryInvariant, TypeOK, GiveUp, At
<1>2. Head(work).cmds \subseteq Mail /\ Head(work).to \in {"failed", "clean"}
  BY <1>1, ItemFields
<1>3. ASSUME Head(work).cmds = {}  PROVE Plain(work')
  BY <1>2, <1>3, PlainClose DEF GiveUp
<1>4. ASSUME Head(work).cmds # {}  PROVE Plain(work')
  <2>1. PICK c \in Head(work).cmds :
          work' = (IF acks[c] # "none" THEN <<>>
                   ELSE Moves({c} \cap Of(mem, Open), "uncertain") \o Ack(c, "uncertain"))
                  \o <<[Head(work) EXCEPT !.cmds = @ \ {c}]>>
    BY <1>4 DEF GiveUp
  <2>2. c \in Mail
    BY <1>2, <2>1
  <2>3. Plain(IF acks[c] # "none" THEN <<>>
              ELSE Moves({c} \cap Of(mem, Open), "uncertain") \o Ack(c, "uncertain"))
    <3>1. {c} \cap Of(mem, Open) \in SUBSET Commands
      BY DEF Of
    <3>2. Plain(Moves({c} \cap Of(mem, Open), "uncertain")) /\ Plain(Ack(c, "uncertain"))
      BY <2>2, <3>1, PlainMoves, PlainAck, StatusNames
    <3> QED  BY <3>2, PlainConcatenation, PlainEmpty
  <2>4. [Head(work) EXCEPT !.cmds = @ \ {c}] \in Items /\ [Head(work) EXCEPT !.cmds = @ \ {c}].op = "giveup"
    BY <1>1, <1>2 DEF Items
  <2>5. Plain(<<[Head(work) EXCEPT !.cmds = @ \ {c}]>>)
    BY <2>4, PlainOne
  <2> QED  BY <2>1, <2>3, <2>5, PlainConcatenation
<1>5. UNCHANGED <<disk, mailbox, stops, proc, mem, writing, pending, aborting, pi>>
  BY DEF GiveUp
<1>6. writing' = <<>> /\ Live /\ Live'
  BY <1>1, <1>5, WorkerLives DEF Live
<1>7. MailboxOK' /\ ProcOK' /\ OthersOK'
  BY <1>5, Kept, TypeParts DEF DeliveryInvariant
<1> QED  BY <1>3, <1>4, <1>5, <1>6, <1>7, GoesOn

LEMMA DeliveryEnding ==
  ASSUME DeliveryInvariant, NEW how \in {"failed", "clean"}, Finish(how) \/ Interrupt(how)
  PROVE  DeliveryInvariant'
<1>1. work \in Seq(Items) /\ pending \subseteq Mail
  BY DEF DeliveryInvariant, TypeOK
<1>2. Plain(Finally(how))
  BY <1>1, PlainFinally
<1>3. /\ proc = "running" /\ proc' = "closing"
      /\ UNCHANGED <<disk, mailbox, stops, mem, pending, aborting, pi>>
  BY DEF Finish, Interrupt
<1>4. ASSUME Finish(how)  PROVE Plain(work') /\ writing' = <<>>
  BY <1>2, <1>4, WorkerLives DEF Finish
<1>5. ASSUME Interrupt(how)  PROVE Plain(work') /\ writing' = <<>>
  <2>1. work # <<>> => work[Len(work)] \in Items
    BY <1>1
  <2>2. Plain(IF work # <<>> /\ work[Len(work)].op = "unlink" THEN <<work[Len(work)]>> ELSE <<>>)
    BY <2>1, PlainOne, PlainEmpty
  <2> QED  BY <1>2, <1>5, <2>2, PlainConcatenation DEF Interrupt
<1>6. Live /\ Live' /\ ProcOK' /\ MailboxOK' /\ OthersOK'
  BY <1>3, WorkerLives, Kept, TypeParts DEF DeliveryInvariant, Live, ProcOK
<1> QED  BY <1>3, <1>4, <1>5, <1>6, GoesOn

LEMMA DeliveryNext ==
  ASSUME DeliveryInvariant, [Next]_vars
  PROVE  DeliveryInvariant'
<1>1. FilesOK /\ StopsOK /\ MailboxOK /\ PiOK
  BY TypeParts DEF DeliveryInvariant
<1>2. ASSUME Record  PROVE DeliveryInvariant'
  <2>1. ASSUME TearAppend  PROVE DeliveryInvariant'
    <3>1. FilesOK'
      BY <1>1, <2>1 DEF TearAppend, FilesOK
    <3> QED  BY <1>1, <2>1, <3>1, GoneKeeps DEF TearAppend, StopsOK
  <2> QED  BY <1>2, <2>1, DeliveryRotate, DeliveryAppend, DeliverySave DEF Record
<1>3. ASSUME Crash \/ Exit  PROVE DeliveryInvariant'
  <2>1. Gone /\ UNCHANGED <<disk, mailbox, stops, sent, verdict>>
    BY <1>3 DEF Crash, Exit
  <2> QED  BY <1>1, <2>1, Kept, GoneKeeps DEF StopsOK, disk
<1>4. ASSUME Handler  PROVE DeliveryInvariant'
  BY <1>3, <1>4, DeliveryLoop, DeliveryItem, DeliveryRead, DeliverySend, DeliveryGiveUp DEF Handler
<1>5. ASSUME Ending  PROVE DeliveryInvariant'
  BY <1>3, <1>5, DeliveryStop, DeliveryEnding DEF Ending
<1>6. ASSUME UNCHANGED vars  PROVE DeliveryInvariant'
  <2>1. UNCHANGED <<disk, mailbox, stops, process, pi, saved, sent>>
    BY <1>6 DEF vars, disk, pi
  <2> QED  BY <1>1, <2>1, Kept, Outside
<1> QED  BY <1>2, <1>4, <1>5, <1>6, DeliveryClient, DeliveryPi, DeliveryStart DEF Next

THEOREM DeliveryHolds == Spec => []DeliveryInvariant
  BY DeliveryInit, DeliveryNext, PTL DEF Spec

\* The supervisor, the stopper, the clients and Pi keep every variable in its type,
\* however many commands, clients and restarts there are and wherever a process dies
\* or is interrupted.
THEOREM TypeCorrect == Spec => []TypeOK
<1>1. DeliveryInvariant => TypeOK
  BY DEF DeliveryInvariant
<1> QED  BY <1>1, DeliveryHolds, PTL

\* Pi is written a command at most once, over all generations: the record that
\* precedes the delivery is in registry.json before Pi can have the command, and no
\* later process forgets it, whatever rotation, crash or interrupt comes between.
THEOREM DeliveredAtMostOnce == Spec => []DeliveredOnce
<1>1. DeliveryInvariant => DeliveredOnce
  BY DEF DeliveryInvariant
<1> QED  BY <1>1, DeliveryHolds, PTL

-----------------------------------------------------------------------------
(* Answers: the statuses, items, events and registries that are true.       *)

\* What a status says of Pi's answer.
Answered(s, v) == (s \in Successful => v = "yes") /\ (s = "rejected" => v = "no")

\* A success or a rejection about to be recorded or acknowledged.  A later status than
\* "accepted" is checked when it is appended.
Telling(it) == it.op = "ack" \/ (it.op = "move" /\ it.to \in {"accepted", "rejected"})

TrueItems      == {it \in Items : Telling(it) => \A c \in it.cmds : Answered(it.to, verdict[c])}
TrueEvents     == {e \in Event : e.cmd \in Commands => Answered(e.kind, verdict[e.cmd])}
TrueRegistries == {reg \in Registry : \A c \in Commands : Answered(reg.cmds[c], verdict[c])}
TrueAcks       == {a \in [Mail -> AckValues] : \A c \in Mail : Answered(a[c], verdict[c])}

AnswersInvariant ==
  /\ archive \in Seq(TrueEvents) /\ current \in Seq(TrueEvents) /\ writing \in Seq(TrueEvents)
  /\ saved \in TrueRegistries /\ mem \in TrueRegistries
  /\ work \in Seq(TrueItems)
  /\ acks \in TrueAcks

LEMMA SaysNothing ==
  ASSUME NEW v
  PROVE  /\ Answered("unknown", v) /\ Answered("received", v) /\ Answered("uncertain", v)
         /\ Answered("none", v) /\ Answered("refused", v)
  BY DEF Answered, Successful

LEMMA EmptyTrue == <<>> \in Seq(TrueItems) /\ <<>> \in Seq(TrueEvents)
  OBVIOUS

LEMMA BlankTrue == Blank \in TrueRegistries
<1>1. \A c \in Commands : Blank.cmds[c] = "unknown"
  BY DEF Blank
<1> QED  BY <1>1, BlankType, SaysNothing DEF TrueRegistries

LEMMA OneTrue ==
  ASSUME NEW it \in TrueItems
  PROVE  <<it>> \in Seq(TrueItems)
  OBVIOUS

LEMMA JoinTrue ==
  ASSUME NEW s \in Seq(TrueItems), NEW t \in Seq(TrueItems)
  PROVE  s \o t \in Seq(TrueItems)
  BY ConcatProperties

LEMMA MovesTrue ==
  ASSUME NEW S \in SUBSET Commands, NEW to \in Statuses,
         to \in {"accepted", "rejected"} => \A c \in S : Answered(to, verdict[c])
  PROVE  Moves(S, to) \in Seq(TrueItems)
<1>1. Item("move", S, to) \in TrueItems
  BY DEF Item, Items, TrueItems, Telling
<1> QED  BY <1>1, OneTrue, EmptyTrue DEF Moves

LEMMA AckTrue ==
  ASSUME NEW c \in Mail, NEW value \in AckValues, Answered(value, verdict[c])
  PROVE  Ack(c, value) \in Seq(TrueItems)
<1>1. Item("ack", {c}, value) \in TrueItems
  BY DEF Item, Items, TrueItems, Telling
<1> QED  BY <1>1, OneTrue DEF Ack

\* The other items tell nothing.
LEMMA OthersTrue ==
  /\ \A kind \in Lifecycle : Note(kind) \in Seq(TrueItems)
  /\ \A c \in Commands : Do("begin", c) \in Seq(TrueItems) /\ Do("send", c) \in Seq(TrueItems)
  /\ \A c \in Mail : Do("read", c) \in Seq(TrueItems) /\ Do("unlink", c) \in Seq(TrueItems)
  /\ Only("fail") \in Seq(TrueItems) /\ Only("exit") \in Seq(TrueItems)
<1>1. ASSUME NEW it \in Items, it.op \notin {"move", "ack"}  PROVE <<it>> \in Seq(TrueItems)
  BY <1>1, OneTrue DEF TrueItems, Telling
<1>2. ASSUME NEW kind \in Lifecycle  PROVE Note(kind) \in Seq(TrueItems)
  <2>1. Item("note", {}, kind) \in Items /\ Item("note", {}, kind).op = "note"
    BY DEF Item, Items
  <2> QED  BY <1>1, <2>1 DEF Note
<1>3. ASSUME NEW c \in Commands, NEW op \in {"begin", "send"}  PROVE Do(op, c) \in Seq(TrueItems)
  <2>1. Item(op, {c}, "") \in Items /\ Item(op, {c}, "").op = op
    BY DEF Item, Items
  <2> QED  BY <1>1, <2>1 DEF Do
<1>4. ASSUME NEW c \in Mail, NEW op \in {"read", "unlink"}  PROVE Do(op, c) \in Seq(TrueItems)
  <2>1. Item(op, {c}, "") \in Items /\ Item(op, {c}, "").op = op
    BY DEF Item, Items
  <2> QED  BY <1>1, <2>1 DEF Do
<1>5. ASSUME NEW op \in {"fail", "exit"}  PROVE Only(op) \in Seq(TrueItems)
  <2>1. Item(op, {}, "") \in Items /\ Item(op, {}, "").op = op
    BY DEF Item, Items
  <2> QED  BY <1>1, <2>1 DEF Only
<1> QED  BY <1>2, <1>3, <1>4, <1>5

LEMMA FinallyTrue ==
  ASSUME pending \subseteq Mail, NEW how \in {"failed", "clean"}
  PROVE  Finally(how) \in Seq(TrueItems)
<1>1. Item("giveup", pending, how) \in TrueItems
  BY DEF Item, Items, TrueItems, Telling
<1> QED  BY <1>1, OneTrue DEF Finally

LEMMA RestTrue ==
  ASSUME work \in Seq(TrueItems), work # <<>>
  PROVE  Rest \in Seq(TrueItems) /\ Head(work) \in TrueItems
  BY HeadTailProperties DEF Rest

\* What a reader makes of true files is true.
LEMMA ReplayedTrue ==
  ASSUME archive \in Seq(TrueEvents), current \in Seq(TrueEvents), saved \in TrueRegistries
  PROVE  Replayed \in TrueRegistries
<1>0. TrueEvents \subseteq Event /\ TrueRegistries \subseteq Registry
  BY DEF TrueEvents, TrueRegistries
<1>1. archive \in Seq(Event) /\ current \in Seq(Event) /\ saved \in Registry
  BY <1>0, SeqMonotonic
<1>2. Journal \in Seq(TrueEvents)
  BY ConcatProperties DEF Journal
<1>3. ASSUME NEW c \in Commands, About(c) # {}
      PROVE  Answered(Journal[Latest(About(c))].kind, verdict[c])
  <2> DEFINE S == About(c)  n == Len(Journal)
  <2>1. n \in Nat /\ S \in SUBSET (1..n) /\ S # {}
    BY <1>1, <1>3, NewerType, JournalType
  <2> HIDE DEF S, n
  <2>2. Latest(S) \in S
    BY <2>1, LatestIn
  <2> USE DEF S, n
  <2>3. Latest(About(c)) \in 1..Len(Journal) /\ Journal[Latest(About(c))].cmd = c
    BY <1>1, <2>2, NewerType DEF About
  <2>4. Journal[Latest(About(c))] \in TrueEvents
    BY <1>2, <2>3, ElementOfSeq
  <2> QED  BY <2>3, <2>4 DEF TrueEvents
<1>4. \A c \in Commands : Answered(Recorded[c], verdict[c])
  BY <1>3 DEF Recorded, TrueRegistries
<1>5. Replayed.cmds = Recorded
  BY DEF Replayed
<1> QED  BY <1>1, <1>4, <1>5, ReplayedType DEF TrueRegistries

-----------------------------------------------------------------------------
(* Answers: the invariant is preserved.                                     *)

\* A step that hears no answer and puts true things everywhere.
LEMMA AnswersStep ==
  ASSUME verdict' = verdict,
         archive' \in Seq(TrueEvents), current' \in Seq(TrueEvents), writing' \in Seq(TrueEvents),
         saved' \in TrueRegistries, mem' \in TrueRegistries,
         work' \in Seq(TrueItems), acks' \in TrueAcks
  PROVE  AnswersInvariant'
<1>1. /\ TrueEvents' = TrueEvents /\ TrueRegistries' = TrueRegistries
      /\ TrueItems' = TrueItems /\ TrueAcks' = TrueAcks
  BY DEF TrueEvents, TrueRegistries, TrueItems, TrueAcks
<1> QED  BY <1>1 DEF AnswersInvariant

LEMMA AnswersGone ==
  ASSUME AnswersInvariant, Gone, UNCHANGED <<archive, current, saved, acks, verdict>>
  PROVE  AnswersInvariant'
  BY BlankTrue, EmptyTrue, AnswersStep DEF AnswersInvariant, Gone

\* A step of a handler: only its list, and perhaps the acknowledgements, change.
LEMMA AnswersGoOn ==
  ASSUME AnswersInvariant, UNCHANGED <<disk, mem, verdict>>, writing' \in Seq(TrueEvents),
         work' \in Seq(TrueItems), acks' \in TrueAcks
  PROVE  AnswersInvariant'
  BY AnswersStep DEF AnswersInvariant, disk

LEMMA AnswersInit == Init => AnswersInvariant
<1> SUFFICES ASSUME Init  PROVE AnswersInvariant
  OBVIOUS
<1>1. acks \in TrueAcks
  BY SaysNothing, StatusNames DEF Init, TrueAcks
<1> QED  BY <1>1, BlankTrue, EmptyTrue DEF Init, AnswersInvariant

\* Whatever is said of a command that Pi has not answered stays true.
LEMMA AnswersPi ==
  ASSUME TypeOK, AnswersInvariant, Pi
  PROVE  AnswersInvariant'
<1>1. ASSUME NEW c \in Commands, NEW s, Answered(s, verdict[c])  PROVE Answered(s, verdict'[c])
  <2>1. verdict \in [Commands -> {"none", "yes", "no"}]
    BY DEF TypeOK
  <2>2. ASSUME verdict[c] # "none"  PROVE verdict'[c] = verdict[c]
    BY <2>1, <2>2 DEF Pi, PiDies, Decide
  <2>3. verdict[c] = "none" => s \notin Successful /\ s # "rejected"
    BY <1>1 DEF Answered
  <2> QED  BY <1>1, <2>2, <2>3 DEF Answered
<1>2. TrueEvents \subseteq TrueEvents'
  BY <1>1 DEF TrueEvents
<1>3. TrueRegistries \subseteq TrueRegistries'
  BY <1>1 DEF TrueRegistries
<1>4. TrueItems \subseteq TrueItems'
  BY <1>1, ItemFields, MailIsCommands DEF TrueItems, Telling
<1>5. TrueAcks \subseteq TrueAcks'
  BY <1>1, MailIsCommands DEF TrueAcks
<1>6. UNCHANGED <<archive, current, writing, saved, mem, work, acks>>
  BY DEF Pi, PiDies, Decide, disk, mailbox, process
<1> QED  BY <1>2, <1>3, <1>4, <1>5, <1>6, SeqMonotonic DEF AnswersInvariant

LEMMA AnswersClient ==
  ASSUME TypeOK, AnswersInvariant, NEW k \in Clients, Client(k)
  PROVE  AnswersInvariant'
<1>1. acks \in TrueAcks /\ acks \in [Mail -> AckValues]
  BY DEF AnswersInvariant, TrueAcks
<1>2. \A c : [acks EXCEPT ![c] = "none"] \in TrueAcks
  BY <1>1, SaysNothing, StatusNames DEF TrueAcks
<1>3. acks' \in TrueAcks
  BY <1>1, <1>2 DEF Client, Ask, Post, Leave, Vanish
<1>4. UNCHANGED <<disk, mem, verdict, writing, work>>
  BY DEF Client, Ask, Post, Leave, Vanish, process, pi
<1> QED  BY <1>3, <1>4, AnswersGoOn DEF AnswersInvariant

LEMMA AnswersStart ==
  ASSUME AnswersInvariant, Start
  PROVE  AnswersInvariant'
<1>1. Replayed \in TrueRegistries
  BY ReplayedTrue DEF AnswersInvariant
<1>2. NextGeneration \in Commands /\ NextGeneration \in Nat
  BY DEF Start, Commands, Generations
<1>3. [Replayed EXCEPT !.gen = NextGeneration] \in TrueRegistries
  BY <1>1, <1>2 DEF TrueRegistries, Registry
<1>4. Leftovers \in Seq(TrueItems)
  BY MovesTrue, StatusNames DEF Leftovers, Of
<1>5. work' \in Seq(TrueItems)
  BY <1>2, <1>4, OthersTrue, StatusNames, JoinTrue DEF Start
<1> QED  BY <1>3, <1>5, AnswersStep DEF Start, AnswersInvariant, disk, mailbox

LEMMA AnswersStop ==
  ASSUME AnswersInvariant, Stop
  PROVE  AnswersInvariant'
<1>1. UNCHANGED <<archive, current, saved, acks, verdict>>
  BY DEF Stop, disk, mailbox
<1>2. ASSUME ~Gone  PROVE AnswersInvariant'
  <2>1. mem' = Replayed /\ work' = StopItems /\ writing' = <<>>
    BY <1>2 DEF Stop
  <2>2. Moves(Of(Replayed, Open), "uncertain") \in Seq(TrueItems)
    BY MovesTrue, StatusNames DEF Of
  <2>3. (IF Replayed.closed THEN <<>> ELSE Note("supervisor_ended")) \in Seq(TrueItems)
    BY EmptyTrue, OthersTrue, StatusNames
  <2>4. work' \in Seq(TrueItems)
    BY <2>1, <2>2, <2>3, OthersTrue, JoinTrue DEF StopItems
  <2> QED  BY <1>1, <2>1, <2>4, ReplayedTrue, EmptyTrue, AnswersStep DEF AnswersInvariant
<1> QED  BY <1>1, <1>2, AnswersGone

LEMMA AnswersRecord ==
  ASSUME DeliveryInvariant, AnswersInvariant, Record
  PROVE  AnswersInvariant'
<1>0. /\ archive \in Seq(TrueEvents) /\ current \in Seq(TrueEvents) /\ writing \in Seq(TrueEvents)
      /\ saved \in TrueRegistries /\ mem \in TrueRegistries
      /\ work \in Seq(TrueItems) /\ acks \in TrueAcks
  BY DEF AnswersInvariant
<1>1. ASSUME Rotate  PROVE AnswersInvariant'
  <2>1. archive' \in Seq(TrueEvents) /\ current' \in Seq(TrueEvents)
    BY <1>0, <1>1, EmptyTrue DEF Rotate
  <2>2. UNCHANGED <<saved, acks, writing, mem, work, verdict>>
    BY <1>1 DEF Rotate, mailbox, process, pi
  <2> QED  BY <1>0, <2>1, <2>2, AnswersStep
<1>2. ASSUME AppendEvent  PROVE AnswersInvariant'
  <2>1. PICK e \in Event : /\ writing' = <<e>> /\ current' = Append(current, e)
                           /\ e.kind = Head(work).to
                           /\ \/ /\ Head(work).op = "move" /\ e.cmd \in Head(work).cmds
                                 /\ e.cmd \in Commands /\ Permitted(mem.cmds[e.cmd], e.kind)
                              \/ Head(work).op = "note" /\ e.cmd = NoCommand
    BY <1>2, AppendFits DEF DeliveryInvariant
  <2>2. Head(work) \in TrueItems
    BY <1>0, <1>2, RestTrue DEF AppendEvent, Recording
  <2>3. ASSUME e.cmd \in Commands  PROVE Answered(e.kind, verdict[e.cmd])
    <3>1. /\ Head(work).op = "move" /\ e.cmd \in Head(work).cmds
          /\ Permitted(mem.cmds[e.cmd], e.kind)
      BY <2>1, <2>3, NoCommandIsNone
    <3>2. CASE e.kind \in {"accepted", "rejected"}
      BY <2>1, <2>2, <3>1, <3>2 DEF TrueItems, Telling
    <3>3. CASE e.kind \in {"started", "completed", "failed", "aborted"}
      <4>1. mem.cmds[e.cmd] \in {"accepted", "started"}
        BY <3>1, <3>3 DEF Permitted
      <4>2. verdict[e.cmd] = "yes"
        BY <1>0, <2>3, <4>1 DEF TrueRegistries, Answered, Successful
      <4> QED  BY <3>3, <4>2 DEF Answered
    <3>4. e.kind \in {"received", "accepted", "rejected", "uncertain", "started", "completed", "failed", "aborted"}
      BY <3>1 DEF Permitted
    <3> QED  BY <3>2, <3>3, <3>4, SaysNothing
  <2>4. e \in TrueEvents
    BY <2>3 DEF TrueEvents
  <2>5. writing' \in Seq(TrueEvents) /\ current' \in Seq(TrueEvents)
    BY <1>0, <2>1, <2>4, AppendProperties
  <2>6. UNCHANGED <<archive, saved, acks, mem, work, verdict>>
    BY <1>2 DEF AppendEvent, mailbox, pi
  <2> QED  BY <1>0, <2>5, <2>6, AnswersStep
<1>3. ASSUME TearAppend  PROVE AnswersInvariant'
  BY <1>3, AnswersGone DEF TearAppend, mailbox
<1>4. ASSUME SaveRegistry  PROVE AnswersInvariant'
  <2>1. writing # <<>> /\ work # <<>> /\ Head(work).op = "move" => Head(work).to \in Statuses
    BY <1>4, HeadType, ItemFields DEF DeliveryInvariant, TypeOK, WritingFits, SaveRegistry
  <2>2. writing[1] \in TrueEvents /\ writing[1] \in Event
    BY <1>0, <1>4, <2>1 DEF TrueEvents, SaveRegistry
  <2>3. Apply(mem, writing[1]) \in TrueRegistries
    <3>1. mem \in Registry
      BY <1>0 DEF TrueRegistries
    <3>2. Apply(mem, writing[1]) \in Registry
      BY <2>2, <3>1, ApplyType
    <3>3. ASSUME NEW c \in Commands  PROVE Answered(Apply(mem, writing[1]).cmds[c], verdict[c])
      <4>1. Apply(mem, writing[1]).cmds[c] = IF c = writing[1].cmd THEN writing[1].kind ELSE mem.cmds[c]
        BY <2>2, <3>1, ApplyType
      <4>2. Answered(mem.cmds[c], verdict[c])
        BY <1>0 DEF TrueRegistries
      <4>3. c = writing[1].cmd => Answered(writing[1].kind, verdict[c])
        BY <2>2 DEF TrueEvents
      <4> QED  BY <4>1, <4>2, <4>3
    <3> QED  BY <3>2, <3>3 DEF TrueRegistries
  <2>4. Rest \in Seq(TrueItems) /\ Head(work) \in TrueItems
    BY <1>0, <2>1, RestTrue, <1>4 DEF DeliveryInvariant, WritingFits, SaveRegistry
  <2>5. ASSUME Head(work).op = "move"
        PROVE  Moves(Head(work).cmds \ {writing[1].cmd}, Head(work).to) \in Seq(TrueItems)
    <3>1. Head(work).cmds \in SUBSET Commands /\ Head(work).to \in Statuses
      BY <2>4, <2>5, ItemFields DEF TrueItems
    <3>2. Head(work).to \in {"accepted", "rejected"} => \A c \in Head(work).cmds : Answered(Head(work).to, verdict[c])
      BY <2>4, <2>5 DEF TrueItems, Telling
    <3> QED  BY <3>1, <3>2, MovesTrue
  <2>6. work' = (IF Head(work).op = "move" THEN Moves(Head(work).cmds \ {writing[1].cmd}, Head(work).to) ELSE <<>>)
                \o Rest
    BY <1>4 DEF SaveRegistry, Rest
  <2>7. work' \in Seq(TrueItems)
    BY <2>4, <2>5, <2>6, EmptyTrue, JoinTrue
  <2>8. saved' = Apply(mem, writing[1]) /\ mem' = saved' /\ writing' = <<>>
    BY <1>4 DEF SaveRegistry
  <2>9. UNCHANGED <<archive, current, acks, verdict>>
    BY <1>4 DEF SaveRegistry, mailbox, pi
  <2> QED  BY <1>0, <2>3, <2>7, <2>8, <2>9, EmptyTrue, AnswersStep
<1> QED  BY <1>1, <1>2, <1>3, <1>4 DEF Record

LEMMA AnswersLoop ==
  ASSUME DeliveryInvariant, AnswersInvariant,
         \/ \E c \in Mail : Scan(c) \/ Response(c)
         \/ InitialResponse \/ AgentStart
         \/ \E outcome \in Outcomes : AgentSettled(outcome)
  PROVE  AnswersInvariant'
<1>1. ASSUME NEW c \in Mail, Scan(c)  PROVE work' \in Seq(TrueItems)
  BY <1>1, OthersTrue DEF Scan
<1>2. ASSUME NEW c \in Mail, Response(c)  PROVE work' \in Seq(TrueItems)
  <2>1. c \in Commands /\ {"accepted", "rejected", "completed"} \subseteq Statuses \cap AckValues
    BY MailIsCommands, StatusNames
  <2>2. CASE verdict[c] = "no"
    <3>1. Answered("rejected", verdict[c])
      BY <2>2 DEF Answered, Successful
    <3>2. Moves({c}, "rejected") \in Seq(TrueItems) /\ Ack(c, "rejected") \in Seq(TrueItems)
      BY <2>1, <3>1, MovesTrue, AckTrue
    <3>3. work' = Moves({c}, "rejected") \o Ack(c, "rejected")
      BY <1>2, <2>2 DEF Response
    <3> QED  BY <3>2, <3>3, JoinTrue
  <2>3. CASE verdict[c] = "yes"
    <3>1. Answered("accepted", verdict[c]) /\ Answered("completed", verdict[c])
      BY <2>3 DEF Answered
    <3>2. /\ Moves({c}, "accepted") \in Seq(TrueItems) /\ Moves({c}, "completed") \in Seq(TrueItems)
          /\ Ack(c, "accepted") \in Seq(TrueItems) /\ Ack(c, "completed") \in Seq(TrueItems)
      BY <2>1, <3>1, MovesTrue, AckTrue
    <3>3. \/ work' = Moves({c}, "accepted") \o Ack(c, "accepted")
          \/ work' = Moves({c}, "accepted") \o Moves({c}, "completed") \o Ack(c, "completed")
      BY <1>2, <2>3 DEF Response
    <3>4. Moves({c}, "accepted") \o Moves({c}, "completed") \in Seq(TrueItems)
      BY <3>2, JoinTrue
    <3> QED  BY <3>2, <3>3, <3>4, JoinTrue
  <2> QED  BY <1>2, <2>2, <2>3 DEF Response
<1>3. ASSUME InitialResponse  PROVE work' \in Seq(TrueItems)
  <2>1. mem.gen \in Commands
    BY <1>3 DEF InitialResponse, Commands
  <2>2. CASE verdict[mem.gen] = "yes"
    <3>1. Answered("accepted", verdict[mem.gen])
      BY <2>2 DEF Answered
    <3>2. Moves({mem.gen}, "accepted") \in Seq(TrueItems)
      BY <2>1, <3>1, MovesTrue, StatusNames
    <3> QED  BY <1>3, <2>2, <3>2 DEF InitialResponse
  <2>3. CASE verdict[mem.gen] # "yes"
    <3>1. verdict[mem.gen] = "no"
      BY <1>3, <2>1, <2>3 DEF InitialResponse, DeliveryInvariant, TypeOK
    <3>2. Answered("rejected", verdict[mem.gen])
      BY <3>1 DEF Answered, Successful
    <3>3. Moves({mem.gen}, "rejected") \in Seq(TrueItems)
      BY <2>1, <3>2, MovesTrue, StatusNames
    <3> QED  BY <1>3, <2>3, <3>3, OthersTrue, JoinTrue DEF InitialResponse
  <2> QED  BY <2>2, <2>3
<1>4. ASSUME AgentStart  PROVE work' \in Seq(TrueItems)
  <2>1. Active(mem) \cap Of(mem, {"accepted"}) \in SUBSET Commands
    BY DEF Of
  <2>2. Moves(Active(mem) \cap Of(mem, {"accepted"}), "started") \in Seq(TrueItems)
    BY <2>1, MovesTrue, StatusNames
  <2> QED  BY <1>4, <2>2, OthersTrue, StatusNames, JoinTrue DEF AgentStart
<1>5. ASSUME NEW outcome \in Outcomes, AgentSettled(outcome)  PROVE work' \in Seq(TrueItems)
  <2>1. Active(mem) \in SUBSET Commands
    BY DEF Of, Active
  <2>2. (IF aborting THEN "aborted" ELSE outcome) \in {"completed", "failed", "aborted"}
    BY ConstantAssumption
  <2>3. Moves(Active(mem), IF aborting THEN "aborted" ELSE outcome) \in Seq(TrueItems)
    BY <2>1, <2>2, MovesTrue, StatusNames
  <2> QED  BY <1>5, <2>3, OthersTrue, StatusNames, JoinTrue DEF AgentSettled
<1>6. work' \in Seq(TrueItems)
  BY <1>1, <1>2, <1>3, <1>4, <1>5
<1>7. UNCHANGED <<disk, mailbox, mem, writing, pi>>
  BY DEF Scan, Response, InitialResponse, AgentStart, AgentSettled
<1> QED  BY <1>6, <1>7, AnswersGoOn DEF AnswersInvariant, mailbox, pi

LEMMA AnswersItem ==
  ASSUME DeliveryInvariant, AnswersInvariant, Begin \/ Read \/ Send \/ Acknowledge \/ Unlink \/ Fail \/ GiveUp
  PROVE  AnswersInvariant'
<1>0. /\ work \in Seq(TrueItems) /\ acks \in TrueAcks /\ mem \in TrueRegistries /\ writing \in Seq(TrueEvents)
      /\ work \in Seq(Items) /\ pending \subseteq Mail /\ work # <<>>
  BY DEF AnswersInvariant, DeliveryInvariant, TypeOK, Begin, Read, Send, Acknowledge, Unlink, Fail, GiveUp, At
<1>1. Rest \in Seq(TrueItems) /\ Head(work) \in TrueItems
  BY <1>0, RestTrue
<1>2. ASSUME Begin  PROVE work' \in Seq(TrueItems)
  <2>1. Subject \in Commands
    BY <1>0, <1>2, SubjectType DEF Begin
  <2>2. Moves({Subject}, "received") \in Seq(TrueItems) /\ Do("send", Subject) \in Seq(TrueItems)
    BY <2>1, MovesTrue, OthersTrue, StatusNames
  <2>3. Finally("clean") \in Seq(TrueItems)
    BY <1>0, FinallyTrue
  <2> QED  BY <1>2, <2>2, <2>3, JoinTrue DEF Begin
<1>3. ASSUME Read  PROVE work' \in Seq(TrueItems)
  <2>1. Subject \in Mail /\ Subject \in Commands
    BY <1>0, <1>3, SubjectType, MailIsCommands DEF Read
  <2>2. Ack(Subject, "refused") \in Seq(TrueItems)
    BY <2>1, AckTrue, SaysNothing, StatusNames
  <2>3. Refused(Subject) \in Seq(TrueItems)
    BY <2>2, EmptyTrue DEF Refused
  <2>4. ASSUME Subject \in Known(mem)  PROVE Repeated(Subject) \in Seq(TrueItems)
    <3>1. mem.cmds[Subject] \in Statuses /\ Answered(mem.cmds[Subject], verdict[Subject])
      BY <1>0, <2>1, <2>4 DEF Known, Of, TrueRegistries, Registry
    <3>2. mem.cmds[Subject] # "received" => Ack(Subject, mem.cmds[Subject]) \in Seq(TrueItems)
      BY <2>1, <3>1, AckTrue, StatusNames
    <3> QED  BY <2>3, <3>2, EmptyTrue DEF Repeated
  <2>5. Taken(Subject) \in Seq(TrueItems)
    BY <2>1, MovesTrue, OthersTrue, StatusNames, JoinTrue DEF Taken
  <2>6. Do("unlink", Subject) \in Seq(TrueItems)
    BY <2>1, OthersTrue
  <2>7. \E s \in Seq(TrueItems) : work' = s \o Do("unlink", Subject)
    <3>1. CASE Subject \notin inbox
      BY <1>3, <2>3, <3>1 DEF Read
    <3>2. CASE Subject \in inbox /\ Subject \in Known(mem)
      BY <1>3, <2>4, <3>2 DEF Read
    <3>3. CASE Subject \in inbox /\ Subject \notin Known(mem) /\ Full(mem)
      BY <1>3, <2>2, <3>3 DEF Read
    <3>4. CASE Subject \in inbox /\ Subject \notin Known(mem) /\ ~Full(mem)
      BY <1>3, <2>5, <3>4 DEF Read
    <3> QED  BY <3>1, <3>2, <3>3, <3>4
  <2> QED  BY <2>6, <2>7, JoinTrue
<1>4. ASSUME Send  PROVE work' \in Seq(TrueItems)
  <2>1. Subject \in Commands
    BY <1>0, <1>4, SubjectType DEF Send
  <2>2. Subject \in Mail => Moves({Subject}, "uncertain") \in Seq(TrueItems) /\ Ack(Subject, "uncertain") \in Seq(TrueItems)
    BY <2>1, MovesTrue, AckTrue, SaysNothing, StatusNames
  <2>3. Finally("failed") \in Seq(TrueItems)
    BY <1>0, FinallyTrue
  <2> QED  BY <1>1, <1>4, <2>2, <2>3, JoinTrue DEF Send
<1>5. ASSUME Acknowledge \/ Unlink \/ Fail  PROVE work' \in Seq(TrueItems)
  BY <1>0, <1>1, <1>5, FinallyTrue DEF Acknowledge, Unlink, Fail
<1>6. ASSUME GiveUp  PROVE work' \in Seq(TrueItems)
  <2>1. Head(work).op = "giveup" /\ Head(work) \in Items
    BY <1>1, <1>6 DEF GiveUp, At, TrueItems
  <2>2. Head(work).cmds \subseteq Mail /\ Head(work).to \in {"failed", "clean"}
    BY <2>1, ItemFields
  <2>3. ASSUME NEW how \in {"failed", "clean"}  PROVE CloseItems(how) \in Seq(TrueItems)
    <3> DEFINE failed == IF how = "failed" THEN Of(mem, {"accepted", "started"}) ELSE {}
    <3>1. failed \in SUBSET Commands /\ Of(mem, Open) \ failed \in SUBSET Commands
      BY DEF Of
    <3>2. Moves(failed, "failed") \in Seq(TrueItems) /\ Moves(Of(mem, Open) \ failed, "uncertain") \in Seq(TrueItems)
      BY <3>1, MovesTrue, StatusNames
    <3> QED  BY <3>2, OthersTrue, StatusNames, JoinTrue DEF CloseItems
  <2>4. ASSUME NEW c \in Head(work).cmds
        PROVE  ((IF acks[c] # "none" THEN <<>>
                ELSE Moves({c} \cap Of(mem, Open), "uncertain") \o Ack(c, "uncertain"))
                \o <<[Head(work) EXCEPT !.cmds = @ \ {c}]>>) \in Seq(TrueItems)
    <3>1. {c} \cap Of(mem, Open) \in SUBSET Commands /\ c \in Mail
      BY <2>2 DEF Of
    <3>2. Moves({c} \cap Of(mem, Open), "uncertain") \in Seq(TrueItems) /\ Ack(c, "uncertain") \in Seq(TrueItems)
      BY <3>1, MovesTrue, AckTrue, SaysNothing, StatusNames
    <3>3. [Head(work) EXCEPT !.cmds = @ \ {c}] \in TrueItems
      BY <2>1, <2>2 DEF TrueItems, Telling, Items
    <3>4. <<[Head(work) EXCEPT !.cmds = @ \ {c}]>> \in Seq(TrueItems)
      BY <3>3, OneTrue
    <3>5. (IF acks[c] # "none" THEN <<>>
           ELSE Moves({c} \cap Of(mem, Open), "uncertain") \o Ack(c, "uncertain")) \in Seq(TrueItems)
      BY <3>2, EmptyTrue, JoinTrue
    <3> QED  BY <3>4, <3>5, JoinTrue
  <2> QED  BY <1>6, <2>2, <2>3, <2>4 DEF GiveUp
<1>7. work' \in Seq(TrueItems)
  BY <1>2, <1>3, <1>4, <1>5, <1>6
<1>8. ASSUME Acknowledge  PROVE acks' \in TrueAcks
  <2>1. Subject \in Mail /\ Head(work).op = "ack" /\ Head(work).cmds = {Subject}
    BY <1>0, <1>8, SubjectType DEF Acknowledge, At
  <2>2. Head(work).to \in AckValues
    BY <1>1, <2>1, ItemFields DEF TrueItems
  <2>3. Answered(Head(work).to, verdict[Subject])
    BY <1>1, <2>1 DEF TrueItems, Telling
  <2>4. acks' = [acks EXCEPT ![Subject] = Head(work).to]
    BY <1>8 DEF Acknowledge
  <2> QED  BY <1>0, <2>1, <2>2, <2>3, <2>4 DEF TrueAcks
<1>9. Acknowledge \/ acks' = acks
  BY DEF Begin, Read, Send, Unlink, Fail, GiveUp, mailbox
<1>10. UNCHANGED <<disk, mem, verdict, writing>>
  BY DEF Begin, Read, Send, Acknowledge, Unlink, Fail, GiveUp, pi
<1> QED  BY <1>0, <1>7, <1>8, <1>9, <1>10, AnswersGoOn

LEMMA AnswersEnding ==
  ASSUME DeliveryInvariant, AnswersInvariant, NEW how \in {"failed", "clean"}, Finish(how) \/ Interrupt(how)
  PROVE  AnswersInvariant'
<1>1. /\ work \in Seq(TrueItems) /\ pending \subseteq Mail /\ acks \in TrueAcks
      /\ writing \in Seq(TrueEvents)
  BY DEF DeliveryInvariant, TypeOK, AnswersInvariant
<1>2. Finally(how) \in Seq(TrueItems)
  BY <1>1, FinallyTrue
<1>3. (IF work # <<>> /\ work[Len(work)].op = "unlink" THEN <<work[Len(work)]>> ELSE <<>>) \in Seq(TrueItems)
  BY <1>1, OneTrue, EmptyTrue
<1>4. work' \in Seq(TrueItems) /\ writing' \in Seq(TrueEvents)
  BY <1>1, <1>2, <1>3, EmptyTrue, JoinTrue DEF Finish, Interrupt
<1>5. UNCHANGED <<disk, mailbox, mem, pi>>
  BY DEF Finish, Interrupt
<1> QED  BY <1>1, <1>4, <1>5, AnswersGoOn DEF mailbox, pi

LEMMA AnswersNext ==
  ASSUME DeliveryInvariant, AnswersInvariant, [Next]_vars
  PROVE  AnswersInvariant'
<1>1. TypeOK
  BY DEF DeliveryInvariant
<1>2. ASSUME Crash \/ Exit  PROVE AnswersInvariant'
  BY <1>2, AnswersGone DEF Crash, Exit, disk, mailbox
<1>3. ASSUME Handler  PROVE AnswersInvariant'
  BY <1>2, <1>3, AnswersLoop, AnswersItem DEF Handler
<1>4. ASSUME Ending  PROVE AnswersInvariant'
  BY <1>2, <1>4, AnswersStop, AnswersEnding DEF Ending
<1>5. ASSUME UNCHANGED vars  PROVE AnswersInvariant'
  BY <1>5, AnswersStep DEF AnswersInvariant, vars, disk, mailbox, process, pi
<1> QED  BY <1>1, <1>3, <1>4, <1>5, AnswersClient, AnswersPi, AnswersStart, AnswersRecord DEF Next

THEOREM AnswersHold == Spec => []AnswersInvariant
  BY AnswersInit, AnswersNext, DeliveryHolds, PTL DEF Spec

\* What a client reads is Pi's answer, also if an earlier generation got it, the
\* registry was rebuilt from the journal, or a process died or was interrupted
\* anywhere: nobody is told of a success that Pi did not report or of a rejection
\* that it did not give.
THEOREM AcknowledgementsAreTrue == Spec => []AckIsTrue
<1>1. AnswersInvariant => AckIsTrue
  BY DEF AnswersInvariant, TrueAcks, Answered, AckIsTrue
<1> QED  BY <1>1, AnswersHold, PTL

-----------------------------------------------------------------------------
(* Generations: the events of a generation are behind those of all earlier  *)
(* ones, and its number is new when it begins.                              *)

\* The journal in order: generations rise, and strictly where one begins.
Rising ==
  \A i, j \in 1..Len(Journal) : i < j =>
    /\ Journal[i].gen <= Journal[j].gen
    /\ Journal[j].kind = "supervisor_started" => Journal[i].gen < Journal[j].gen

\* A generation's prompt is known to nobody before the generation.
OwnRegistry(reg) == \A g \in Generations : reg.cmds[g] # "unknown" => g <= reg.gen
OwnEvents(s)     == \A i \in 1..Len(s) : s[i].cmd \in Generations => s[i].cmd <= s[i].gen

\* What a handler may do about prompts of generations, its beginning apart.
OwnItems ==
  {it \in Items :
     /\ it.to # "supervisor_started"
     /\ it.op = "move" => \A g \in it.cmds \cap Generations :
                            g <= mem.gen /\ (proc = "starting" => g < mem.gen)
     /\ it.op \in {"begin", "send"} => it.cmds \cap Generations \subseteq {mem.gen}
     /\ it.op = "giveup" => proc # "starting"}

\* A generation is about to begin, or its first event is not yet saved.
Opening ==
  /\ proc = "starting"
  /\ work # <<>> /\ Head(work).op = "note" /\ Head(work).to = "supervisor_started"
  /\ Rest \in Seq(OwnItems)
  /\ writing = <<>> => \A i \in 1..Len(Journal) : Journal[i].gen < mem.gen

GenerationInvariant ==
  /\ Rising /\ OwnEvents(archive) /\ OwnEvents(current) /\ OwnRegistry(saved)
  /\ Live => OwnRegistry(mem) /\ \A i \in 1..Len(Journal) : Journal[i].gen <= mem.gen
  /\ work \in Seq(OwnItems) \/ Opening
  /\ proc = "starting" => mem.gen \in Generations /\ mem.cmds[mem.gen] = "unknown"

LEMMA OneItem ==
  ASSUME NEW S, NEW x \in S
  PROVE  <<x>> \in Seq(S)
  OBVIOUS

LEMMA OwnOne ==
  ASSUME NEW it \in OwnItems
  PROVE  <<it>> \in Seq(OwnItems)
  OBVIOUS

LEMMA OwnEmpty == <<>> \in Seq(OwnItems)
  OBVIOUS

LEMMA OwnJoin ==
  ASSUME NEW s \in Seq(OwnItems), NEW t \in Seq(OwnItems)
  PROVE  s \o t \in Seq(OwnItems)
  BY ConcatProperties

LEMMA OwnMoves ==
  ASSUME NEW S \in SUBSET Commands, NEW to \in Statuses,
         \A g \in S \cap Generations : g <= mem.gen /\ (proc = "starting" => g < mem.gen)
  PROVE  Moves(S, to) \in Seq(OwnItems)
<1>1. to # "supervisor_started"
  BY DEF Statuses, Open, Terminal
<1>2. Item("move", S, to) \in OwnItems
  BY <1>1 DEF Item, Items, OwnItems
<1> QED  BY <1>2, OwnOne, OwnEmpty DEF Moves

\* The items that name no prompt of a generation, or the own one.
LEMMA OwnOthers ==
  /\ \A kind \in Lifecycle \ {"supervisor_started"} : Note(kind) \in Seq(OwnItems)
  /\ \A c \in Commands : (c \in Generations => c = mem.gen)
                         => Do("begin", c) \in Seq(OwnItems) /\ Do("send", c) \in Seq(OwnItems)
  /\ \A c \in Mail : /\ Do("read", c) \in Seq(OwnItems) /\ Do("unlink", c) \in Seq(OwnItems)
                     /\ \A value \in AckValues : Ack(c, value) \in Seq(OwnItems)
  /\ Only("fail") \in Seq(OwnItems) /\ Only("exit") \in Seq(OwnItems)
<1>1. ASSUME NEW it \in Items, it.op \notin {"move", "begin", "send", "giveup"}, it.to # "supervisor_started"
      PROVE  <<it>> \in Seq(OwnItems)
  BY <1>1, OwnOne DEF OwnItems
<1>2. ASSUME NEW kind \in Lifecycle \ {"supervisor_started"}  PROVE Note(kind) \in Seq(OwnItems)
  <2>1. Item("note", {}, kind) \in Items /\ Item("note", {}, kind).op = "note" /\ Item("note", {}, kind).to = kind
    BY DEF Item, Items
  <2> QED  BY <1>1, <2>1 DEF Note
<1>3. ASSUME NEW c \in Commands, NEW op \in {"begin", "send"}, c \in Generations => c = mem.gen
      PROVE  Do(op, c) \in Seq(OwnItems)
  <2>1. Item(op, {c}, "") \in OwnItems
    BY <1>3 DEF Item, Items, OwnItems
  <2> QED  BY <2>1, OwnOne DEF Do
<1>4. ASSUME NEW c \in Mail, NEW op \in {"read", "unlink"}  PROVE Do(op, c) \in Seq(OwnItems)
  <2>1. Item(op, {c}, "") \in Items /\ Item(op, {c}, "").op = op /\ Item(op, {c}, "").to = ""
    BY DEF Item, Items
  <2> QED  BY <1>1, <2>1 DEF Do
<1>5. ASSUME NEW op \in {"fail", "exit"}  PROVE Only(op) \in Seq(OwnItems)
  <2>1. Item(op, {}, "") \in Items /\ Item(op, {}, "").op = op /\ Item(op, {}, "").to = ""
    BY DEF Item, Items
  <2> QED  BY <1>1, <2>1 DEF Only
<1>6. ASSUME NEW c \in Mail, NEW value \in AckValues  PROVE Ack(c, value) \in Seq(OwnItems)
  <2>1. Item("ack", {c}, value) \in Items /\ Item("ack", {c}, value).op = "ack" /\ Item("ack", {c}, value).to = value
    BY DEF Item, Items
  <2>2. value # "supervisor_started"
    BY DEF AckValues, Terminal, Successful
  <2> QED  BY <1>1, <2>1, <2>2 DEF Ack
<1> QED  BY <1>2, <1>3, <1>4, <1>5, <1>6

LEMMA OwnFinally ==
  ASSUME pending \subseteq Mail, NEW how \in {"failed", "clean"}, proc' # "starting"
  PROVE  Finally(how) \in Seq(OwnItems')
<1>1. Item("giveup", pending, how) \in OwnItems'
  BY DEF Item, Items, OwnItems
<1> QED  BY <1>1, OneItem DEF Finally

\* A process that goes on may still do what it might.
LEMMA OwnStays ==
  ASSUME mem' = mem, proc' = "starting" => proc = "starting"
  PROVE  \A s \in Seq(OwnItems) : s \in Seq(OwnItems')
<1>1. OwnItems \subseteq OwnItems'
  BY DEF OwnItems
<1> QED  BY <1>1, SeqMonotonic

LEMMA MailIsNoGeneration == Mail \cap Generations = {} /\ Commands \ Mail \subseteq Generations
  BY ConstantAssumption DEF Generations, Commands

LEMMA RegistryFields ==
  ASSUME NEW reg \in Registry
  PROVE  /\ reg.last \in Nat /\ reg.gen \in Nat /\ reg.closed \in BOOLEAN
         /\ \A c \in Commands : reg.cmds[c] \in Statuses \cup {"unknown"}
  BY DEF Registry

-----------------------------------------------------------------------------
(* Generations: how the journal changes.                                    *)

\* An append is one to the journal.
LEMMA AppendJournal ==
  ASSUME archive \in Seq(Event), current \in Seq(Event), NEW e \in Event,
         archive' = archive, current' = Append(current, e)
  PROVE  /\ Journal' \in Seq(Event) /\ Len(Journal) \in Nat
         /\ Len(Journal') = Len(Journal) + 1
         /\ \A i \in 1..Len(Journal) : Journal'[i] = Journal[i]
         /\ Journal'[Len(Journal) + 1] = e
<1>1. Journal' = archive \o Append(current, e)
  BY DEF Journal
<1>2. Append(current, e) \in Seq(Event) /\ Len(Append(current, e)) = Len(current) + 1
  BY AppendProperties
<1>3. Journal' = Append(Journal, e)
  BY <1>1 DEF Journal
<1>4. Journal \in Seq(Event)
  BY JournalType
<1> QED  BY <1>3, <1>4, AppendProperties, LenProperties

\* A rotation drops the archive, if there is one, and nothing else.
LEMMA RotateJournal ==
  ASSUME archive \in Seq(Event), current \in Seq(Event), Rotate
  PROVE  \E k \in Nat :
           /\ Journal' \in Seq(Event) /\ Len(Journal) \in Nat /\ Len(Journal') \in Nat
           /\ Len(Journal) = k + Len(Journal')
           /\ \A i \in 1..Len(Journal') : Journal'[i] = Journal[k + i]
           /\ k = 0 => Journal' = Journal
           /\ k > 0 => Len(Journal') >= SegmentSize
<1>1. SegmentSize \in Nat \ {0} /\ Len(current) >= SegmentSize
  BY ConstantAssumption DEF Rotate, SegmentFull
<1>2. Len(archive) \in Nat /\ Len(current) \in Nat
  OBVIOUS
<1>3. CASE archive # <<>>
  <2>1. Journal' = <<>> \o current
    BY <1>3 DEF Rotate, Journal
  <2>2. Journal' = current
    BY <2>1
  <2>3. /\ Len(Journal) = Len(archive) + Len(current)
        /\ \A i \in 1..Len(current) : Journal[Len(archive) + i] = current[i]
    BY JournalType
  <2>4. Len(archive) # 0
    BY <1>3
  <2> QED  BY <1>1, <1>2, <2>2, <2>3, <2>4
<1>4. CASE archive = <<>>
  <2>1. Journal' = current \o <<>> /\ Journal = <<>> \o current
    BY <1>4 DEF Rotate, Journal
  <2>2. Journal' = Journal /\ Journal' = current
    BY <2>1
  <2>3. /\ 0 \in Nat /\ Len(Journal) = 0 + Len(Journal')
        /\ \A i \in 1..Len(Journal') : Journal'[i] = Journal[0 + i]
    BY <1>2, <2>2
  <2>4. /\ Journal' \in Seq(Event) /\ Len(Journal) \in Nat /\ Len(Journal') \in Nat
        /\ 0 = 0 => Journal' = Journal
        /\ 0 > 0 => Len(Journal') >= SegmentSize
    BY <1>2, <2>2
  <2> WITNESS 0 \in Nat
  <2> QED  BY <2>3, <2>4
<1> QED  BY <1>3, <1>4

\* The last event has the greatest generation.
LEMMA LastIsLatest ==
  ASSUME archive \in Seq(Event), current \in Seq(Event), Rising, NEW i \in 1..Len(Journal)
  PROVE  Journal # <<>> /\ Journal[i].gen <= LastEvent.gen
<1>1. Journal \in Seq(Event) /\ Len(Journal) \in Nat /\ Len(Journal) \in 1..Len(Journal)
  BY JournalType
<1>2. Journal[i].gen \in Nat /\ Journal[Len(Journal)].gen \in Nat
  BY <1>1, EventFields
<1>3. i = Len(Journal) \/ i < Len(Journal)
  BY <1>1
<1>4. i < Len(Journal) => Journal[i].gen <= Journal[Len(Journal)].gen
  BY <1>1 DEF Rising
<1>5. Journal # <<>>
  BY <1>1
<1> QED  BY <1>2, <1>3, <1>4, <1>5 DEF LastEvent

\* A reader that finds the registry not ahead of the journal has the greatest number,
\* and knows no prompt of a later generation.
LEMMA ReplayedOwn ==
  ASSUME archive \in Seq(Event), current \in Seq(Event), saved \in Registry,
         Rising, OwnEvents(archive), OwnEvents(current), OwnRegistry(saved),
         Journal = <<>> \/ saved.gen <= LastEvent.gen
  PROVE  /\ OwnRegistry(Replayed)
         /\ \A i \in 1..Len(Journal) : Journal[i].gen <= Replayed.gen
<1>1. \A i \in 1..Len(Journal) : Journal[i].gen <= Replayed.gen
  BY LastIsLatest DEF Replayed
<1>2. saved.gen <= Replayed.gen /\ saved.gen \in Nat /\ Replayed.gen \in Nat
  BY ReplayedType, RegistryFields DEF Replayed
<1>3. Journal \in Seq(Event) /\ Len(Journal) \in Nat
  BY JournalType
<1>4. ASSUME NEW i \in 1..Len(Journal), Journal[i].cmd \in Generations
      PROVE  Journal[i].cmd <= Replayed.gen
  <2>1. Journal[i].cmd <= Journal[i].gen
    <3>1. /\ Len(Journal) = Len(archive) + Len(current)
          /\ \A k \in 1..Len(archive) : Journal[k] = archive[k]
          /\ \A k \in 1..Len(current) : Journal[Len(archive) + k] = current[k]
          /\ Len(archive) \in Nat /\ Len(current) \in Nat
      BY JournalType
    <3>2. CASE i <= Len(archive)
      <4>1. i \in 1..Len(archive)
        BY <3>1, <3>2
      <4> QED  BY <1>4, <3>1, <4>1 DEF OwnEvents
    <3>3. CASE i > Len(archive)
      <4>1. i - Len(archive) \in 1..Len(current) /\ Len(archive) + (i - Len(archive)) = i
        BY <3>1, <3>3
      <4>2. Journal[i] = current[i - Len(archive)]
        BY <3>1, <4>1
      <4> QED  BY <1>4, <4>1, <4>2 DEF OwnEvents
    <3> QED  BY <3>1, <3>2, <3>3
  <2>2. Journal[i].gen \in Nat
    BY <1>3, EventFields
  <2> QED  BY <1>1, <1>2, <1>4, <2>1, <2>2 DEF Generations
<1>5. ASSUME NEW g \in Generations, Recorded[g] # "unknown"  PROVE g <= Replayed.gen
  <2>1. g \in Commands /\ g \in Nat
    BY DEF Commands, Generations
  <2>2. CASE About(g) = {}
    <3>1. Recorded[g] = saved.cmds[g]
      BY <2>1, <2>2 DEF Recorded
    <3> QED  BY <1>2, <1>5, <2>1, <3>1 DEF OwnRegistry
  <2>3. CASE About(g) # {}
    <3>1. PICK i \in About(g) : TRUE
      BY <2>3
    <3>2. i \in 1..Len(Journal) /\ Journal[i].cmd = g
      BY NewerType DEF About
    <3> QED  BY <1>4, <3>2
  <2> QED  BY <2>2, <2>3
<1>6. Replayed.cmds = Recorded
  BY DEF Replayed
<1> QED  BY <1>1, <1>5, <1>6 DEF OwnRegistry

-----------------------------------------------------------------------------
(* Generations: the invariant is preserved.                                 *)

\* A step that leaves files and registry alone: of a process that lives on, or of
\* clients and Pi.
LEMMA GenerationGoesOn ==
  ASSUME GenerationInvariant, UNCHANGED <<archive, current, saved, mem>>,
         Live' => Live,
         proc' = "starting" => proc = "starting",
         \/ work' \in Seq(OwnItems) \/ work' \in Seq(OwnItems')
         \/ UNCHANGED <<work, proc, writing>>
  PROVE  GenerationInvariant'
<1>1. Journal' = Journal
  BY DEF Journal
<1>2. OwnItems \subseteq OwnItems'
  BY DEF OwnItems
<1>3. Rising' /\ OwnEvents(archive)' /\ OwnEvents(current)' /\ OwnRegistry(saved)'
  BY <1>1 DEF GenerationInvariant, Rising, OwnEvents, OwnRegistry
<1>4. Live' => OwnRegistry(mem)' /\ \A i \in 1..Len(Journal') : Journal'[i].gen <= mem'.gen
  BY <1>1 DEF GenerationInvariant, OwnRegistry
<1>5. work' \in Seq(OwnItems') \/ Opening'
  <2>1. work' \in Seq(OwnItems) => work' \in Seq(OwnItems')
    BY <1>2, SeqMonotonic
  <2>2. CASE UNCHANGED <<work, proc, writing>> /\ Opening
    <3>1. Rest \in Seq(OwnItems')
      BY <1>2, <2>2, SeqMonotonic DEF Opening
    <3> QED  BY <1>1, <2>2, <3>1 DEF Opening, Rest
  <2>3. CASE UNCHANGED <<work, proc, writing>> /\ work \in Seq(OwnItems)
    BY <2>1, <2>3
  <2> QED  BY <2>1, <2>2, <2>3 DEF GenerationInvariant
<1>6. proc' = "starting" => mem'.gen \in Generations /\ mem'.cmds[mem'.gen] = "unknown"
  BY DEF GenerationInvariant
<1> QED  BY <1>3, <1>4, <1>5, <1>6 DEF GenerationInvariant

LEMMA GenerationGone ==
  ASSUME GenerationInvariant, Gone, UNCHANGED <<archive, current, saved>>
  PROVE  GenerationInvariant'
<1>1. Journal' = Journal
  BY DEF Journal
<1>2. Rising' /\ OwnEvents(archive)' /\ OwnEvents(current)' /\ OwnRegistry(saved)'
  BY <1>1 DEF GenerationInvariant, Rising, OwnEvents, OwnRegistry
<1>3. ~Live' /\ proc' # "starting" /\ work' \in Seq(OwnItems')
  BY DEF Gone, Live
<1> QED  BY <1>2, <1>3 DEF GenerationInvariant

LEMMA GenerationInit == Init => GenerationInvariant
<1> SUFFICES ASSUME Init  PROVE GenerationInvariant
  OBVIOUS
<1>1. Len(archive) = 0 /\ Len(current) = 0 /\ Len(Journal) = 0
  BY EmptyType, JournalType DEF Init
<1>2. \A g \in Generations : saved.cmds[g] = "unknown"
  BY DEF Init, Blank, Commands
<1>3. Rising /\ OwnEvents(archive) /\ OwnEvents(current) /\ OwnRegistry(saved)
  BY <1>1, <1>2 DEF Rising, OwnEvents, OwnRegistry
<1>4. ~Live /\ proc # "starting" /\ work \in Seq(OwnItems)
  BY DEF Init, Live
<1> QED  BY <1>3, <1>4 DEF GenerationInvariant

LEMMA GenerationStart ==
  ASSUME DeliveryInvariant, GenerationInvariant, Start
  PROVE  GenerationInvariant'
<1>0. archive \in Seq(Event) /\ current \in Seq(Event) /\ saved \in Registry
  BY TypeParts DEF DeliveryInvariant, FilesOK
<1>1. UNCHANGED <<archive, current, saved>> /\ Journal' = Journal
  BY DEF Start, disk, Journal
<1>2. Rising' /\ OwnEvents(archive)' /\ OwnEvents(current)' /\ OwnRegistry(saved)'
  BY <1>1 DEF GenerationInvariant, Rising, OwnEvents, OwnRegistry
<1>3. Journal = <<>> \/ saved.gen <= LastEvent.gen
  BY DEF Start, Loadable
<1>4. /\ OwnRegistry(Replayed)
      /\ \A i \in 1..Len(Journal) : Journal[i].gen <= Replayed.gen
  BY <1>0, <1>3, ReplayedOwn DEF GenerationInvariant
<1>5. Replayed \in Registry /\ Replayed.gen \in Nat
  BY <1>0, ReplayedType, RegistryFields
<1>6. /\ mem'.gen = Replayed.gen + 1 /\ mem'.gen \in Generations /\ mem'.cmds = Replayed.cmds
      /\ proc' = "starting"
  <2>1. mem' = [Replayed EXCEPT !.gen = NextGeneration]
    BY DEF Start
  <2> QED  BY <1>5, <2>1 DEF Registry, NextGeneration, Start
<1>7. \A i \in 1..Len(Journal) : Journal[i].gen < mem'.gen /\ Journal[i].gen <= mem'.gen
  <2>1. ASSUME NEW i \in 1..Len(Journal)  PROVE Journal[i].gen \in Nat
    BY <1>0, JournalType, EventFields
  <2> QED  BY <1>4, <1>5, <1>6, <2>1
<1>8. OwnRegistry(mem)' /\ mem'.cmds[mem'.gen] = "unknown"
  BY <1>4, <1>5, <1>6 DEF OwnRegistry, Generations
<1>9. Opening'
  <2>1. \A g \in Of(Replayed, Open) \cap Generations : g < mem'.gen /\ g <= mem'.gen
    <3> SUFFICES ASSUME NEW g \in Of(Replayed, Open) \cap Generations
                 PROVE  g < mem'.gen /\ g <= mem'.gen
      OBVIOUS
    <3>1. Replayed.cmds[g] # "unknown" /\ g \in Nat
      BY DEF Of, Open, Generations
    <3>2. g <= Replayed.gen
      BY <1>4, <3>1 DEF OwnRegistry
    <3> QED  BY <1>5, <1>6, <3>1, <3>2
  <2>2. Leftovers \in Seq(OwnItems')
    <3>1. Item("move", Of(Replayed, Open), "uncertain") \in OwnItems'
      BY <2>1 DEF Item, Items, OwnItems, Of, Statuses, Terminal
    <3> QED  BY <3>1 DEF Leftovers, Moves
  <2>3. Do("begin", NextGeneration) \in Seq(OwnItems')
    <3>1. Item("begin", {NextGeneration}, "") \in OwnItems'
      BY <1>6 DEF Item, Items, OwnItems, NextGeneration, Commands
    <3> QED  BY <3>1, OneItem DEF Do
  <2>4. Leftovers \o Do("begin", NextGeneration) \in Seq(OwnItems')
    BY <2>2, <2>3, ConcatProperties
  <2>5. /\ work' # <<>> /\ Head(work') = Item("note", {}, "supervisor_started")
        /\ Tail(work') = Leftovers \o Do("begin", NextGeneration)
    <3>1. \A a, s \in Seq(OwnItems') : <<Item("note", {}, "supervisor_started")>> \o (a \o s)
                                        = (<<Item("note", {}, "supervisor_started")>> \o a) \o s
      OBVIOUS
    <3> DEFINE n == Item("note", {}, "supervisor_started")
               t == Leftovers \o Do("begin", NextGeneration)
    <3>2. work' = <<n>> \o t
      BY <2>2, <2>3, <3>1 DEF Start, Note
    <3>3. t \in Seq(OwnItems')
      BY <2>4
    <3> HIDE DEF t, n
    <3>4. <<n>> \o t # <<>> /\ Head(<<n>> \o t) = n /\ Tail(<<n>> \o t) = t
      BY <3>3
    <3> QED  BY <3>2, <3>4 DEF t, n
  <2>6. Head(work').op = "note" /\ Head(work').to = "supervisor_started"
    BY <2>5 DEF Item
  <2>7. Rest' \in Seq(OwnItems')
    BY <2>4, <2>5 DEF Rest
  <2> QED  BY <1>1, <1>6, <1>7, <2>5, <2>6, <2>7 DEF Opening
<1> QED  BY <1>1, <1>2, <1>6, <1>7, <1>8, <1>9 DEF GenerationInvariant

LEMMA GenerationStop ==
  ASSUME DeliveryInvariant, GenerationInvariant, Stop
  PROVE  GenerationInvariant'
<1>0. archive \in Seq(Event) /\ current \in Seq(Event) /\ saved \in Registry
  BY TypeParts DEF DeliveryInvariant, FilesOK
<1>1. UNCHANGED <<archive, current, saved>> /\ Journal' = Journal
  BY DEF Stop, disk, Journal
<1>2. Rising' /\ OwnEvents(archive)' /\ OwnEvents(current)' /\ OwnRegistry(saved)'
  BY <1>1 DEF GenerationInvariant, Rising, OwnEvents, OwnRegistry
<1>3. ASSUME ~Gone  PROVE GenerationInvariant'
  <2>1. /\ mem' = Replayed /\ work' = StopItems /\ proc' = "stopping"
        /\ Journal = <<>> \/ saved.gen <= LastEvent.gen
    BY <1>3 DEF Stop
  <2>2. /\ OwnRegistry(Replayed)
        /\ \A i \in 1..Len(Journal) : Journal[i].gen <= Replayed.gen
    BY <1>0, <2>1, ReplayedOwn DEF GenerationInvariant
  <2>3. \A g \in Of(Replayed, Open) \cap Generations : g <= mem'.gen
    BY <2>1, <2>2 DEF Of, Open, OwnRegistry
  <2>4. Moves(Of(Replayed, Open), "uncertain") \in Seq(OwnItems')
    <3>1. Item("move", Of(Replayed, Open), "uncertain") \in OwnItems'
      BY <2>1, <2>3 DEF Item, Items, OwnItems, Of, Statuses, Terminal
    <3> QED  BY <3>1 DEF Moves
  <2>5. Note("supervisor_ended") \in Seq(OwnItems') /\ Only("exit") \in Seq(OwnItems')
    <3>1. Item("note", {}, "supervisor_ended") \in OwnItems' /\ Item("exit", {}, "") \in OwnItems'
      BY DEF Item, Items, OwnItems, Lifecycle
    <3> QED  BY <3>1, OneItem DEF Note, Only
  <2>6. work' \in Seq(OwnItems')
    BY <2>1, <2>4, <2>5, ConcatProperties, EmptySeq DEF StopItems
  <2> QED  BY <1>1, <1>2, <2>1, <2>2, <2>6 DEF GenerationInvariant, OwnRegistry
<1> QED  BY <1>1, <1>3, GenerationGone

LEMMA GenerationRotate ==
  ASSUME DeliveryInvariant, GenerationInvariant, Rotate
  PROVE  GenerationInvariant'
<1>0. archive \in Seq(Event) /\ current \in Seq(Event)
  BY TypeParts DEF DeliveryInvariant, FilesOK
<1>1. PICK k \in Nat :
        /\ Journal' \in Seq(Event) /\ Len(Journal) \in Nat /\ Len(Journal') \in Nat
        /\ Len(Journal) = k + Len(Journal')
        /\ \A i \in 1..Len(Journal') : Journal'[i] = Journal[k + i]
  BY <1>0, RotateJournal
<1>2. \A i \in 1..Len(Journal') : k + i \in 1..Len(Journal)
  BY <1>1
<1>3. Rising'
  <2> SUFFICES ASSUME NEW i \in 1..Len(Journal'), NEW j \in 1..Len(Journal'), i < j
               PROVE  /\ Journal'[i].gen <= Journal'[j].gen
                      /\ Journal'[j].kind = "supervisor_started" => Journal'[i].gen < Journal'[j].gen
    BY DEF Rising
  <2>1. k + i \in 1..Len(Journal) /\ k + j \in 1..Len(Journal) /\ k + i < k + j
    BY <1>1, <1>2
  <2> QED  BY <1>1, <2>1 DEF GenerationInvariant, Rising
<1>4. OwnEvents(archive)' /\ OwnEvents(current)'
  BY DEF GenerationInvariant, OwnEvents, Rotate
<1>5. UNCHANGED <<saved, mem, work, proc, writing>>
  BY DEF Rotate, process
<1>6. OwnItems' = OwnItems
  BY <1>5 DEF OwnItems
<1>7. Opening => Opening'
  BY <1>1, <1>2, <1>5, <1>6 DEF Opening, Rest
<1>8. Live' => OwnRegistry(mem)' /\ \A i \in 1..Len(Journal') : Journal'[i].gen <= mem'.gen
  BY <1>1, <1>2, <1>5 DEF GenerationInvariant, OwnRegistry, Live
<1> QED  BY <1>3, <1>4, <1>5, <1>6, <1>7, <1>8 DEF GenerationInvariant, OwnRegistry

\* The head of a handler is the first event of a generation, or of the own items.
LEMMA OwnHead ==
  ASSUME GenerationInvariant, work \in Seq(Items), work # <<>>
  PROVE  /\ Opening \/ Head(work) \in OwnItems
         /\ Rest \in Seq(OwnItems)
<1>1. ASSUME work \in Seq(OwnItems)  PROVE Head(work) \in OwnItems /\ Rest \in Seq(OwnItems)
  BY <1>1, HeadTailProperties DEF Rest
<1> QED  BY <1>1 DEF GenerationInvariant, Opening

LEMMA GenerationAppend ==
  ASSUME DeliveryInvariant, GenerationInvariant, AppendEvent
  PROVE  GenerationInvariant'
<1>0. /\ archive \in Seq(Event) /\ current \in Seq(Event) /\ mem \in Registry
      /\ work \in Seq(Items) /\ work # <<>> /\ writing = <<>> /\ Live
  BY WorkerLives DEF DeliveryInvariant, TypeOK, AppendEvent, Recording
<1>1. PICK c \in IF Head(work).op = "move" THEN Head(work).cmds ELSE {NoCommand} :
        LET e == [seq |-> mem.last + 1, gen |-> mem.gen, kind |-> Head(work).to, cmd |-> c] IN
        /\ current' = Append(current, e) /\ writing' = <<e>>
  BY DEF AppendEvent
<1> DEFINE e == [seq |-> mem.last + 1, gen |-> mem.gen, kind |-> Head(work).to, cmd |-> c]
<1>2. e \in Event
  <2>1. mem.last \in Nat /\ mem.gen \in Nat
    BY <1>0, RegistryFields
  <2>2. Head(work) \in Items /\ (Head(work).op = "move" \/ Head(work).op = "note")
    BY <1>0, HeadType DEF AppendEvent, Recording
  <2>3. \/ c \in Commands /\ Head(work).to \in Statuses
        \/ c = NoCommand /\ Head(work).to \in Lifecycle
    BY <1>1, <2>2, ItemFields
  <2> QED  BY <2>1, <2>3 DEF Event
<1>3. /\ e.gen = mem.gen /\ e.kind = Head(work).to /\ e.cmd = c
      /\ current' = Append(current, e) /\ writing' = <<e>> /\ writing' # <<>>
  BY <1>1
<1>4. UNCHANGED <<archive, saved, mem, work, proc>>
  BY DEF AppendEvent
<1> HIDE DEF e
<1>5. /\ Journal' \in Seq(Event) /\ Len(Journal) \in Nat
      /\ Len(Journal') = Len(Journal) + 1
      /\ \A i \in 1..Len(Journal) : Journal'[i] = Journal[i]
      /\ Journal'[Len(Journal) + 1] = e
  BY <1>0, <1>2, <1>3, <1>4, AppendJournal
<1>6. Opening \/ Head(work) \in OwnItems
  BY <1>0, OwnHead
<1>7. \A i \in 1..Len(Journal) : /\ Journal[i].gen <= mem.gen
                                 /\ Head(work).to = "supervisor_started" => Journal[i].gen < mem.gen
  BY <1>0, <1>6 DEF GenerationInvariant, Opening, OwnItems
<1>8. Rising'
  <2> SUFFICES ASSUME NEW i \in 1..Len(Journal'), NEW j \in 1..Len(Journal'), i < j
               PROVE  /\ Journal'[i].gen <= Journal'[j].gen
                      /\ Journal'[j].kind = "supervisor_started" => Journal'[i].gen < Journal'[j].gen
    BY DEF Rising
  <2>1. i \in 1..Len(Journal)
    BY <1>5
  <2>2. CASE j = Len(Journal) + 1
    BY <1>3, <1>5, <1>7, <2>1, <2>2
  <2>3. CASE j \in 1..Len(Journal)
    BY <1>5, <2>1, <2>3 DEF GenerationInvariant, Rising
  <2> QED  BY <1>5, <2>2, <2>3
<1>9. OwnEvents(archive)' /\ OwnEvents(current)'
  <2>1. OwnEvents(archive)'
    BY <1>4 DEF GenerationInvariant, OwnEvents
  <2>2. e.cmd \in Generations => e.cmd <= e.gen
    <3>1. ASSUME e.cmd \in Generations  PROVE Head(work).op = "move" /\ c \in Head(work).cmds /\ Head(work) \in OwnItems
      <4>1. NoCommand \notin Generations
        BY DEF NoCommand, Generations
      <4>2. Head(work).op = "move" /\ c \in Head(work).cmds
        BY <1>1, <1>3, <3>1, <4>1
      <4> QED  BY <1>6, <4>2 DEF Opening
    <3> QED  BY <1>3, <3>1 DEF OwnItems
  <2>3. OwnEvents(current)'
    <3> SUFFICES ASSUME NEW i \in 1..Len(current'), current'[i].cmd \in Generations
                 PROVE  current'[i].cmd <= current'[i].gen
      BY DEF OwnEvents
    <3>1. /\ Len(current') = Len(current) + 1 /\ Len(current) \in Nat
          /\ \A j \in 1..Len(current) : current'[j] = current[j]
          /\ current'[Len(current) + 1] = e
      BY <1>0, <1>2, <1>3, AppendProperties
    <3>2. CASE i = Len(current) + 1
      BY <2>2, <3>1, <3>2
    <3>3. CASE i \in 1..Len(current)
      BY <3>1, <3>3 DEF GenerationInvariant, OwnEvents
    <3> QED  BY <3>1, <3>2, <3>3
  <2> QED  BY <2>1, <2>3
<1>10. OwnItems' = OwnItems
  BY <1>4 DEF OwnItems
<1>11. Opening => Opening'
  BY <1>3, <1>4, <1>10 DEF Opening, Rest
<1>12. \A i \in 1..Len(Journal') : Journal'[i].gen <= mem'.gen
  <2> SUFFICES ASSUME NEW i \in 1..Len(Journal')  PROVE Journal'[i].gen <= mem.gen
    BY <1>4
  <2>1. mem.gen \in Nat
    BY <1>0, RegistryFields
  <2>2. CASE i = Len(Journal) + 1
    BY <1>3, <1>5, <2>1, <2>2
  <2>3. CASE i \in 1..Len(Journal)
    BY <1>5, <1>7, <2>3
  <2> QED  BY <1>5, <2>2, <2>3
<1>13. OwnRegistry(saved)' /\ OwnRegistry(mem)'
  BY <1>0, <1>4 DEF GenerationInvariant, OwnRegistry
<1> QED  BY <1>4, <1>8, <1>9, <1>10, <1>11, <1>12, <1>13 DEF GenerationInvariant

LEMMA GenerationSave ==
  ASSUME DeliveryInvariant, GenerationInvariant, SaveRegistry
  PROVE  GenerationInvariant'
<1> DEFINE e == writing[1]
<1>0. /\ mem \in Registry /\ work \in Seq(Items) /\ work # <<>> /\ writing # <<>> /\ e \in Event
      /\ Live /\ Head(work) \in Items
  BY WorkerLives, HeadType DEF DeliveryInvariant, TypeOK, WritingFits, SaveRegistry
<1>1. /\ mem' = Apply(mem, e) /\ saved' = mem' /\ proc' = proc
      /\ UNCHANGED <<archive, current>> /\ Journal' = Journal
  BY DEF SaveRegistry, Journal
<1>2. mem'.gen = mem.gen
  BY <1>1 DEF Apply
<1>3. \A c \in Commands : mem'.cmds[c] = IF c = e.cmd THEN e.kind ELSE mem.cmds[c]
  BY <1>0, <1>1, ApplyType
<1>4. OwnItems' = OwnItems
  BY <1>1, <1>2 DEF OwnItems
<1>5. (Opening \/ Head(work) \in OwnItems) /\ Rest \in Seq(OwnItems)
  BY <1>0, OwnHead
<1>6. ASSUME NEW g \in Generations, g = e.cmd
      PROVE  g <= mem.gen /\ (proc = "starting" => g < mem.gen)
  <2>0. e.cmd \in Commands
    BY <1>6 DEF Commands
  <2>1. CASE Head(work).op = "move"
    <3>1. e.cmd \in Head(work).cmds
      BY <1>0, <2>1 DEF DeliveryInvariant, WritingFits
    <3>2. Head(work) \in OwnItems
      BY <1>5, <2>1 DEF Opening
    <3> QED  BY <1>6, <2>1, <3>1, <3>2 DEF OwnItems
  <2>2. CASE Head(work).op # "move"
    <3>1. e.cmd = NoCommand
      BY <1>0, <2>2 DEF DeliveryInvariant, WritingFits
    <3> QED  BY <2>0, <3>1, NoCommandIsNone
  <2> QED  BY <2>1, <2>2
<1>7. OwnRegistry(mem)'
  <2> SUFFICES ASSUME NEW g \in Generations, mem'.cmds[g] # "unknown"  PROVE g <= mem'.gen
    BY DEF OwnRegistry
  <2>1. g \in Commands
    BY DEF Commands
  <2> QED  BY <1>0, <1>2, <1>3, <1>6, <2>1 DEF GenerationInvariant, OwnRegistry
<1>8. proc' = "starting" => mem'.gen \in Generations /\ mem'.cmds[mem'.gen] = "unknown"
  <2> SUFFICES ASSUME proc = "starting"  PROVE mem.gen \in Generations /\ mem'.cmds[mem.gen] = "unknown"
    BY <1>1, <1>2
  <2>1. mem.gen \in Generations /\ mem.gen \in Commands /\ mem.cmds[mem.gen] = "unknown" /\ mem.gen \in Nat
    BY DEF GenerationInvariant, Commands, Generations
  <2>2. e.cmd # mem.gen
    BY <1>6, <2>1
  <2> QED  BY <1>3, <2>1, <2>2
<1>9. work' \in Seq(OwnItems)
  <2>1. work' = (IF Head(work).op = "move" THEN Moves(Head(work).cmds \ {e.cmd}, Head(work).to) ELSE <<>>) \o Rest
    BY DEF SaveRegistry, Rest
  <2>2. ASSUME Head(work).op = "move"  PROVE Moves(Head(work).cmds \ {e.cmd}, Head(work).to) \in Seq(OwnItems)
    <3>1. Head(work) \in OwnItems
      BY <1>5, <2>2 DEF Opening
    <3>2. Head(work).cmds \ {e.cmd} \in SUBSET Commands /\ Head(work).to \in Statuses
      BY <1>0, <2>2, ItemFields
    <3>3. \A g \in (Head(work).cmds \ {e.cmd}) \cap Generations : g <= mem.gen /\ (proc = "starting" => g < mem.gen)
      BY <2>2, <3>1 DEF OwnItems
    <3> QED  BY <3>2, <3>3, OwnMoves
  <2> QED  BY <1>5, <2>1, <2>2, OwnEmpty, OwnJoin
<1>10. \A i \in 1..Len(Journal') : Journal'[i].gen <= mem'.gen
  BY <1>0, <1>1, <1>2 DEF GenerationInvariant
<1>11. Rising' /\ OwnEvents(archive)' /\ OwnEvents(current)'
  BY <1>1 DEF GenerationInvariant, Rising, OwnEvents
<1> QED  BY <1>1, <1>4, <1>7, <1>8, <1>9, <1>10, <1>11 DEF GenerationInvariant, OwnRegistry

\* Commands that the registry knows may be recorded again by a process that runs.
LEMMA OwnKnown ==
  ASSUME DeliveryInvariant, GenerationInvariant, Live, proc # "starting",
         NEW S \in SUBSET Commands, \A c \in S : mem.cmds[c] # "unknown", NEW to \in Statuses
  PROVE  Moves(S, to) \in Seq(OwnItems)
  BY OwnMoves DEF GenerationInvariant, OwnRegistry

\* So may requests.
LEMMA OwnMail ==
  ASSUME NEW c \in Mail, NEW to \in Statuses
  PROVE  Moves({c}, to) \in Seq(OwnItems)
  BY OwnMoves, MailIsNoGeneration, MailIsCommands

LEMMA GenerationLoop ==
  ASSUME DeliveryInvariant, GenerationInvariant,
         \/ \E c \in Mail : Scan(c) \/ Response(c)
         \/ InitialResponse \/ AgentStart
         \/ \E outcome \in Outcomes : AgentSettled(outcome)
  PROVE  GenerationInvariant'
<1>0. Idle /\ Live /\ Live' /\ proc' # "starting" /\ proc # "starting" /\ UNCHANGED <<disk, mem>>
  BY WorkerLives DEF Scan, Response, InitialResponse, AgentStart, AgentSettled, Idle, Live
<1>1. ASSUME NEW c \in Mail, Scan(c)  PROVE work' \in Seq(OwnItems)
  BY <1>1, OwnOthers DEF Scan
<1>2. ASSUME NEW c \in Mail, Response(c)  PROVE work' \in Seq(OwnItems)
  <2>1. \A to \in {"rejected", "accepted", "completed"} :
          Moves({c}, to) \in Seq(OwnItems) /\ Ack(c, to) \in Seq(OwnItems)
    BY OwnMail, OwnOthers, StatusNames
  <2>2. Moves({c}, "accepted") \o Moves({c}, "completed") \in Seq(OwnItems)
    BY <2>1, OwnJoin
  <2>3. \/ work' = Moves({c}, "rejected") \o Ack(c, "rejected")
        \/ work' = Moves({c}, "accepted") \o Ack(c, "accepted")
        \/ work' = Moves({c}, "accepted") \o Moves({c}, "completed") \o Ack(c, "completed")
    BY <1>2 DEF Response
  <2> QED  BY <2>1, <2>2, <2>3, OwnJoin
<1>3. ASSUME InitialResponse  PROVE work' \in Seq(OwnItems)
  <2>1. mem.gen \in Commands /\ mem.cmds[mem.gen] # "unknown"
    BY <1>3 DEF InitialResponse, Commands
  <2>2. Moves({mem.gen}, "accepted") \in Seq(OwnItems) /\ Moves({mem.gen}, "rejected") \in Seq(OwnItems)
    BY <1>0, <2>1, OwnKnown, StatusNames
  <2> QED  BY <1>3, <2>2, OwnOthers, OwnJoin DEF InitialResponse
<1>4. ASSUME AgentStart  PROVE work' \in Seq(OwnItems)
  <2>1. Active(mem) \cap Of(mem, {"accepted"}) \in SUBSET Commands
    BY DEF Of
  <2>2. Moves(Active(mem) \cap Of(mem, {"accepted"}), "started") \in Seq(OwnItems)
    BY <1>0, <2>1, OwnKnown, StatusNames DEF Of
  <2> QED  BY <1>4, <2>2, OwnOthers, StatusNames, OwnJoin DEF AgentStart
<1>5. ASSUME NEW outcome \in Outcomes, AgentSettled(outcome)  PROVE work' \in Seq(OwnItems)
  <2>1. Active(mem) \in SUBSET Commands /\ \A c \in Active(mem) : mem.cmds[c] # "unknown"
    BY DEF Of, Active
  <2>2. (IF aborting THEN "aborted" ELSE outcome) \in Statuses
    BY ConstantAssumption, StatusNames
  <2>3. Moves(Active(mem), IF aborting THEN "aborted" ELSE outcome) \in Seq(OwnItems)
    BY <1>0, <2>1, <2>2, OwnKnown
  <2> QED  BY <1>5, <2>3, OwnOthers, StatusNames, OwnJoin DEF AgentSettled
<1> QED  BY <1>0, <1>1, <1>2, <1>3, <1>4, <1>5, GenerationGoesOn DEF disk

LEMMA GenerationItem ==
  ASSUME DeliveryInvariant, GenerationInvariant,
         Begin \/ Read \/ Send \/ Acknowledge \/ Unlink \/ Fail \/ GiveUp
  PROVE  GenerationInvariant'
<1>0. /\ work \in Seq(Items) /\ pending \subseteq Mail /\ work # <<>> /\ mem \in Registry
      /\ Head(work).op \notin {"move", "note"} /\ Head(work) \in Items
  BY HeadType DEF DeliveryInvariant, TypeOK, Begin, Read, Send, Acknowledge, Unlink, Fail, GiveUp, At
<1>1. Rest \in Seq(OwnItems) /\ Head(work) \in OwnItems
  BY <1>0, OwnHead DEF Opening
<1>2. Live /\ UNCHANGED <<disk, mem>>
  BY <1>0, WorkerLives DEF Begin, Read, Send, Acknowledge, Unlink, Fail, GiveUp
<1>3. ASSUME Begin  PROVE GenerationInvariant'
  <2>1. Subject \in Commands /\ Head(work).op = "begin" /\ Head(work).cmds = {Subject}
    BY <1>0, <1>3, SubjectType DEF Begin, At
  <2>2. Subject \in Generations => Subject = mem.gen
    BY <1>1, <2>1 DEF OwnItems
  <2>3. proc' # "starting" /\ Item("move", {Subject}, "received") \in Items
    BY <1>3, <2>1, StatusNames DEF Begin, Item, Items
  <2>4. Moves({Subject}, "received") \in Seq(OwnItems')
    <3>1. mem'.gen = mem.gen /\ mem.gen \in Nat
      BY <1>0, <1>2, RegistryFields
    <3>2. Item("move", {Subject}, "received") \in OwnItems'
      BY <2>2, <2>3, <3>1 DEF Item, OwnItems
    <3> QED  BY <3>2 DEF Moves
  <2>5. Do("send", Subject) \in Seq(OwnItems') /\ Finally("clean") \in Seq(OwnItems')
    <3>1. mem'.gen = mem.gen
      BY <1>2
    <3>2. Item("send", {Subject}, "") \in Items
      BY <2>1 DEF Item, Items
    <3>3. Item("send", {Subject}, "") \in OwnItems'
      BY <2>2, <2>3, <3>1, <3>2 DEF Item, OwnItems
    <3>4. <<Item("send", {Subject}, "")>> \in Seq(OwnItems')
      BY <3>3, OneItem
    <3>5. Finally("clean") \in Seq(OwnItems')
      BY <1>0, <2>3, OwnFinally
    <3> QED  BY <3>4, <3>5 DEF Do
  <2>6. work' \in Seq(OwnItems')
    BY <1>3, <2>4, <2>5, ConcatProperties DEF Begin
  <2> QED  BY <1>2, <1>3, <2>3, <2>6, GenerationGoesOn DEF disk, Live, Begin
<1>4. ASSUME Read  PROVE work' \in Seq(OwnItems)
  <2>1. Subject \in Mail /\ Subject \in Commands
    BY <1>0, <1>4, SubjectType, MailIsCommands DEF Read
  <2>2. Ack(Subject, "refused") \in Seq(OwnItems)
    BY <2>1, OwnOthers, StatusNames
  <2>3. Refused(Subject) \in Seq(OwnItems)
    BY <2>2, OwnEmpty DEF Refused
  <2>4. ASSUME Subject \in Known(mem)  PROVE Repeated(Subject) \in Seq(OwnItems)
    <3>1. mem.cmds[Subject] \in Statuses
      BY <1>0, <2>1, <2>4, RegistryFields DEF Known, Of
    <3>2. mem.cmds[Subject] # "received" => Ack(Subject, mem.cmds[Subject]) \in Seq(OwnItems)
      BY <2>1, <3>1, OwnOthers, StatusNames
    <3> QED  BY <2>3, <3>2, OwnEmpty DEF Repeated
  <2>5. Taken(Subject) \in Seq(OwnItems)
    BY <2>1, OwnMail, OwnOthers, MailIsNoGeneration, StatusNames, OwnJoin DEF Taken
  <2>6. Do("unlink", Subject) \in Seq(OwnItems)
    BY <2>1, OwnOthers
  <2>7. \E s \in Seq(OwnItems) : work' = s \o Do("unlink", Subject)
    <3>1. CASE Subject \notin inbox
      BY <1>4, <2>3, <3>1 DEF Read
    <3>2. CASE Subject \in inbox /\ Subject \in Known(mem)
      BY <1>4, <2>4, <3>2 DEF Read
    <3>3. CASE Subject \in inbox /\ Subject \notin Known(mem) /\ Full(mem)
      BY <1>4, <2>2, <3>3 DEF Read
    <3>4. CASE Subject \in inbox /\ Subject \notin Known(mem) /\ ~Full(mem)
      BY <1>4, <2>5, <3>4 DEF Read
    <3> QED  BY <3>1, <3>2, <3>3, <3>4
  <2> QED  BY <2>6, <2>7, OwnJoin
<1>5. ASSUME Send \/ Acknowledge \/ Unlink \/ Fail  PROVE work' \in Seq(OwnItems')
  <2>1. proc' = "starting" => proc = "starting"
    BY <1>5 DEF Send, Acknowledge, Unlink, Fail
  <2>2. Subject \in Mail => Moves({Subject}, "uncertain") \in Seq(OwnItems) /\ Ack(Subject, "uncertain") \in Seq(OwnItems)
    BY OwnMail, OwnOthers, StatusNames
  <2>3. Subject \in Mail => Moves({Subject}, "uncertain") \o Ack(Subject, "uncertain") \o Rest \in Seq(OwnItems)
    BY <1>1, <2>2, OwnJoin
  <2>4. proc' = "closing" => Finally("failed") \in Seq(OwnItems')
    BY <1>0, OwnFinally
  <2>5. \/ work' = Rest
        \/ Subject \in Mail /\ work' = Moves({Subject}, "uncertain") \o Ack(Subject, "uncertain") \o Rest
        \/ proc' = "closing" /\ work' = Finally("failed")
    BY <1>5 DEF Send, Acknowledge, Unlink, Fail
  <2> QED  BY <1>1, <1>2, <2>1, <2>3, <2>4, <2>5, OwnStays
<1>6. ASSUME GiveUp  PROVE proc # "starting"
  BY <1>1, <1>6 DEF GiveUp, At, OwnItems
<1>7. ASSUME GiveUp, proc # "starting"  PROVE work' \in Seq(OwnItems)
  <2>1. Head(work).op = "giveup" /\ Head(work).cmds \subseteq Mail /\ Head(work).to \in {"failed", "clean"}
    BY <1>0, <1>7, ItemFields DEF GiveUp, At
  <2>2. ASSUME NEW how \in {"failed", "clean"}  PROVE CloseItems(how) \in Seq(OwnItems)
    <3> DEFINE failed == IF how = "failed" THEN Of(mem, {"accepted", "started"}) ELSE {}
    <3>1. /\ failed \in SUBSET Commands /\ Of(mem, Open) \ failed \in SUBSET Commands
          /\ \A c \in failed : mem.cmds[c] # "unknown"
          /\ \A c \in Of(mem, Open) \ failed : mem.cmds[c] # "unknown"
      BY DEF Of, Open
    <3>2. Moves(failed, "failed") \in Seq(OwnItems) /\ Moves(Of(mem, Open) \ failed, "uncertain") \in Seq(OwnItems)
      BY <1>2, <1>7, <3>1, OwnKnown, StatusNames
    <3> QED  BY <3>2, OwnOthers, StatusNames, OwnJoin DEF CloseItems
  <2>3. ASSUME NEW c \in Head(work).cmds
        PROVE  ((IF acks[c] # "none" THEN <<>>
                ELSE Moves({c} \cap Of(mem, Open), "uncertain") \o Ack(c, "uncertain"))
                \o <<[Head(work) EXCEPT !.cmds = @ \ {c}]>>) \in Seq(OwnItems)
    <3>1. c \in Mail /\ ({c} \cap Of(mem, Open) = {c} \/ {c} \cap Of(mem, Open) = {})
      BY <2>1
    <3>2. Moves({c} \cap Of(mem, Open), "uncertain") \in Seq(OwnItems) /\ Ack(c, "uncertain") \in Seq(OwnItems)
      BY <3>1, OwnMail, OwnOthers, OwnEmpty, StatusNames DEF Moves
    <3>3. [Head(work) EXCEPT !.cmds = @ \ {c}] \in OwnItems
      BY <1>1, <2>1 DEF OwnItems, Items
    <3>4. <<[Head(work) EXCEPT !.cmds = @ \ {c}]>> \in Seq(OwnItems)
      BY <3>3, OwnOne
    <3>5. (IF acks[c] # "none" THEN <<>>
           ELSE Moves({c} \cap Of(mem, Open), "uncertain") \o Ack(c, "uncertain")) \in Seq(OwnItems)
      BY <3>2, OwnEmpty, OwnJoin
    <3> QED  BY <3>4, <3>5, OwnJoin
  <2> QED  BY <1>7, <2>1, <2>2, <2>3 DEF GiveUp
<1>8. ASSUME ~Begin, work' \in Seq(OwnItems) \/ work' \in Seq(OwnItems')  PROVE GenerationInvariant'
  <2>1. proc' = proc \/ proc' = "closing"
    BY <1>8 DEF Read, Send, Acknowledge, Unlink, Fail, GiveUp
  <2> QED  BY <1>2, <1>8, <2>1, GenerationGoesOn DEF disk, Live
<1> QED  BY <1>3, <1>4, <1>5, <1>6, <1>7, <1>8

LEMMA GenerationEnding ==
  ASSUME DeliveryInvariant, GenerationInvariant, NEW how \in {"failed", "clean"}, Finish(how) \/ Interrupt(how)
  PROVE  GenerationInvariant'
<1>1. /\ Live /\ Live' /\ proc # "starting" /\ proc' # "starting" /\ pending \subseteq Mail
      /\ UNCHANGED <<disk, mem>> /\ work \in Seq(Items)
  BY WorkerLives DEF DeliveryInvariant, TypeOK, Finish, Interrupt, Live
<1>2. work \in Seq(OwnItems)
  BY <1>1 DEF GenerationInvariant, Opening
<1>3. Finally(how) \in Seq(OwnItems')
  BY <1>1, OwnFinally
<1>4. (IF work # <<>> /\ work[Len(work)].op = "unlink" THEN <<work[Len(work)]>> ELSE <<>>) \in Seq(OwnItems)
  BY <1>2, OwnOne, OwnEmpty
<1>5. (IF work # <<>> /\ work[Len(work)].op = "unlink" THEN <<work[Len(work)]>> ELSE <<>>) \in Seq(OwnItems')
  BY <1>1, <1>4, OwnStays
<1>6. work' \in Seq(OwnItems')
  BY <1>3, <1>5, ConcatProperties DEF Finish, Interrupt
<1> QED  BY <1>1, <1>6, GenerationGoesOn DEF disk

LEMMA GenerationNext ==
  ASSUME DeliveryInvariant, GenerationInvariant, [Next]_vars
  PROVE  GenerationInvariant'
<1>1. ASSUME Crash \/ Exit \/ TearAppend  PROVE GenerationInvariant'
  BY <1>1, GenerationGone DEF Crash, Exit, TearAppend, disk
<1>2. ASSUME Record  PROVE GenerationInvariant'
  BY <1>1, <1>2, GenerationRotate, GenerationAppend, GenerationSave DEF Record
<1>3. ASSUME Handler  PROVE GenerationInvariant'
  BY <1>1, <1>3, GenerationLoop, GenerationItem DEF Handler
<1>4. ASSUME Ending  PROVE GenerationInvariant'
  BY <1>1, <1>4, GenerationStop, GenerationEnding DEF Ending
<1>5. ASSUME UNCHANGED <<archive, current, saved, process>>  PROVE GenerationInvariant'
  BY <1>5, GenerationGoesOn DEF process, Live
<1>6. ASSUME \E k \in Clients : Client(k)  PROVE UNCHANGED <<archive, current, saved, process>>
  BY <1>6 DEF Client, Ask, Post, Leave, Vanish, disk
<1>7. ASSUME Pi  PROVE UNCHANGED <<archive, current, saved, process>>
  BY <1>7 DEF Pi, Decide, PiDies, disk
<1>8. ASSUME UNCHANGED vars  PROVE UNCHANGED <<archive, current, saved, process>>
  BY <1>8 DEF vars, disk
<1> QED  BY <1>2, <1>3, <1>4, <1>5, <1>6, <1>7, <1>8, GenerationStart DEF Next

THEOREM GenerationsHold == Spec => []GenerationInvariant
<1>1. DeliveryInvariant /\ GenerationInvariant /\ [Next]_vars => GenerationInvariant'
  BY GenerationNext
<1> QED  BY <1>1, GenerationInit, DeliveryHolds, PTL DEF Spec

\* No two generations of a run have the same number, whatever the registry missed: the
\* number names a generation's initial prompt, and an answer to that of one would
\* otherwise count for the other.
THEOREM GenerationsAreDistinct == Spec => []GenerationsDistinct
<1>1. TypeOK /\ GenerationInvariant => GenerationsDistinct
  <2> SUFFICES ASSUME TypeOK, GenerationInvariant, NEW i \in DOMAIN Journal, NEW j \in DOMAIN Journal,
                      Journal[i].kind = "supervisor_started", Journal[j].kind = "supervisor_started",
                      Journal[i].gen = Journal[j].gen, i # j
               PROVE  FALSE
    BY DEF GenerationsDistinct
  <2>1. Journal \in Seq(Event) /\ i \in 1..Len(Journal) /\ j \in 1..Len(Journal)
    BY JournalType DEF TypeOK
  <2>2. Journal[i].gen \in Nat /\ Journal[j].gen \in Nat
    BY <2>1, EventFields
  <2>3. ~(i < j) /\ ~(j < i)
    BY <2>1, <2>2 DEF GenerationInvariant, Rising
  <2> QED  BY <2>1, <2>3
<1> QED  BY <1>1, TypeCorrect, GenerationsHold, PTL

-----------------------------------------------------------------------------
(* Handlers: what one may hold, and whose the open commands are.            *)

\* An item that the registry lets happen, if the commands' statuses are st by then.
Fits(it, st) ==
  /\ it.op = "move" => \A c \in it.cmds : Permitted(st[c], it.to)
  /\ it.op = "send" => \A c \in it.cmds : st[c] = "received"
Carried(it, st) ==
  [c \in Commands |-> IF it.op = "move" /\ c \in it.cmds THEN it.to ELSE st[c]]
Receives(it) == it.op = "move" /\ it.to = "received"

\* Items that touch no command's status and deliver nothing.
Calm == {it \in Items : it.op \notin {"move", "send"}}

\* A handler moves or sends with its first item, or with its first two; what is
\* recorded as received is sent next.
Single(s, st) ==
  s # <<>> => Fits(Head(s), st) /\ ~Receives(Head(s)) /\ Tail(s) \in Seq(Calm)
Doable(s, st) ==
  s # <<>> =>
    /\ Fits(Head(s), st)
    /\ Single(Tail(s), Carried(Head(s), st))
    /\ Head(s).op = "send" => Tail(s) \in Seq(Calm)
    /\ Receives(Head(s)) => /\ Tail(s) # <<>>
                            /\ Head(Tail(s)).op = "send" /\ Head(Tail(s)).cmds = Head(s).cmds

\* What is done in which part of the program.
PhaseItems ==
  {it \in Items :
     /\ it.op = "begin" => proc = "starting" /\ it.cmds \subseteq Generations
     /\ it.op = "giveup" => proc = "closing"
     /\ proc = "starting" => it.op \in {"note", "begin"} \/ (it.op = "move" /\ it.to = "uncertain")
     /\ proc = "running" /\ it.op = "move" => it.cmds \cap pending = {}}

Moving(it, c) == it.op = "move" /\ c \in it.cmds
Clears(s)     == s # <<>> /\ \A c \in Of(mem, Open) : Moving(Head(s), c)

\* Before its generation begins a supervisor closes what earlier ones left open.
Starting ==
  /\ proc \in {"down", "starting"} => pending = {}
  /\ proc = "starting" => \/ Of(mem, Open) = {}
                          \/ Clears(work)
                          \/ work # <<>> /\ Head(work).op = "note" /\ Clears(Tail(work))

\* What is waited for was received, and this supervisor's Pi has it.
Waiting ==
  proc = "running" => \A c \in pending : mem.cmds[c] = "received" /\ sent[c] = <<mem.gen>>

\* A command is being sent to Pi, or that has failed.
Underway(c) ==
  /\ work # <<>> /\ c \in Head(work).cmds
  /\ Head(work).op = "send" \/ (Head(work).op = "move" /\ Head(work).to = "uncertain")

Ours ==
  proc = "running" => \A c \in Of(mem, Open) :
    \/ Underway(c)
    \/ /\ sent[c] = <<mem.gen>>
       /\ mem.cmds[c] = "received" =>
            c \in pending \cup {mem.gen} \/ (work # <<>> /\ Moving(Head(work), c))

HandlerInvariant ==
  Doable(work, mem.cmds) /\ work \in Seq(PhaseItems) /\ Starting /\ Waiting /\ Ours

-----------------------------------------------------------------------------
(* Doable handlers.                                                         *)

LEMMA CalmParts ==
  ASSUME NEW s \in Seq(Calm), s # <<>>
  PROVE  Head(s) \in Calm /\ Tail(s) \in Seq(Calm)
  OBVIOUS

LEMMA CalmFits ==
  ASSUME NEW it \in Calm, NEW st
  PROVE  it \in Items /\ Fits(it, st) /\ ~Receives(it) /\ it.op # "send"
  BY DEF Calm, Fits, Receives

LEMMA CalmIsSingle ==
  ASSUME NEW s \in Seq(Calm), NEW st
  PROVE  Single(s, st)
  BY CalmParts, CalmFits DEF Single

LEMMA SingleIsDoable ==
  ASSUME NEW s, NEW st, Single(s, st)
  PROVE  Doable(s, st)
<1> SUFFICES ASSUME s # <<>>
             PROVE  /\ Single(Tail(s), Carried(Head(s), st))
                    /\ Fits(Head(s), st) /\ ~Receives(Head(s)) /\ Tail(s) \in Seq(Calm)
  BY DEF Doable
<1> QED  BY CalmIsSingle DEF Single

LEMMA CalmIsDoable ==
  ASSUME NEW s \in Seq(Calm), NEW st
  PROVE  Doable(s, st)
  BY CalmIsSingle, SingleIsDoable

LEMMA OneFirst ==
  ASSUME NEW S, NEW a \in S, NEW t \in Seq(S)
  PROVE  /\ <<a>> \o t \in Seq(S) /\ <<a>> \o t # <<>>
         /\ Head(<<a>> \o t) = a /\ Tail(<<a>> \o t) = t
  OBVIOUS

LEMMA ItemsJoin ==
  ASSUME NEW a \in Seq(Items), NEW b \in Seq(Items)
  PROVE  a \o b \in Seq(Items)
  BY ConcatProperties

LEMMA ThreeJoined ==
  ASSUME NEW a \in Seq(Items), NEW b \in Seq(Items), NEW c \in Seq(Items)
  PROVE  a \o b \o c = a \o (b \o c)
  BY ConcatAssociative

LEMMA CalmItems == \A s \in Seq(Calm) : s \in Seq(Items)
<1>1. Calm \subseteq Items
  BY DEF Calm
<1> QED  BY <1>1, SeqMonotonic

LEMMA CalmJoin ==
  ASSUME NEW s \in Seq(Calm), NEW t \in Seq(Calm)
  PROVE  s \o t \in Seq(Calm)
  BY ConcatProperties

\* One record and then what changes no status.
LEMMA OneThenCalm ==
  ASSUME NEW a \in Items, NEW t \in Seq(Calm), NEW st, Fits(a, st), ~Receives(a)
  PROVE  Single(<<a>> \o t, st)
<1>1. <<a>> \o t # <<>> /\ Head(<<a>> \o t) = a /\ Tail(<<a>> \o t) = t
  BY CalmItems, OneFirst
<1> QED  BY <1>1 DEF Single

LEMMA OneThenSingle ==
  ASSUME NEW a \in Items, NEW t \in Seq(Items), NEW st, Fits(a, st), ~Receives(a), a.op # "send",
         Single(t, Carried(a, st))
  PROVE  Doable(<<a>> \o t, st)
<1>1. <<a>> \o t # <<>> /\ Head(<<a>> \o t) = a /\ Tail(<<a>> \o t) = t
  BY OneFirst
<1> QED  BY <1>1 DEF Doable

LEMMA MoveFits ==
  ASSUME NEW S \in SUBSET Commands, NEW to \in Statuses \ {"received"}, NEW st,
         \A c \in S : Permitted(st[c], to)
  PROVE  /\ Item("move", S, to) \in Items /\ Fits(Item("move", S, to), st)
         /\ ~Receives(Item("move", S, to)) /\ Item("move", S, to).op = "move"
         /\ Item("move", S, to).cmds = S /\ Item("move", S, to).to = to
  BY DEF Item, Items, Fits, Receives

LEMMA NothingFirst == \A s \in Seq(Items) : <<>> \o s = s
  OBVIOUS

LEMMA MovesThenCalm ==
  ASSUME NEW S \in SUBSET Commands, NEW to \in Statuses \ {"received"}, NEW st,
         \A c \in S : Permitted(st[c], to), NEW t \in Seq(Calm)
  PROVE  Single(Moves(S, to) \o t, st) /\ Moves(S, to) \o t \in Seq(Items)
<1> DEFINE m == Item("move", S, to)
<1>1. m \in Items /\ Fits(m, st) /\ ~Receives(m)
  BY MoveFits
<1>2. t \in Seq(Items)
  BY CalmItems
<1>3. Moves(S, to) = IF S = {} THEN <<>> ELSE <<m>>
  BY DEF Moves
<1> HIDE DEF m
<1>4. Single(<<m>> \o t, st) /\ <<m>> \o t \in Seq(Items)
  BY <1>1, <1>2, OneThenCalm, OneFirst
<1>5. Single(t, st)
  BY CalmIsSingle
<1> QED  BY <1>2, <1>3, <1>4, <1>5, NothingFirst

LEMMA MovesThenSingle ==
  ASSUME NEW S \in SUBSET Commands, NEW to \in Statuses \ {"received"},
         NEW st \in [Commands -> Statuses \cup {"unknown"}],
         \A c \in S : Permitted(st[c], to), NEW t \in Seq(Items),
         Single(t, [c \in Commands |-> IF c \in S THEN to ELSE st[c]])
  PROVE  Doable(Moves(S, to) \o t, st)
<1> DEFINE m == Item("move", S, to)
<1>1. m \in Items /\ Fits(m, st) /\ ~Receives(m) /\ m.op = "move" /\ m.cmds = S /\ m.to = to
  BY MoveFits
<1>2. Carried(m, st) = [c \in Commands |-> IF c \in S THEN to ELSE st[c]]
  BY <1>1 DEF Carried
<1>3. S = {} => [c \in Commands |-> IF c \in S THEN to ELSE st[c]] = st
  OBVIOUS
<1>4. Moves(S, to) = IF S = {} THEN <<>> ELSE <<m>>
  BY DEF Moves
<1> HIDE DEF m
<1>5. Doable(<<m>> \o t, st)
  BY <1>1, <1>2, OneThenSingle
<1>6. S = {} => Doable(t, st)
  BY <1>3, SingleIsDoable
<1> QED  BY <1>4, <1>5, <1>6, NothingFirst

\* A record of a command and its delivery.
LEMMA ReceivedIsSent ==
  ASSUME NEW c \in Commands, NEW st, st[c] = "unknown", NEW t \in Seq(Calm)
  PROVE  Doable(Moves({c}, "received") \o Do("send", c) \o t, st)
<1> DEFINE m == Item("move", {c}, "received")
           d == Item("send", {c}, "")
<1>1. m \in Items /\ d \in Items /\ Fits(m, st) /\ m.op = "move" /\ Receives(m) /\ m.cmds = {c}
  BY StatusNames DEF Item, Items, Fits, Receives, Permitted
<1>2. Fits(d, Carried(m, st)) /\ ~Receives(d) /\ d.op = "send" /\ d.cmds = {c}
  BY DEF Item, Fits, Carried, Receives
<1>3. Moves({c}, "received") \o Do("send", c) \o t = <<m>> \o <<d>> \o t
  BY DEF Moves, Do
<1> HIDE DEF m, d
<1>4. t \in Seq(Items)
  BY CalmItems
<1>5. <<m>> \o <<d>> \o t = <<m>> \o (<<d>> \o t)
  BY <1>1, <1>4
<1>6. /\ <<d>> \o t \in Seq(Items) /\ <<d>> \o t # <<>>
      /\ Head(<<d>> \o t) = d /\ Tail(<<d>> \o t) = t
  BY <1>1, <1>4, OneFirst
<1>7. Single(<<d>> \o t, Carried(m, st))
  BY <1>1, <1>2, OneThenCalm
<1> DEFINE u == <<d>> \o t
<1> HIDE DEF u
<1>8. <<m>> \o u # <<>> /\ Head(<<m>> \o u) = m /\ Tail(<<m>> \o u) = u
  BY <1>1, <1>6, OneFirst DEF u
<1>9. m.op # "send" /\ u # <<>> /\ Head(u).op = "send" /\ Head(u).cmds = m.cmds /\ Single(u, Carried(m, st))
  BY <1>1, <1>2, <1>6, <1>7 DEF u
<1>10. Doable(<<m>> \o u, st)
  BY <1>1, <1>8, <1>9 DEF Doable
<1> QED  BY <1>3, <1>5, <1>10 DEF u

-----------------------------------------------------------------------------
(* The parts of the program.                                                *)

LEMMA PhaseOne ==
  ASSUME NEW it \in Items, it.op \notin {"begin", "giveup"}, proc' # "starting",
         proc' = "running" /\ it.op = "move" => it.cmds \cap pending' = {}
  PROVE  <<it>> \in Seq(PhaseItems')
<1>1. it \in PhaseItems'
  BY DEF PhaseItems
<1> QED  BY <1>1, OneItem

LEMMA CalmOne ==
  ASSUME NEW it \in Items, it.op \notin {"move", "send", "begin", "giveup"}, proc' # "starting"
  PROVE  <<it>> \in Seq(PhaseItems') /\ <<it>> \in Seq(Calm)
<1>1. it \in Calm
  BY DEF Calm
<1> QED  BY <1>1, PhaseOne, OneItem

\* Items that fit into every part but the first.
LEMMA CalmKinds ==
  ASSUME proc' # "starting"
  PROVE  /\ \A kind \in Lifecycle : Note(kind) \in Seq(PhaseItems') /\ Note(kind) \in Seq(Calm)
         /\ \A c \in Mail : /\ Do("read", c) \in Seq(PhaseItems') /\ Do("read", c) \in Seq(Calm)
                            /\ Do("unlink", c) \in Seq(PhaseItems') /\ Do("unlink", c) \in Seq(Calm)
         /\ \A c \in Mail, value \in AckValues :
              Ack(c, value) \in Seq(PhaseItems') /\ Ack(c, value) \in Seq(Calm)
         /\ Only("fail") \in Seq(PhaseItems') /\ Only("fail") \in Seq(Calm)
         /\ Only("exit") \in Seq(PhaseItems') /\ Only("exit") \in Seq(Calm)
<1>1. ASSUME NEW kind \in Lifecycle  PROVE Note(kind) \in Seq(PhaseItems') /\ Note(kind) \in Seq(Calm)
  <2>1. Item("note", {}, kind) \in Items /\ Item("note", {}, kind).op = "note"
    BY DEF Item, Items
  <2> QED  BY <2>1, CalmOne DEF Note
<1>2. ASSUME NEW c \in Mail, NEW op \in {"read", "unlink"}
      PROVE  Do(op, c) \in Seq(PhaseItems') /\ Do(op, c) \in Seq(Calm)
  <2>1. Item(op, {c}, "") \in Items /\ Item(op, {c}, "").op = op
    BY DEF Item, Items
  <2> QED  BY <2>1, CalmOne DEF Do
<1>3. ASSUME NEW c \in Mail, NEW value \in AckValues
      PROVE  Ack(c, value) \in Seq(PhaseItems') /\ Ack(c, value) \in Seq(Calm)
  <2>1. Item("ack", {c}, value) \in Items /\ Item("ack", {c}, value).op = "ack"
    BY DEF Item, Items
  <2> QED  BY <2>1, CalmOne DEF Ack
<1>4. ASSUME NEW op \in {"fail", "exit"}  PROVE Only(op) \in Seq(PhaseItems') /\ Only(op) \in Seq(Calm)
  <2>1. Item(op, {}, "") \in Items /\ Item(op, {}, "").op = op
    BY DEF Item, Items
  <2> QED  BY <2>1, CalmOne DEF Only
<1> QED  BY <1>1, <1>2, <1>3, <1>4

LEMMA PhaseMoves ==
  ASSUME NEW S \in SUBSET Commands, NEW to \in Statuses, proc' # "starting",
         proc' = "running" => S \cap pending' = {}
  PROVE  Moves(S, to) \in Seq(PhaseItems')
<1> DEFINE m == Item("move", S, to)
<1>1. m \in Items /\ m.op = "move" /\ m.cmds = S
  BY DEF Item, Items
<1>2. Moves(S, to) = IF S = {} THEN <<>> ELSE <<m>>
  BY DEF Moves
<1> HIDE DEF m
<1>3. <<m>> \in Seq(PhaseItems') /\ <<>> \in Seq(PhaseItems')
  BY <1>1, PhaseOne
<1> QED  BY <1>2, <1>3

LEMMA PhaseSend ==
  ASSUME NEW c \in Commands, proc' # "starting"
  PROVE  Do("send", c) \in Seq(PhaseItems')
<1>1. Item("send", {c}, "") \in Items /\ Item("send", {c}, "").op = "send"
  BY DEF Item, Items
<1> QED  BY <1>1, PhaseOne DEF Do

LEMMA PhaseJoin ==
  ASSUME NEW s \in Seq(PhaseItems'), NEW t \in Seq(PhaseItems')
  PROVE  s \o t \in Seq(PhaseItems')
  BY ConcatProperties

LEMMA PhaseStays ==
  ASSUME proc' = proc, pending' \subseteq pending
  PROVE  \A s \in Seq(PhaseItems) : s \in Seq(PhaseItems')
<1>1. PhaseItems \subseteq PhaseItems'
  BY DEF PhaseItems
<1> QED  BY <1>1, SeqMonotonic

\* What was calm stays possible whatever is waited for.
LEMMA CalmStays ==
  ASSUME proc' = proc, NEW s \in Seq(PhaseItems), s \in Seq(Calm)
  PROVE  s \in Seq(PhaseItems')
<1>1. PhaseItems \cap Calm \subseteq PhaseItems'
  BY DEF PhaseItems, Calm
<1>2. s \in Seq(PhaseItems \cap Calm)
  OBVIOUS
<1> QED  BY <1>1, <1>2, SeqMonotonic

LEMMA PhaseFinally ==
  ASSUME pending \subseteq Mail, NEW how \in {"failed", "clean"}, proc' = "closing"
  PROVE  Finally(how) \in Seq(PhaseItems') /\ Finally(how) \in Seq(Calm)
<1>1. Item("giveup", pending, how) \in PhaseItems' /\ Item("giveup", pending, how) \in Calm
  BY DEF Item, Items, PhaseItems, Calm
<1> QED  BY <1>1, OneItem DEF Finally

\* Behind a head that neither moves nor sends, or that sends, the rest is a handler.
LEMMA RestDoable ==
  ASSUME HandlerInvariant, work # <<>>, Head(work).op # "move", work \in Seq(Items), mem \in Registry
  PROVE  /\ Doable(Rest, mem.cmds) /\ Rest \in Seq(PhaseItems)
         /\ Head(work).op = "send" => Rest \in Seq(Calm)
<1>1. /\ Single(Rest, Carried(Head(work), mem.cmds))
      /\ Head(work).op = "send" => Rest \in Seq(Calm)
  BY DEF HandlerInvariant, Doable, Rest
<1>2. mem.cmds \in [Commands -> Statuses \cup {"unknown"}]
  BY DEF Registry
<1>3. Carried(Head(work), mem.cmds) = mem.cmds
  BY <1>2 DEF Carried
<1>4. Rest \in Seq(PhaseItems)
  BY DEF HandlerInvariant, Rest
<1> QED  BY <1>1, <1>3, <1>4, SingleIsDoable

-----------------------------------------------------------------------------
(* What kinds of steps do to the invariant.                                 *)

\* A process that comes to its end.
LEMMA HandlerEnds ==
  ASSUME proc' \in {"closing", "stopping"}, Doable(work', mem'.cmds), work' \in Seq(PhaseItems')
  PROVE  HandlerInvariant'
  BY DEF HandlerInvariant, Starting, Waiting, Ours

LEMMA HandlerGone ==
  ASSUME Gone
  PROVE  HandlerInvariant'
<1>1. Doable(<<>>, mem'.cmds) /\ <<>> \in Seq(PhaseItems')
  BY DEF Doable
<1> QED  BY <1>1 DEF Gone, HandlerInvariant, Starting, Waiting, Ours

\* Others move.
LEMMA HandlerRests ==
  ASSUME HandlerInvariant, UNCHANGED <<proc, mem, work, pending, sent>>
  PROVE  HandlerInvariant'
  BY DEF HandlerInvariant, PhaseItems, Starting, Clears, Waiting, Ours, Underway, Of

\* The main loop goes on with a new handler, or with the rest of one.
LEMMA HandlerGoesOn ==
  ASSUME HandlerInvariant, proc # "starting", proc # "down", UNCHANGED <<proc, mem, sent>>,
         work = <<>> \/ Head(work).op \notin {"move", "send"},
         pending' \subseteq pending,
         \A c \in pending \ pending' : work' # <<>> /\ Moving(Head(work'), c),
         Doable(work', mem.cmds), work' \in Seq(PhaseItems')
  PROVE  HandlerInvariant'
<1>1. Starting'
  BY DEF Starting
<1>2. Waiting'
  BY DEF HandlerInvariant, Waiting
<1>3. ASSUME NEW c \in Of(mem, Open), proc = "running"
      PROVE  /\ sent[c] = <<mem.gen>>
             /\ mem.cmds[c] = "received" => c \in pending \cup {mem.gen}
  BY <1>3 DEF HandlerInvariant, Ours, Underway, Moving
<1>4. Ours'
  BY <1>3 DEF Ours, Of
<1> QED  BY <1>1, <1>2, <1>4 DEF HandlerInvariant

-----------------------------------------------------------------------------
(* The steps preserve the handler's invariant.                              *)

LEMMA HandlerInit == Init => HandlerInvariant
<1>1. Doable(<<>>, mem.cmds) /\ <<>> \in Seq(PhaseItems)
  BY DEF Doable
<1> QED  BY <1>1 DEF Init, HandlerInvariant, Starting, Waiting, Ours

\* What is open may become uncertain.
LEMMA OpenMayEnd ==
  /\ \A st, c : st[c] \in Open => Permitted(st[c], "uncertain")
  /\ \A st, c : st[c] \in {"accepted", "started"} => Permitted(st[c], "failed")
  BY DEF Open, Permitted

LEMMA HandlerStart ==
  ASSUME DeliveryInvariant, HandlerInvariant, Start
  PROVE  HandlerInvariant'
<1>0. Replayed \in Registry
  BY ReplayedType, TypeParts DEF DeliveryInvariant, FilesOK
<1>1. /\ proc' = "starting" /\ pending' = {} /\ mem'.cmds = Replayed.cmds
      /\ NextGeneration \in Generations /\ NextGeneration \in Commands
  BY <1>0 DEF Start, HandlerInvariant, Starting, Registry, Commands
<1>2. Of(mem, Open)' = Of(Replayed, Open) /\ Of(Replayed, Open) \in SUBSET Commands
  BY <1>1 DEF Of
<1> DEFINE n == Item("note", {}, "supervisor_started")
           m == Item("move", Of(Replayed, Open), "uncertain")
           b == Item("begin", {NextGeneration}, "")
<1>3. /\ n \in Items /\ n.op = "note" /\ n \in PhaseItems' /\ n \in Calm
      /\ b \in Items /\ b \in PhaseItems' /\ b \in Calm
  BY <1>1 DEF Item, Items, PhaseItems, Calm, Lifecycle
<1>4. /\ m \in Items /\ m \in PhaseItems' /\ m.op = "move" /\ m.cmds = Of(Replayed, Open)
  BY <1>1, <1>2, StatusNames DEF Item, Items, PhaseItems
<1>5. Leftovers = IF Of(Replayed, Open) = {} THEN <<>> ELSE <<m>>
  BY DEF Leftovers, Moves
<1>6. work' = <<n>> \o Leftovers \o <<b>>
  BY DEF Start, Note, Do
<1>7. Single(Leftovers \o <<b>>, Replayed.cmds) /\ Leftovers \o <<b>> \in Seq(Items)
  <2>1. \A c \in Of(Replayed, Open) : Permitted(Replayed.cmds[c], "uncertain")
    BY OpenMayEnd DEF Of
  <2>2. <<b>> \in Seq(Calm)
    BY <1>3, OneItem
  <2> QED  BY <1>2, <2>1, <2>2, MovesThenCalm, StatusNames DEF Leftovers
<1> HIDE DEF n, m, b
<1>8. Leftovers \in Seq(Items) /\ <<b>> \in Seq(Items) /\ Leftovers \in Seq(PhaseItems') /\ <<b>> \in Seq(PhaseItems')
  BY <1>3, <1>4, <1>5
<1> DEFINE t == Leftovers \o <<b>>
<1>9. work' = <<n>> \o t
  BY <1>3, <1>6, <1>8
<1>10. t \in Seq(PhaseItems')
  BY <1>8, ConcatProperties
<1>11. Carried(n, Replayed.cmds) = Replayed.cmds
  <2>1. Replayed.cmds \in [Commands -> Statuses \cup {"unknown"}]
    BY <1>0 DEF Registry
  <2> QED  BY <1>3, <2>1 DEF Carried
<1>12. Of(Replayed, Open) # {} => t # <<>> /\ Head(t) = m
  BY <1>3, <1>4, <1>5
<1> HIDE DEF t
<1>13. Doable(work', mem'.cmds)
  <2>1. n \in Items /\ Fits(n, Replayed.cmds) /\ ~Receives(n) /\ n.op # "send"
    BY <1>3, CalmFits
  <2>2. t \in Seq(Items) /\ Single(t, Carried(n, Replayed.cmds))
    BY <1>7, <1>11 DEF t
  <2>3. Doable(<<n>> \o t, Replayed.cmds)
    BY <2>1, <2>2, OneThenSingle
  <2> QED  BY <1>1, <1>9, <2>3
<1>14. work' \in Seq(PhaseItems') /\ work' # <<>> /\ Head(work') = n /\ Tail(work') = t
  BY <1>3, <1>9, <1>10, OneFirst
<1>15. Of(Replayed, Open) # {} => Clears(Tail(work))'
  <2> SUFFICES ASSUME Of(Replayed, Open) # {}
               PROVE  Tail(work') # <<>> /\ \A c \in Of(mem, Open)' : Moving(Head(Tail(work')), c)
    BY DEF Clears
  <2> QED  BY <1>2, <1>4, <1>12, <1>14 DEF Moving
<1>16. Starting'
  BY <1>1, <1>2, <1>3, <1>14, <1>15 DEF Starting
<1> QED  BY <1>1, <1>13, <1>14, <1>16 DEF HandlerInvariant, Waiting, Ours

LEMMA HandlerStop ==
  ASSUME DeliveryInvariant, HandlerInvariant, Stop
  PROVE  HandlerInvariant'
<1>1. ASSUME ~Gone  PROVE HandlerInvariant'
  <2>1. proc' = "stopping" /\ mem' = Replayed /\ work' = StopItems
    BY <1>1 DEF Stop
  <2> DEFINE S == Of(Replayed, Open)
             t == (IF Replayed.closed THEN <<>> ELSE Note("supervisor_ended")) \o Only("exit")
  <2>2. S \in SUBSET Commands /\ \A c \in S : Permitted(Replayed.cmds[c], "uncertain")
    BY OpenMayEnd DEF Of
  <2>3. t \in Seq(Calm) /\ t \in Seq(PhaseItems')
    <3>1. /\ Note("supervisor_ended") \in Seq(Calm) /\ Note("supervisor_ended") \in Seq(PhaseItems')
          /\ Only("exit") \in Seq(Calm) /\ Only("exit") \in Seq(PhaseItems')
      BY <2>1, CalmKinds DEF Lifecycle
    <3>2. <<>> \in Seq(Calm) /\ <<>> \in Seq(PhaseItems')
      OBVIOUS
    <3> QED  BY <3>1, <3>2, CalmJoin, PhaseJoin
  <2>4. Moves(S, "uncertain") \in Seq(PhaseItems')
    BY <2>1, <2>2, PhaseMoves, StatusNames
  <2>5. work' = Moves(S, "uncertain") \o t
    <3>1. Moves(S, "uncertain") \in Seq(Items)
      BY <2>2, PlainMoves, StatusNames DEF Plain
    <3>2. Note("supervisor_ended") \in Seq(Items) /\ Only("exit") \in Seq(Items) /\ <<>> \in Seq(Items)
      BY PlainNote, PlainDo, EmptyType DEF Plain, Lifecycle
    <3>3. \A x, y, z \in Seq(Items) : x \o y \o z = x \o (y \o z)
      BY ThreeJoined
    <3> QED  BY <2>1, <3>1, <3>2, <3>3 DEF StopItems
  <2> HIDE DEF S, t
  <2>6. Doable(work', mem'.cmds)
    BY <2>1, <2>2, <2>3, <2>5, MovesThenCalm, SingleIsDoable, StatusNames
  <2> QED  BY <2>1, <2>3, <2>4, <2>5, <2>6, PhaseJoin, HandlerEnds
<1> QED  BY <1>1, HandlerGone

\* Between the main loop and its end.
LEMMA HandlerFinally ==
  ASSUME DeliveryInvariant, NEW how \in {"failed", "clean"}, proc' = "closing", mem' = mem,
         work' = Finally(how)
  PROVE  HandlerInvariant'
<1>1. Finally(how) \in Seq(PhaseItems') /\ Finally(how) \in Seq(Calm)
  BY PhaseFinally DEF DeliveryInvariant, TypeOK
<1> QED  BY <1>1, CalmIsDoable, HandlerEnds

LEMMA HandlerEnding ==
  ASSUME DeliveryInvariant, HandlerInvariant, NEW how \in {"failed", "clean"}, Finish(how) \/ Interrupt(how)
  PROVE  HandlerInvariant'
<1>1. ASSUME Interrupt(how)  PROVE HandlerInvariant'
  <2>1. proc' = "closing" /\ mem' = mem
    BY <1>1 DEF Interrupt
  <2>2. Finally(how) \in Seq(PhaseItems') /\ Finally(how) \in Seq(Calm)
    BY <2>1, PhaseFinally DEF DeliveryInvariant, TypeOK
  <2> DEFINE u == IF work # <<>> /\ work[Len(work)].op = "unlink" THEN <<work[Len(work)]>> ELSE <<>>
  <2>3. u \in Seq(PhaseItems') /\ u \in Seq(Calm)
    <3>1. work \in Seq(Items)
      BY DEF DeliveryInvariant, TypeOK
    <3>2. work # <<>> => work[Len(work)] \in Items
      BY <3>1
    <3>3. work # <<>> /\ work[Len(work)].op = "unlink"
          => <<work[Len(work)]>> \in Seq(PhaseItems') /\ <<work[Len(work)]>> \in Seq(Calm)
      BY <2>1, <3>2, CalmOne
    <3> QED  BY <3>3
  <2>4. work' = u \o Finally(how)
    BY <1>1 DEF Interrupt
  <2> HIDE DEF u
  <2>5. work' \in Seq(PhaseItems') /\ work' \in Seq(Calm)
    BY <2>2, <2>3, <2>4, PhaseJoin, CalmJoin
  <2> QED  BY <2>1, <2>5, CalmIsDoable, HandlerEnds
<1> QED  BY <1>1, HandlerFinally DEF Finish

LEMMA HandlerBegin ==
  ASSUME DeliveryInvariant, GenerationInvariant, HandlerInvariant, Begin
  PROVE  HandlerInvariant'
<1>1. /\ work \in Seq(Items) /\ work # <<>> /\ Head(work).op = "begin" /\ mem' = mem
      /\ Subject \in Commands /\ Head(work).cmds = {Subject}
  BY SubjectType DEF Begin, At, DeliveryInvariant, TypeOK
<1>2. Head(work) \in PhaseItems
  BY <1>1 DEF HandlerInvariant
<1>3. proc = "starting" /\ Subject \in Generations
  BY <1>1, <1>2 DEF PhaseItems
<1>4. Subject = mem.gen /\ mem.cmds[Subject] = "unknown"
  <2>1. Head(work) \in OwnItems
    BY <1>1 DEF GenerationInvariant, Opening
  <2> QED  BY <1>1, <1>3, <2>1 DEF OwnItems, GenerationInvariant
<1>5. Of(mem, Open) = {} /\ pending = {}
  BY <1>1, <1>3 DEF HandlerInvariant, Starting, Clears, Moving
<1>6. ASSUME Full(mem)  PROVE HandlerInvariant'
  BY <1>1, <1>6, HandlerFinally DEF Begin
<1>7. ASSUME ~Full(mem)  PROVE HandlerInvariant'
  <2>1. /\ proc' = "running" /\ pending' = {}
        /\ work' = Moves({Subject}, "received") \o Do("send", Subject)
    BY <1>5, <1>7 DEF Begin
  <2>2. Doable(work', mem'.cmds)
    <3>1. Doable(Moves({Subject}, "received") \o Do("send", Subject) \o <<>>, mem.cmds)
      <4>1. <<>> \in Seq(Calm)
        OBVIOUS
      <4> QED  BY <1>1, <1>4, <4>1, ReceivedIsSent
    <3>2. Moves({Subject}, "received") \o Do("send", Subject) \in Seq(Items)
      BY <1>1, TakenType
    <3>3. \A s \in Seq(Items) : s \o <<>> = s
      OBVIOUS
    <3> QED  BY <1>1, <2>1, <3>1, <3>2, <3>3
  <2>3. work' \in Seq(PhaseItems')
    BY <1>1, <2>1, PhaseMoves, PhaseSend, PhaseJoin, StatusNames
  <2>4. Of(mem, Open)' = {}
    BY <1>1, <1>5 DEF Of
  <2> QED  BY <2>1, <2>2, <2>3, <2>4 DEF HandlerInvariant, Starting, Waiting, Ours
<1> QED  BY <1>6, <1>7

LEMMA OwnsMail == \A c \in Mail : c \in Commands /\ {c} \in SUBSET Commands
  BY MailIsCommands

LEMMA HandlerLoop ==
  ASSUME DeliveryInvariant, HandlerInvariant,
         \/ \E c \in Mail : Scan(c) \/ Response(c)
         \/ InitialResponse \/ AgentStart
         \/ \E outcome \in Outcomes : AgentSettled(outcome)
  PROVE  HandlerInvariant'
<1>0. /\ work = <<>> /\ proc = "running" /\ UNCHANGED <<proc, mem, sent>>
      /\ pending \subseteq Mail /\ mem.cmds \in [Commands -> Statuses \cup {"unknown"}]
  BY DEF Scan, Response, InitialResponse, AgentStart, AgentSettled, Idle, pi, DeliveryInvariant, TypeOK, Registry
<1>1. ASSUME pending' \subseteq pending, \A c \in pending \ pending' : work' # <<>> /\ Moving(Head(work'), c),
             Doable(work', mem.cmds), work' \in Seq(PhaseItems')
      PROVE  HandlerInvariant'
  BY <1>0, <1>1, HandlerGoesOn
<1>2. ASSUME NEW c \in Mail, Scan(c)  PROVE HandlerInvariant'
  <2>1. work' = Do("read", c) /\ pending' = pending
    BY <1>2 DEF Scan
  <2>2. work' \in Seq(PhaseItems') /\ work' \in Seq(Calm)
    BY <1>0, <2>1, CalmKinds
  <2> QED  BY <1>1, <2>1, <2>2, CalmIsDoable
<1>3. ASSUME NEW c \in Mail, Response(c)  PROVE HandlerInvariant'
  <2>1. c \in pending /\ pending' = pending \ {c} /\ mem.cmds[c] = "received" /\ {c} \in SUBSET Commands
    BY <1>0, <1>3, OwnsMail DEF Response, HandlerInvariant, Waiting
  <2>2. {c} \cap pending' = {}
    BY <2>1
  <2>3. \A to \in {"rejected", "accepted", "completed"} :
          /\ Moves({c}, to) \in Seq(PhaseItems')
          /\ Ack(c, to) \in Seq(PhaseItems') /\ Ack(c, to) \in Seq(Calm)
          /\ to \in Statuses \ {"received"}
    BY <1>0, <2>1, <2>2, PhaseMoves, CalmKinds, StatusNames
  <2>4. ASSUME NEW to \in {"rejected", "accepted"}, NEW t \in Seq(Items)
        PROVE  /\ Permitted(mem.cmds[c], to)
               /\ Moves({c}, to) \o t # <<>> /\ Moving(Head(Moves({c}, to) \o t), c)
    <3>1. Permitted(mem.cmds[c], to)
      BY <2>1 DEF Permitted
    <3>2. Item("move", {c}, to) \in Items
      BY <2>1, StatusNames DEF Item, Items
    <3>3. Moves({c}, to) = <<Item("move", {c}, to)>>
      BY DEF Moves
    <3>4. Moves({c}, to) \o t # <<>> /\ Head(Moves({c}, to) \o t) = Item("move", {c}, to)
      BY <3>2, <3>3, OneFirst
    <3> QED  BY <3>1, <3>4 DEF Item, Moving
  <2>5. ASSUME NEW to \in {"rejected", "accepted"}, work' = Moves({c}, to) \o Ack(c, to)
        PROVE  HandlerInvariant'
    <3>1. work' \in Seq(PhaseItems')
      BY <2>3, <2>5, PhaseJoin
    <3>2. Ack(c, to) \in Seq(Items) /\ Ack(c, to) \in Seq(Calm)
      BY <2>3, CalmItems
    <3>3. Doable(work', mem.cmds) /\ work' # <<>> /\ Moving(Head(work'), c)
      BY <2>1, <2>3, <2>4, <2>5, <3>2, MovesThenCalm, SingleIsDoable
    <3> QED  BY <1>1, <2>1, <3>1, <3>3
  <2>6. ASSUME work' = Moves({c}, "accepted") \o Moves({c}, "completed") \o Ack(c, "completed")
        PROVE  HandlerInvariant'
    <3> DEFINE t == Moves({c}, "completed") \o Ack(c, "completed")
               st == [d \in Commands |-> IF d \in {c} THEN "accepted" ELSE mem.cmds[d]]
    <3>1. work' \in Seq(PhaseItems')
      BY <2>3, <2>6, PhaseJoin
    <3>2. \A d \in {c} : Permitted(st[d], "completed")
      BY <2>1 DEF Permitted
    <3>3. Single(t, st) /\ t \in Seq(Items)
      BY <2>1, <2>3, <3>2, MovesThenCalm
    <3>4. work' = Moves({c}, "accepted") \o t
      <4>1. /\ Moves({c}, "accepted") \in Seq(Items) /\ Moves({c}, "completed") \in Seq(Items)
            /\ Ack(c, "completed") \in Seq(Items)
        BY <2>1, <2>3, CalmItems, PlainMoves DEF Plain
      <4>2. \A x, y, z \in Seq(Items) : x \o y \o z = x \o (y \o z)
        BY ThreeJoined
      <4> QED  BY <2>6, <4>1, <4>2
    <3> HIDE DEF t
    <3>5. \A d \in {c} : Permitted(mem.cmds[d], "accepted")
      BY <2>1 DEF Permitted
    <3>6. Doable(work', mem.cmds)
      BY <1>0, <2>1, <2>3, <3>3, <3>4, <3>5, MovesThenSingle
    <3>7. work' # <<>> /\ Moving(Head(work'), c)
      BY <2>4, <3>3, <3>4
    <3> QED  BY <1>1, <2>1, <3>1, <3>6, <3>7
  <2> QED  BY <1>3, <2>5, <2>6 DEF Response
<1>4. ASSUME InitialResponse  PROVE HandlerInvariant'
  <2>1. /\ mem.gen \in Commands /\ {mem.gen} \in SUBSET Commands /\ mem.cmds[mem.gen] = "received"
        /\ pending' = pending
    BY <1>4 DEF InitialResponse, Commands
  <2>2. {mem.gen} \cap pending' = {}
    <3>1. mem.gen \in Generations
      BY <1>4 DEF InitialResponse
    <3> QED  BY <1>0, <2>1, <3>1, MailIsNoGeneration
  <2>3. \A to \in {"accepted", "rejected"} :
          /\ Moves({mem.gen}, to) \in Seq(PhaseItems') /\ to \in Statuses \ {"received"}
          /\ \A c \in {mem.gen} : Permitted(mem.cmds[c], to)
    BY <1>0, <2>1, <2>2, PhaseMoves, StatusNames DEF Permitted
  <2>4. /\ <<>> \in Seq(Calm) /\ <<>> \in Seq(PhaseItems')
        /\ Only("fail") \in Seq(Calm) /\ Only("fail") \in Seq(PhaseItems')
    BY <1>0, CalmKinds
  <2>5. ASSUME NEW to \in {"accepted", "rejected"}, NEW t \in Seq(Calm), t \in Seq(PhaseItems'),
               work' = Moves({mem.gen}, to) \o t
        PROVE  HandlerInvariant'
    <3>1. work' \in Seq(PhaseItems')
      BY <2>3, <2>5, PhaseJoin
    <3>2. Doable(work', mem.cmds)
      BY <2>1, <2>3, <2>5, MovesThenCalm, SingleIsDoable
    <3> QED  BY <1>1, <2>1, <3>1, <3>2
  <2>6. Moves({mem.gen}, "accepted") = Moves({mem.gen}, "accepted") \o <<>>
    BY <2>3
  <2> QED  BY <1>4, <2>4, <2>5, <2>6 DEF InitialResponse
<1>5. ASSUME NEW S \in SUBSET Commands, NEW to \in Statuses \ {"received"},
             S \subseteq Of(mem, {"accepted", "started"}), \A c \in S : Permitted(mem.cmds[c], to),
             NEW kind \in Lifecycle, work' = Moves(S, to) \o Note(kind), pending' = pending
      PROVE  HandlerInvariant'
  <2>1. S \cap pending' = {}
    BY <1>0, <1>5 DEF HandlerInvariant, Waiting, Of
  <2>2. Moves(S, to) \in Seq(PhaseItems') /\ Note(kind) \in Seq(Calm) /\ Note(kind) \in Seq(PhaseItems')
    BY <1>0, <2>1, PhaseMoves, CalmKinds
  <2>3. work' \in Seq(PhaseItems')
    BY <1>5, <2>2, PhaseJoin
  <2>4. Doable(work', mem.cmds)
    BY <1>5, <2>2, MovesThenCalm, SingleIsDoable
  <2> QED  BY <1>1, <1>5, <2>3, <2>4
<1>6. ASSUME AgentStart  PROVE HandlerInvariant'
  <2>1. /\ work' = Moves(Active(mem) \cap Of(mem, {"accepted"}), "started") \o Note("agent_started")
        /\ pending' = pending
    BY <1>6 DEF AgentStart
  <2>2. /\ Active(mem) \cap Of(mem, {"accepted"}) \in SUBSET Commands
        /\ Active(mem) \cap Of(mem, {"accepted"}) \subseteq Of(mem, {"accepted", "started"})
        /\ \A c \in Active(mem) \cap Of(mem, {"accepted"}) : Permitted(mem.cmds[c], "started")
    BY DEF Of, Active, Permitted
  <2>3. "started" \in Statuses \ {"received"} /\ "agent_started" \in Lifecycle
    BY StatusNames
  <2> QED  BY <1>5, <2>1, <2>2, <2>3
<1>7. ASSUME NEW outcome \in Outcomes, AgentSettled(outcome)  PROVE HandlerInvariant'
  <2> DEFINE to == IF aborting THEN "aborted" ELSE outcome
  <2>1. work' = Moves(Active(mem), to) \o Note("agent_settled") /\ pending' = pending
    BY <1>7 DEF AgentSettled
  <2>2. to \in {"completed", "failed", "aborted"}
    BY ConstantAssumption
  <2> HIDE DEF to
  <2>3. /\ Active(mem) \in SUBSET Commands /\ Active(mem) \subseteq Of(mem, {"accepted", "started"})
        /\ \A c \in Active(mem) : Permitted(mem.cmds[c], to)
    BY <2>2 DEF Of, Active, Permitted
  <2>4. to \in Statuses \ {"received"} /\ "agent_settled" \in Lifecycle
    BY <2>2, StatusNames
  <2> QED  BY <1>5, <2>1, <2>3, <2>4
<1> QED  BY <1>2, <1>3, <1>4, <1>6, <1>7

LEMMA HandlerRead ==
  ASSUME DeliveryInvariant, HandlerInvariant, Read
  PROVE  HandlerInvariant'
<1>0. /\ work \in Seq(Items) /\ work # <<>> /\ Head(work).op = "read" /\ UNCHANGED <<proc, mem, sent, pending>>
      /\ Subject \in Mail /\ Subject \in Commands /\ mem \in Registry
  BY SubjectType, MailIsCommands DEF Read, At, DeliveryInvariant, TypeOK, pi
<1>1. Head(work) \in PhaseItems
  BY <1>0 DEF HandlerInvariant
<1>2. proc # "starting" /\ proc # "down" /\ proc' # "starting"
  BY <1>0, <1>1, WorkerLives DEF PhaseItems, Live
<1> DEFINE u == Do("unlink", Subject)
<1>3. u \in Seq(Calm) /\ u \in Seq(PhaseItems')
  BY <1>0, <1>2, CalmKinds
<1> HIDE DEF u
<1>4. ASSUME Doable(work', mem.cmds), work' \in Seq(PhaseItems')  PROVE HandlerInvariant'
  BY <1>0, <1>2, <1>4, HandlerGoesOn
<1>5. ASSUME NEW s \in Seq(Calm), s \in Seq(PhaseItems'), work' = s \o u  PROVE HandlerInvariant'
  BY <1>3, <1>4, <1>5, CalmJoin, PhaseJoin, CalmIsDoable
<1>6. \A value \in AckValues : Ack(Subject, value) \in Seq(Calm) /\ Ack(Subject, value) \in Seq(PhaseItems')
  BY <1>0, <1>2, CalmKinds
<1>7. <<>> \in Seq(Calm) /\ <<>> \in Seq(PhaseItems')
  OBVIOUS
<1>8. Ack(Subject, "refused") \in Seq(Calm) /\ Ack(Subject, "refused") \in Seq(PhaseItems')
  BY <1>6, StatusNames
<1>9. Refused(Subject) \in Seq(Calm) /\ Refused(Subject) \in Seq(PhaseItems')
  BY <1>7, <1>8 DEF Refused
<1>10. CASE Subject \notin inbox
  <2>1. work' = Refused(Subject) \o u
    BY <1>10 DEF Read, u
  <2> QED  BY <1>5, <1>9, <2>1
<1>11. CASE Subject \in inbox /\ Subject \in Known(mem)
  <2>1. work' = Repeated(Subject) \o u
    BY <1>11 DEF Read, u
  <2>2. mem.cmds[Subject] # "received" => mem.cmds[Subject] \in AckValues
    <3>1. mem.cmds[Subject] \in Statuses
      BY <1>0, <1>11, RegistryFields DEF Known, Of
    <3> QED  BY <3>1, StatusNames
  <2>3. Repeated(Subject) \in Seq(Calm) /\ Repeated(Subject) \in Seq(PhaseItems')
    BY <1>6, <1>7, <1>9, <2>2 DEF Repeated
  <2> QED  BY <1>5, <2>1, <2>3
<1>12. CASE Subject \in inbox /\ Subject \notin Known(mem) /\ Full(mem)
  <2>1. work' = Ack(Subject, "refused") \o u
    BY <1>12 DEF Read, u
  <2> QED  BY <1>5, <1>8, <2>1
<1>13. CASE Subject \in inbox /\ Subject \notin Known(mem) /\ ~Full(mem)
  <2>1. work' = Moves({Subject}, "received") \o Do("send", Subject) \o u
    BY <1>13 DEF Read, u, Taken
  <2>2. mem.cmds[Subject] = "unknown"
    BY <1>0, <1>13 DEF Known, Of
  <2>3. Doable(work', mem.cmds)
    BY <1>0, <1>3, <2>1, <2>2, ReceivedIsSent
  <2>4. {Subject} \in SUBSET Commands /\ (proc' = "running" => {Subject} \cap pending' = {})
    BY <1>0, <2>2 DEF HandlerInvariant, Waiting
  <2>5. Moves({Subject}, "received") \in Seq(PhaseItems')
    BY <1>2, <2>4, PhaseMoves, StatusNames
  <2>6. Do("send", Subject) \in Seq(PhaseItems')
    BY <1>0, <1>2, PhaseSend
  <2>7. work' \in Seq(PhaseItems')
    BY <1>3, <2>1, <2>5, <2>6, PhaseJoin
  <2> QED  BY <1>4, <2>3, <2>7
<1> QED  BY <1>10, <1>11, <1>12, <1>13

LEMMA HandlerSend ==
  ASSUME DeliveryInvariant, GenerationInvariant, HandlerInvariant, Send
  PROVE  HandlerInvariant'
<1>0. /\ work \in Seq(Items) /\ work # <<>> /\ Head(work).op = "send" /\ UNCHANGED mem
      /\ Subject \in Commands /\ Head(work).cmds = {Subject} /\ {Subject} \in SUBSET Commands
      /\ mem \in Registry /\ mem.gen \in Nat /\ sent \in [Commands -> Seq(Nat)] /\ pending \subseteq Mail
  BY SubjectType, RegistryFields DEF Send, At, DeliveryInvariant, TypeOK
<1>1. Head(work) \in PhaseItems
  BY <1>0 DEF HandlerInvariant
<1>2. proc # "starting" /\ proc # "down"
  BY <1>0, <1>1, WorkerLives DEF PhaseItems, Live
<1>3. mem.cmds[Subject] = "received"
  BY <1>0 DEF HandlerInvariant, Doable, Fits
<1>4. sent[Subject] = <<>>
  <2>1. 1 \in DOMAIN work /\ work[1] = Head(work)
    BY <1>0
  <2> QED  BY <1>0, <2>1 DEF DeliveryInvariant, SendsFollow, Due
<1>5. Rest \in Seq(Calm) /\ Rest \in Seq(PhaseItems)
  BY <1>0, RestDoable
<1>6. proc = "running" => Subject \notin pending
  <2>1. <<mem.gen>> # <<>>
    OBVIOUS
  <2> QED  BY <1>4, <2>1 DEF HandlerInvariant, Waiting
<1>7. ASSUME NEW c \in Of(mem, Open), c # Subject, proc = "running"
      PROVE  sent[c] = <<mem.gen>> /\ (mem.cmds[c] = "received" => c \in pending \cup {mem.gen})
  BY <1>0, <1>7 DEF HandlerInvariant, Ours, Underway, Moving
<1>8. CASE piUp
  <2>1. /\ sent' = [sent EXCEPT ![Subject] = Append(@, mem.gen)] /\ pending' = pending \cup Awaited(Subject)
        /\ work' = Rest /\ proc' = proc
    BY <1>8 DEF Send
  <2>2. sent'[Subject] = <<mem.gen>> /\ \A c \in Commands : c # Subject => sent'[c] = sent[c]
    BY <1>0, <1>4, <2>1
  <2>3. Doable(work', mem'.cmds) /\ work' \in Seq(PhaseItems')
    BY <1>0, <1>5, <2>1, CalmIsDoable, CalmStays
  <2>4. Subject \in Awaited(Subject) \/ Subject = mem.gen
    <3>1. Head(work) \in OwnItems
      BY <1>0 DEF GenerationInvariant, Opening
    <3>2. Subject \in Generations => Subject = mem.gen
      BY <1>0, <3>1 DEF OwnItems
    <3> QED  BY <1>0, <3>2, MailIsNoGeneration DEF Awaited
  <2>5. Waiting'
    <3> SUFFICES ASSUME proc' = "running", NEW c \in pending'
                 PROVE  mem'.cmds[c] = "received" /\ sent'[c] = <<mem'.gen>>
      BY DEF Waiting
    <3>1. c = Subject \/ (c \in pending /\ c \in Commands)
      BY <1>0, <2>1, MailIsCommands DEF Awaited
    <3> QED  BY <1>0, <1>3, <2>1, <2>2, <3>1 DEF HandlerInvariant, Waiting
  <2>6. Ours'
    <3> SUFFICES ASSUME proc' = "running", NEW c \in Of(mem', Open)
                 PROVE  sent'[c] = <<mem'.gen>> /\ (mem'.cmds[c] = "received" => c \in pending' \cup {mem'.gen})
      BY DEF Ours
    <3>1. c \in Of(mem, Open) /\ c \in Commands
      BY <1>0 DEF Of
    <3>2. CASE c = Subject
      BY <1>0, <2>1, <2>2, <2>4, <3>2
    <3>3. CASE c # Subject
      BY <1>0, <1>7, <2>1, <2>2, <3>1, <3>3
    <3> QED  BY <3>2, <3>3
  <2> QED  BY <1>2, <2>1, <2>3, <2>5, <2>6 DEF HandlerInvariant, Starting
<1>9. CASE ~piUp /\ Subject \in Mail
  <2>1. /\ work' = Moves({Subject}, "uncertain") \o Ack(Subject, "uncertain") \o Rest
        /\ UNCHANGED <<proc, sent, pending>>
    BY <1>9 DEF Send
  <2> DEFINE t == Ack(Subject, "uncertain") \o Rest
             m == Item("move", {Subject}, "uncertain")
  <2>2. Ack(Subject, "uncertain") \in Seq(Calm) /\ Ack(Subject, "uncertain") \in Seq(PhaseItems')
    BY <1>2, <1>9, <2>1, CalmKinds, StatusNames
  <2>3. t \in Seq(Calm) /\ t \in Seq(PhaseItems')
    BY <1>5, <2>1, <2>2, CalmJoin, CalmStays, PhaseJoin
  <2>4. Moves({Subject}, "uncertain") \in Seq(PhaseItems')
    BY <1>0, <1>2, <1>6, <2>1, PhaseMoves, StatusNames
  <2>5. m \in Items /\ m.op = "move" /\ m.to = "uncertain" /\ m.cmds = {Subject}
    BY <1>0, StatusNames DEF Item, Items
  <2>6. Moves({Subject}, "uncertain") = <<m>>
    BY DEF Moves
  <2>7. work' = Moves({Subject}, "uncertain") \o t
    BY <1>5, <2>1, <2>2, <2>5, <2>6, CalmItems
  <2> HIDE DEF t, m
  <2>8. work' # <<>> /\ Head(work') = m
    BY <2>3, <2>5, <2>6, <2>7, CalmItems, OneFirst
  <2>9. work' \in Seq(PhaseItems')
    BY <2>3, <2>4, <2>7, PhaseJoin
  <2>10. Doable(work', mem'.cmds)
    <3>1. \A c \in {Subject} : Permitted(mem.cmds[c], "uncertain")
      BY <1>3 DEF Permitted
    <3> QED  BY <1>0, <2>3, <2>7, <3>1, MovesThenCalm, SingleIsDoable, StatusNames
  <2>11. Waiting'
    BY <1>0, <2>1 DEF HandlerInvariant, Waiting
  <2>12. Ours'
    <3> SUFFICES ASSUME proc' = "running", NEW c \in Of(mem', Open)
                 PROVE  \/ Underway(c)'
                        \/ /\ sent'[c] = <<mem'.gen>>
                           /\ mem'.cmds[c] = "received" => c \in pending' \cup {mem'.gen}
      BY DEF Ours
    <3>1. c \in Of(mem, Open)
      BY <1>0 DEF Of
    <3>2. CASE c = Subject
      BY <2>5, <2>8, <3>2 DEF Underway
    <3>3. CASE c # Subject
      BY <1>0, <1>7, <2>1, <3>1, <3>3
    <3> QED  BY <3>2, <3>3
  <2> QED  BY <1>2, <2>1, <2>9, <2>10, <2>11, <2>12 DEF HandlerInvariant, Starting
<1>10. CASE ~piUp /\ Subject \notin Mail
  BY <1>0, <1>10, HandlerFinally DEF Send
<1> QED  BY <1>8, <1>9, <1>10

LEMMA HandlerItem ==
  ASSUME DeliveryInvariant, HandlerInvariant, Acknowledge \/ Unlink \/ Fail \/ GiveUp
  PROVE  HandlerInvariant'
<1>0. /\ work \in Seq(Items) /\ work # <<>> /\ Head(work).op \notin {"move", "send"} /\ Head(work) \in Items
      /\ UNCHANGED <<mem, sent, pending>> /\ pending \subseteq Mail /\ mem \in Registry /\ proc # "down"
  BY WorkerLives, HeadType DEF Acknowledge, Unlink, Fail, GiveUp, At, DeliveryInvariant, TypeOK, pi, Live
<1>1. Head(work) \in PhaseItems
  BY <1>0 DEF HandlerInvariant
<1>2. ASSUME Acknowledge \/ Unlink  PROVE HandlerInvariant'
  <2>1. proc # "starting" /\ proc' = proc /\ work' = Rest
    BY <1>1, <1>2 DEF Acknowledge, Unlink, At, PhaseItems
  <2>2. Doable(work', mem.cmds) /\ work' \in Seq(PhaseItems')
    BY <1>0, <2>1, RestDoable, PhaseStays
  <2> QED  BY <1>0, <2>1, <2>2, HandlerGoesOn
<1>3. ASSUME Fail  PROVE HandlerInvariant'
  BY <1>0, <1>3, HandlerFinally DEF Fail
<1>4. ASSUME GiveUp  PROVE HandlerInvariant'
  <2>1. proc' = "closing" /\ Head(work).cmds \subseteq Mail /\ Head(work).to \in {"failed", "clean"}
        /\ Head(work).op = "giveup"
    BY <1>0, <1>1, <1>4, ItemFields DEF GiveUp, At, PhaseItems
  <2>2. ASSUME NEW how \in {"failed", "clean"}, work' = CloseItems(how)  PROVE HandlerInvariant'
    <3> DEFINE failed == IF how = "failed" THEN Of(mem, {"accepted", "started"}) ELSE {}
               others == Of(mem, Open) \ failed
               t == Note("supervisor_ended") \o Only("exit")
               st == [c \in Commands |-> IF c \in failed THEN "failed" ELSE mem.cmds[c]]
    <3>1. /\ failed \in SUBSET Commands /\ others \in SUBSET Commands
          /\ \A c \in failed : Permitted(mem.cmds[c], "failed")
          /\ \A c \in others : c \notin failed /\ Permitted(mem.cmds[c], "uncertain")
      BY OpenMayEnd DEF Of
    <3>2. t \in Seq(Calm) /\ t \in Seq(PhaseItems')
      <4>1. "supervisor_ended" \in Lifecycle /\ proc' # "starting"
        BY <2>1, StatusNames
      <4> QED  BY <4>1, CalmKinds, CalmJoin, PhaseJoin
    <3>3. Moves(failed, "failed") \in Seq(PhaseItems') /\ Moves(others, "uncertain") \in Seq(PhaseItems')
      BY <2>1, <3>1, PhaseMoves, StatusNames
    <3>4. work' = Moves(failed, "failed") \o (Moves(others, "uncertain") \o t)
      <4>1. Moves(failed, "failed") \in Seq(Items) /\ Moves(others, "uncertain") \in Seq(Items)
        BY <3>1, PlainMoves, StatusNames DEF Plain
      <4>2. Note("supervisor_ended") \in Seq(Items) /\ Only("exit") \in Seq(Items)
        BY PlainNote, PlainDo, StatusNames DEF Plain
      <4>3. work' = Moves(failed, "failed") \o Moves(others, "uncertain") \o Note("supervisor_ended") \o Only("exit")
        BY <2>2 DEF CloseItems
      <4> HIDE DEF failed, others
      <4> DEFINE w == Moves(failed, "failed")
                 x == Moves(others, "uncertain")
                 p == w \o x
                 y == Note("supervisor_ended")
                 z == Only("exit")
      <4>4. w \in Seq(Items) /\ x \in Seq(Items) /\ y \in Seq(Items) /\ z \in Seq(Items)
        BY <4>1, <4>2
      <4>5. t = y \o z /\ p = w \o x /\ work' = p \o y \o z
        BY <4>3 DEF t
      <4> HIDE DEF w, x, y, z, p, t
      <4>6. p \in Seq(Items) /\ t \in Seq(Items)
        BY <4>4, <4>5, ItemsJoin
      <4>7. \A a, b, c \in Seq(Items) : a \o b \o c = a \o (b \o c)
        BY ThreeJoined
      <4>8. p \o y \o z = p \o (y \o z)
        BY <4>4, <4>6, <4>7
      <4>9. w \o x \o t = w \o (x \o t)
        BY <4>4, <4>6, <4>7
      <4> QED  BY <4>5, <4>8, <4>9 DEF w, x
    <3>5. \A c \in others : Permitted(st[c], "uncertain")
      BY <3>1
    <3> HIDE DEF failed, others, t
    <3>6. Single(Moves(others, "uncertain") \o t, st) /\ Moves(others, "uncertain") \o t \in Seq(Items)
      BY <3>1, <3>2, <3>5, MovesThenCalm, StatusNames
    <3>7. mem.cmds \in [Commands -> Statuses \cup {"unknown"}] /\ "failed" \in Statuses \ {"received"}
      BY <1>0, StatusNames DEF Registry
    <3>8. Doable(work', mem.cmds)
      BY <3>1, <3>4, <3>6, <3>7, MovesThenSingle
    <3>9. work' \in Seq(PhaseItems')
      BY <3>2, <3>3, <3>4, PhaseJoin
    <3> QED  BY <1>0, <2>1, <3>8, <3>9, HandlerEnds
  <2>3. ASSUME NEW c \in Head(work).cmds,
               work' = (IF acks[c] # "none" THEN <<>>
                        ELSE Moves({c} \cap Of(mem, Open), "uncertain") \o Ack(c, "uncertain"))
                       \o <<[Head(work) EXCEPT !.cmds = @ \ {c}]>>
        PROVE  HandlerInvariant'
    <3> DEFINE S == {c} \cap Of(mem, Open)
               g == <<[Head(work) EXCEPT !.cmds = @ \ {c}]>>
               a == Ack(c, "uncertain")
    <3>1. c \in Mail /\ S \in SUBSET Commands /\ \A d \in S : Permitted(mem.cmds[d], "uncertain")
      BY <2>1, OpenMayEnd DEF Of
    <3>2. g \in Seq(Calm) /\ g \in Seq(PhaseItems')
      <4>1. [Head(work) EXCEPT !.cmds = @ \ {c}] \in Items
            /\ [Head(work) EXCEPT !.cmds = @ \ {c}].op = "giveup"
        BY <1>0, <2>1 DEF Items
      <4>2. [Head(work) EXCEPT !.cmds = @ \ {c}] \in Calm /\ [Head(work) EXCEPT !.cmds = @ \ {c}] \in PhaseItems'
        BY <2>1, <4>1 DEF Calm, PhaseItems
      <4> QED  BY <4>2, OneItem
    <3>3. a \in Seq(Calm) /\ a \in Seq(PhaseItems')
      BY <2>1, <3>1, CalmKinds, StatusNames
    <3>4. Moves(S, "uncertain") \in Seq(PhaseItems')
      BY <2>1, <3>1, PhaseMoves, StatusNames
    <3>5. work' = g \/ work' = Moves(S, "uncertain") \o (a \o g)
      <4>1. Moves(S, "uncertain") \in Seq(Items)
        BY <3>1, PlainMoves, StatusNames DEF Plain
      <4>2. a \in Seq(Items) /\ g \in Seq(Items)
        BY <3>2, <3>3, CalmItems
      <4>3. \A x, y, z \in Seq(Items) : x \o y \o z = x \o (y \o z)
        BY ThreeJoined
      <4>4. <<>> \o g = g
        BY <4>2, NothingFirst
      <4> QED  BY <2>3, <4>1, <4>2, <4>3, <4>4
    <3> HIDE DEF S, g, a
    <3>6. a \o g \in Seq(Calm) /\ a \o g \in Seq(PhaseItems')
      BY <3>2, <3>3, CalmJoin, PhaseJoin
    <3>7. Doable(work', mem.cmds)
      BY <3>1, <3>2, <3>5, <3>6, CalmIsDoable, MovesThenCalm, SingleIsDoable, StatusNames
    <3>8. work' \in Seq(PhaseItems')
      BY <3>2, <3>4, <3>5, <3>6, PhaseJoin
    <3> QED  BY <1>0, <2>1, <3>7, <3>8, HandlerEnds
  <2> QED  BY <1>4, <2>1, <2>2, <2>3 DEF GiveUp
<1> QED  BY <1>2, <1>3, <1>4

LEMMA HandlerSave ==
  ASSUME DeliveryInvariant, HandlerInvariant, SaveRegistry
  PROVE  HandlerInvariant'
<1> DEFINE e == writing[1]
<1>0. /\ work \in Seq(Items) /\ work # <<>> /\ Head(work) \in Items /\ Head(work).op \in {"move", "note"}
      /\ mem \in Registry /\ mem.cmds \in [Commands -> Statuses \cup {"unknown"}]
      /\ UNCHANGED <<proc, pending, sent>> /\ proc # "down" /\ pending \subseteq Mail
  BY WorkerLives, HeadType DEF SaveRegistry, pi, DeliveryInvariant, TypeOK, WritingFits, Registry, Live
<1>1. /\ Rest \in Seq(PhaseItems') /\ Rest \in Seq(Items) /\ Head(work) \in PhaseItems
      /\ Single(Rest, Carried(Head(work), mem.cmds))
  <2>1. Rest \in Seq(PhaseItems) /\ Head(work) \in PhaseItems /\ Rest \in Seq(Items)
    BY <1>0 DEF HandlerInvariant, Rest
  <2>2. Single(Rest, Carried(Head(work), mem.cmds))
    BY <1>0 DEF HandlerInvariant, Doable, Rest
  <2> QED  BY <1>0, <2>1, <2>2, PhaseStays
<1>2. /\ mem' = Apply(mem, e) /\ mem'.gen = mem.gen
      /\ mem'.cmds = IF e.cmd \in Commands THEN [mem.cmds EXCEPT ![e.cmd] = e.kind] ELSE mem.cmds
  BY DEF SaveRegistry, Apply
<1>3. CASE Head(work).op = "note"
  <2>1. mem'.cmds = mem.cmds /\ Of(mem, Open)' = Of(mem, Open)
    BY <1>2, <1>3, NoCommandIsNone DEF DeliveryInvariant, WritingFits, SaveRegistry, Of
  <2>2. work' = Rest
    BY <1>1, <1>3, NothingFirst DEF SaveRegistry, Rest
  <2>3. Carried(Head(work), mem.cmds) = mem.cmds
    BY <1>0, <1>3 DEF Carried
  <2>4. Doable(work', mem'.cmds) /\ work' \in Seq(PhaseItems')
    BY <1>1, <2>1, <2>2, <2>3, SingleIsDoable
  <2>5. Starting'
    <3>1. proc = "starting" => Of(mem, Open) = {} \/ Clears(Tail(work))
      BY <1>0, <1>3 DEF HandlerInvariant, Starting, Clears, Moving
    <3>2. Clears(Tail(work)) => Clears(work)'
      BY <2>1, <2>2 DEF Clears, Rest
    <3> QED  BY <1>0, <2>1, <3>1, <3>2 DEF HandlerInvariant, Starting
  <2>6. Waiting'
    BY <1>0, <1>2, <2>1 DEF HandlerInvariant, Waiting
  <2>7. Ours'
    <3>1. ASSUME NEW c \in Of(mem, Open), proc = "running"
          PROVE  sent[c] = <<mem.gen>> /\ (mem.cmds[c] = "received" => c \in pending \cup {mem.gen})
      BY <1>3, <3>1 DEF HandlerInvariant, Ours, Underway, Moving
    <3> QED  BY <1>0, <1>2, <2>1, <3>1 DEF Ours
  <2> QED  BY <2>4, <2>5, <2>6, <2>7 DEF HandlerInvariant
<1>4. CASE Head(work).op = "move"
  <2> DEFINE c0 == e.cmd
             to == Head(work).to
             S  == Head(work).cmds \ {c0}
             m  == Item("move", S, to)
  <2>1. /\ c0 \in Head(work).cmds /\ c0 \in Commands /\ e.kind = to /\ Permitted(mem.cmds[c0], to)
        /\ Head(work).cmds \in SUBSET Commands /\ to \in Statuses
    BY <1>0, <1>4, ItemFields DEF DeliveryInvariant, WritingFits, SaveRegistry
  <2>2. /\ mem'.cmds[c0] = to /\ \A c \in Commands : c # c0 => mem'.cmds[c] = mem.cmds[c]
        /\ mem'.cmds \in [Commands -> Statuses \cup {"unknown"}]
    BY <1>0, <1>2, <2>1
  <2>3. \A c \in Head(work).cmds : Permitted(mem.cmds[c], to)
    BY <1>0, <1>4 DEF HandlerInvariant, Doable, Fits
  <2>4. to = "received" => /\ Rest # <<>> /\ Head(Rest).op = "send" /\ Head(Rest).cmds = Head(work).cmds
                           /\ S = {} /\ Head(Rest).cmds = {c0}
    <3> SUFFICES ASSUME to = "received"
                 PROVE  /\ Rest # <<>> /\ Head(Rest).op = "send" /\ Head(Rest).cmds = Head(work).cmds
                        /\ S = {} /\ Head(Rest).cmds = {c0}
      OBVIOUS
    <3>1. Rest # <<>> /\ Head(Rest).op = "send" /\ Head(Rest).cmds = Head(work).cmds
      BY <1>0, <1>4 DEF HandlerInvariant, Doable, Receives, Rest
    <3>2. Head(Rest) \in Items
      BY <1>1, <3>1
    <3>3. \E c \in Commands : Head(Rest).cmds = {c}
      BY <3>1, <3>2, ItemFields
    <3> QED  BY <2>1, <3>1, <3>3
  <2>5. work' = Moves(S, to) \o Rest
    BY <1>4 DEF SaveRegistry, Rest
  <2>6. /\ m \in Items /\ m.op = "move" /\ m.cmds = S /\ m.to = to /\ m \in PhaseItems'
    <3>1. m \in Items /\ m.op = "move" /\ m.cmds = S /\ m.to = to
      BY <2>1 DEF Item, Items
    <3> QED  BY <1>0, <1>1, <1>4, <3>1 DEF PhaseItems
  <2>7. Moves(S, to) = IF S = {} THEN <<>> ELSE <<m>>
    BY DEF Moves
  <2>8. Carried(Head(work), mem.cmds) = [c \in Commands |-> IF c \in Head(work).cmds THEN to ELSE mem.cmds[c]]
    BY <1>4 DEF Carried
  <2>9. mem.gen = mem'.gen
    BY <1>2
  <2> HIDE DEF m, S, to, c0
  <2>10. Of(mem', Open) \ {c0} \subseteq Of(mem, Open)
    BY <2>2 DEF Of
  <2>11. Waiting'
    <3> SUFFICES ASSUME proc' = "running", NEW c \in pending'
                 PROVE  mem'.cmds[c] = "received" /\ sent'[c] = <<mem'.gen>>
      BY DEF Waiting
    <3>1. c \in Commands /\ c # c0
      BY <1>0, <1>1, <1>4, <2>1, MailIsCommands DEF PhaseItems
    <3> QED  BY <1>0, <2>2, <2>9, <3>1 DEF HandlerInvariant, Waiting
  \* The command just recorded is open only if it was, or if it is sent next.
  <2>12. ASSUME proc = "running", c0 \in Of(mem', Open), to # "received"
         PROVE  sent[c0] = <<mem.gen>> /\ mem'.cmds[c0] # "received"
    <3>1. to \in {"accepted", "started"}
      BY <2>2, <2>12 DEF Of, Open
    <3>2. c0 \in Of(mem, Open) /\ c0 \in Commands
      BY <2>1, <3>1 DEF Of, Open, Permitted
    <3>3. ~Underway(c0)
      BY <1>4, <3>1 DEF Underway, to
    <3> QED  BY <2>2, <2>12, <3>2, <3>3 DEF HandlerInvariant, Ours
  <2>13. CASE S = {}
    <3>1. work' = Rest
      BY <1>1, <2>5, <2>7, <2>13, NothingFirst
    <3>2. Head(work).cmds = {c0}
      BY <2>1, <2>13 DEF S
    <3>3. Carried(Head(work), mem.cmds) = mem'.cmds
      <4>1. \A c \in Commands : mem'.cmds[c] = IF c \in Head(work).cmds THEN to ELSE mem.cmds[c]
        BY <2>2, <3>2
      <4> QED  BY <2>2, <2>8, <4>1
    <3>4. Doable(work', mem'.cmds) /\ work' \in Seq(PhaseItems')
      BY <1>1, <3>1, <3>3, SingleIsDoable
    <3>5. Starting'
      <4>1. proc = "starting" => to = "uncertain"
        BY <1>1, <1>4 DEF PhaseItems, to
      <4>2. proc = "starting" => Of(mem, Open) \subseteq {c0}
        BY <1>4, <3>2 DEF HandlerInvariant, Starting, Clears, Moving
      <4>3. proc = "starting" => Of(mem, Open)' = {}
        BY <2>2, <2>10, <4>1, <4>2 DEF Of, Open
      <4> QED  BY <1>0, <4>3 DEF HandlerInvariant, Starting
    <3>6. Ours'
      <4> SUFFICES ASSUME proc' = "running", NEW c \in Of(mem', Open)
                   PROVE  \/ Underway(c)'
                          \/ /\ sent'[c] = <<mem'.gen>>
                             /\ mem'.cmds[c] = "received" => c \in pending' \cup {mem'.gen}
        BY DEF Ours
      <4>1. CASE c = c0 /\ to = "received"
        BY <2>4, <3>1, <4>1 DEF Underway
      <4>2. CASE c = c0 /\ to # "received"
        BY <1>0, <2>9, <2>12, <4>2
      <4>3. CASE c # c0
        <5>1. c \in Of(mem, Open) /\ c \in Commands /\ c \notin Head(work).cmds
          BY <2>10, <3>2, <4>3 DEF Of
        <5>2. sent[c] = <<mem.gen>> /\ (mem.cmds[c] = "received" => c \in pending \cup {mem.gen})
          BY <1>0, <5>1 DEF HandlerInvariant, Ours, Underway, Moving
        <5>3. mem'.cmds[c] = mem.cmds[c]
          BY <2>2, <4>3, <5>1
        <5> QED  BY <1>0, <2>9, <5>2, <5>3
      <4> QED  BY <4>1, <4>2, <4>3
    <3> QED  BY <2>11, <3>4, <3>5, <3>6 DEF HandlerInvariant
  <2>14. CASE S # {}
    <3>1. work' = <<m>> \o Rest
      BY <2>5, <2>7, <2>14
    <3>2. work' # <<>> /\ Head(work') = m /\ work' \in Seq(PhaseItems')
      BY <1>1, <2>6, <3>1, OneFirst
    <3>3. to # "received"
      BY <2>4, <2>14
    <3>4. \A c \in S : c \in Commands /\ c # c0 /\ c \in Head(work).cmds
      BY <2>1 DEF S
    <3>5. Fits(m, mem'.cmds) /\ ~Receives(m) /\ m.op # "send"
      BY <2>2, <2>3, <2>6, <3>3, <3>4 DEF Fits, Receives
    <3>6. Carried(Head(work), mem.cmds) = Carried(m, mem'.cmds)
      <4>1. Carried(m, mem'.cmds) = [c \in Commands |-> IF c \in S THEN to ELSE mem'.cmds[c]]
        BY <2>6 DEF Carried
      <4>2. \A c \in Commands : (IF c \in S THEN to ELSE mem'.cmds[c])
                                = IF c \in Head(work).cmds THEN to ELSE mem.cmds[c]
        BY <2>1, <2>2 DEF S
      <4> QED  BY <2>8, <4>1, <4>2
    <3>7. Doable(work', mem'.cmds)
      BY <1>1, <2>6, <3>1, <3>5, <3>6, OneThenSingle
    <3>8. Starting'
      <4>1. proc = "starting" => to = "uncertain"
        BY <1>1, <1>4 DEF PhaseItems, to
      <4>2. proc = "starting" => Of(mem, Open) \subseteq Head(work).cmds
        BY <1>4 DEF HandlerInvariant, Starting, Clears, Moving
      <4>3. proc = "starting" => c0 \notin Of(mem', Open)
        BY <2>2, <4>1 DEF Of, Open
      <4>4. proc = "starting" => Of(mem', Open) \subseteq S
        BY <2>10, <4>2, <4>3 DEF S
      <4>5. proc = "starting" => Clears(work)'
        BY <2>6, <3>2, <4>4 DEF Clears, Moving
      <4> QED  BY <1>0, <4>5 DEF HandlerInvariant, Starting
    <3>9. Ours'
      <4> SUFFICES ASSUME proc' = "running", NEW c \in Of(mem', Open)
                   PROVE  \/ Underway(c)'
                          \/ /\ sent'[c] = <<mem'.gen>>
                             /\ mem'.cmds[c] = "received" => \/ c \in pending' \cup {mem'.gen}
                                                             \/ work' # <<>> /\ Moving(Head(work'), c)
        BY DEF Ours
      <4>1. CASE c = c0
        BY <1>0, <2>9, <2>12, <3>3, <4>1
      <4>2. CASE c # c0
        <5>1. c \in Of(mem, Open) /\ c \in Commands
          BY <2>10, <4>2 DEF Of
        <5>2. mem'.cmds[c] = mem.cmds[c]
          BY <2>2, <4>2, <5>1
        <5>3. Underway(c) => Underway(c)'
          BY <1>4, <2>6, <3>2, <4>2 DEF Underway, S, to
        <5>4. Moving(Head(work), c) => Moving(Head(work'), c)
          BY <2>6, <3>2, <4>2 DEF Moving, S
        <5> QED  BY <1>0, <2>9, <3>2, <5>1, <5>2, <5>3, <5>4 DEF HandlerInvariant, Ours
      <4> QED  BY <4>1, <4>2
    <3> QED  BY <2>11, <3>2, <3>7, <3>8, <3>9 DEF HandlerInvariant
  <2> QED  BY <2>13, <2>14
<1> QED  BY <1>0, <1>3, <1>4

LEMMA HandlerNext ==
  ASSUME DeliveryInvariant, GenerationInvariant, HandlerInvariant, [Next]_vars
  PROVE  HandlerInvariant'
<1>1. ASSUME Crash \/ Exit \/ TearAppend  PROVE HandlerInvariant'
  BY <1>1, HandlerGone DEF Crash, Exit, TearAppend
<1>2. ASSUME Record  PROVE HandlerInvariant'
  <2>1. ASSUME Rotate \/ AppendEvent  PROVE HandlerInvariant'
    BY <2>1, HandlerRests DEF Rotate, AppendEvent, process, pi
  <2> QED  BY <1>1, <1>2, <2>1, HandlerSave DEF Record
<1>3. ASSUME Handler  PROVE HandlerInvariant'
  BY <1>1, <1>3, HandlerLoop, HandlerBegin, HandlerRead, HandlerSend, HandlerItem DEF Handler
<1>4. ASSUME Ending  PROVE HandlerInvariant'
  BY <1>1, <1>4, HandlerStop, HandlerEnding DEF Ending
<1>5. ASSUME \E k \in Clients : Client(k)  PROVE HandlerInvariant'
  BY <1>5, HandlerRests DEF Client, Ask, Post, Leave, Vanish, process, pi
<1>6. ASSUME Pi  PROVE HandlerInvariant'
  BY <1>6, HandlerRests DEF Pi, Decide, PiDies, process
<1>7. ASSUME UNCHANGED vars  PROVE HandlerInvariant'
  BY <1>7, HandlerRests DEF vars, process, pi
<1> QED  BY <1>2, <1>3, <1>4, <1>5, <1>6, <1>7, HandlerStart DEF Next

THEOREM HandlersHold == Spec => []HandlerInvariant
<1>1. DeliveryInvariant /\ GenerationInvariant /\ HandlerInvariant /\ [Next]_vars => HandlerInvariant'
  BY HandlerNext
<1> QED  BY <1>1, HandlerInit, GenerationsHold, DeliveryHolds, PTL DEF Spec

\* The registry's check never refuses a record that a handler still has to make: no
\* supervisor dies of its own records.
THEOREM RecordsAreNeverRefused == Spec => []RecordsArePermitted
<1>1. HandlerInvariant => RecordsArePermitted
  BY DEF HandlerInvariant, Doable, Fits, RecordsArePermitted
<1> QED  BY <1>1, HandlersHold, PTL

\* Between two handlers, whatever was sent, answered, interrupted or left over by an
\* earlier supervisor, an open command is one that this supervisor's Pi has, and an
\* unanswered one is waited for.
THEOREM OpenCommandsAreOurs == Spec => []OpenIsOurs
<1>1. HandlerInvariant => OpenIsOurs
  BY DEF HandlerInvariant, Ours, Underway, OpenIsOurs, Idle
<1> QED  BY <1>1, HandlersHold, PTL

-----------------------------------------------------------------------------
(* Files: what the journal and the registry have in common.                 *)

\* Every process started, and every stop, can die once between an append and the save
\* of the registry; a rotation forgets no such event if a segment holds them all.  The
\* code's segment is 1 MiB, thousands of events.  An interrupt there appends an event
\* that its process does not know of; that is excluded here.
DeathsAreFew == Interrupts # "anywhere" /\ MaxStarts + MaxStops <= SegmentSize + 1

\* The number and the generation of the last event.
EndSeq == IF Journal = <<>> THEN 0 ELSE LastEvent.seq
EndGen == IF Journal = <<>> THEN 0 ELSE LastEvent.gen

\* The events are numbered without a gap, up to the last.
Numbered == \A i \in 1..Len(Journal) : Journal[i].seq + Len(Journal) = EndSeq + i

Succeeding ==
  \A i \in 1..(Len(Journal) - 1) :
    \/ Journal[i + 1].gen = Journal[i].gen
    \/ Journal[i + 1].gen = Journal[i].gen + 1 /\ Journal[i + 1].kind = "supervisor_started"

\* The registry is not ahead of the journal, and the journal has what it lacks.
Joined ==
  /\ Journal = <<>> => saved = Blank
  /\ saved.last <= EndSeq /\ EndSeq <= saved.last + Len(Journal)
  /\ saved.gen <= EndGen /\ EndGen <= MaxStarts

\* Every generation and every stop left at most one event unsaved, and the process
\* that works has not yet.
Backlog ==
  /\ stops <= MaxStops
  /\ EndSeq <= saved.last + EndGen + stops
  /\ Live => /\ mem.gen <= MaxStarts /\ 1 <= mem.gen + stops
             /\ writing = <<>> => EndSeq + 1 <= saved.last + mem.gen + stops

BeginsHere == work # <<>> /\ Head(work).to = "supervisor_started"

\* The process that works knows the end of the journal, but for the event it appends.
InStep ==
  Live =>
    /\ ~torn
    /\ writing = <<>> => /\ mem.last = EndSeq
                         /\ mem.gen = EndGen \/ (mem.gen = EndGen + 1 /\ BeginsHere)
    /\ writing # <<>> => /\ Journal # <<>> /\ writing[1] = LastEvent
                         /\ EndSeq = mem.last + 1 /\ EndGen = mem.gen

FilesInvariant == Numbered /\ Succeeding /\ Joined /\ Backlog /\ InStep

LEMMA EndType ==
  ASSUME archive \in Seq(Event), current \in Seq(Event)
  PROVE  /\ EndSeq \in Nat /\ EndGen \in Nat
         /\ Journal \in Seq(Event) /\ Len(Journal) \in Nat
         /\ Journal # <<>> => Len(Journal) \in 1..Len(Journal) /\ LastEvent = Journal[Len(Journal)]
         /\ \A i \in 1..Len(Journal) : Journal[i] \in Event /\ Journal[i].seq \in Nat /\ Journal[i].gen \in Nat
<1>1. Journal # <<>> => LastEvent.seq \in Nat /\ LastEvent.gen \in Nat
  BY LastEventType, EventFields
<1>2. Journal \in Seq(Event) /\ Len(Journal) \in Nat
  BY JournalType
<1>3. \A i \in 1..Len(Journal) : Journal[i] \in Event /\ Journal[i].seq \in Nat /\ Journal[i].gen \in Nat
  BY <1>2, EventFields
<1>4. Journal # <<>> => Len(Journal) \in 1..Len(Journal) /\ LastEvent = Journal[Len(Journal)]
  BY LastEventType DEF LastEvent
<1> QED  BY <1>1, <1>2, <1>3, <1>4 DEF EndSeq, EndGen

\* What a process reads is where the journal ends.
LEMMA ReplayedEnds ==
  ASSUME archive \in Seq(Event), current \in Seq(Event), saved \in Registry, Joined
  PROVE  Replayed.last = EndSeq /\ Replayed.gen = EndGen /\ Replayed.closed = WasClosed
<1>1. saved.last \in Nat /\ saved.gen \in Nat
  BY RegistryFields
<1>2. CASE Journal = <<>>
  <2>1. Newer = {}
    BY <1>2, NewerType
  <2> QED  BY <1>2, <2>1 DEF Joined, Blank, Replayed, EndSeq, EndGen
<1>3. CASE Journal # <<>>
  <2>1. EndSeq = LastEvent.seq /\ EndGen = LastEvent.gen /\ EndSeq \in Nat
    BY <1>3, EndType DEF EndSeq, EndGen
  <2>2. Newer = {} => LastEvent.seq <= saved.last
    <3>1. Len(Journal) \in 1..Len(Journal) /\ LastEvent = Journal[Len(Journal)]
      BY <1>3, EndType
    <3>2. Newer = {} => ~(LastEvent.seq > saved.last)
      BY <3>1, NewerType
    <3> QED  BY <1>1, <2>1, <3>2
  <2> QED  BY <1>1, <1>3, <2>1, <2>2 DEF Joined, Replayed
<1> QED  BY <1>2, <1>3

\* The files of every process that died can be loaded.
LEMMA FilesLoad ==
  ASSUME TypeOK, FilesInvariant
  PROVE  AlwaysRecoverable
<1>0. archive \in Seq(Event) /\ current \in Seq(Event) /\ saved \in Registry /\ saved.last \in Nat
  BY RegistryFields DEF TypeOK
<1>1. /\ EndSeq \in Nat /\ EndGen \in Nat /\ Journal \in Seq(Event) /\ Len(Journal) \in Nat
      /\ \A i \in 1..Len(Journal) : Journal[i].seq \in Nat /\ Journal[i].gen \in Nat
      /\ \A i \in 1..Len(Journal) : Journal[i].seq + Len(Journal) = EndSeq + i
  BY <1>0, EndType DEF FilesInvariant, Numbered
<1>2. Unbroken
  <2> SUFFICES ASSUME NEW i \in 1..(Len(Journal) - 1)
               PROVE  /\ Journal[i + 1].seq = Journal[i].seq + 1
                      /\ \/ Journal[i + 1].gen = Journal[i].gen
                         \/ Journal[i + 1].gen = Journal[i].gen + 1 /\ Journal[i + 1].kind = "supervisor_started"
    BY DEF Unbroken
  <2>1. i \in 1..Len(Journal) /\ i + 1 \in 1..Len(Journal)
    BY <1>1
  <2>2. Journal[i + 1].seq = Journal[i].seq + 1
    <3>1. /\ Journal[i].seq + Len(Journal) = EndSeq + i
          /\ Journal[i + 1].seq + Len(Journal) = EndSeq + (i + 1)
          /\ Journal[i].seq \in Nat /\ Journal[i + 1].seq \in Nat
      BY <1>1, <2>1
    <3> QED  BY <1>1, <3>1
  <2> QED  BY <2>2 DEF FilesInvariant, Succeeding
<1>3. NoGap
  <2> SUFFICES ASSUME Newer # {}  PROVE \E i \in Newer : Journal[i].seq = saved.last + 1
    BY DEF NoGap
  <2>1. PICK j \in 1..Len(Journal) : Journal[j].seq > saved.last
    BY <1>0, NewerType
  <2> DEFINE i == saved.last + 1 + Len(Journal) - EndSeq
  <2>2. EndSeq <= saved.last + Len(Journal)
    BY DEF FilesInvariant, Joined
  <2>3. i \in 1..Len(Journal)
    <3> DEFINE n == Journal[j].seq  l == Len(Journal)  last == saved.last
    <3>1. n + l = EndSeq + j /\ n > last /\ j \in 1..l /\ EndSeq <= last + l
      BY <1>1, <2>1, <2>2
    <3>2. n \in Nat /\ l \in Nat /\ last \in Nat /\ EndSeq \in Nat
      BY <1>0, <1>1
    <3>3. i = last + 1 + l - EndSeq
      OBVIOUS
    <3> HIDE DEF n, l, last, i
    <3>4. i \in 1..l
      BY <3>1, <3>2, <3>3
    <3> QED  BY <3>4 DEF l
  <2>4. Journal[i].seq = saved.last + 1
    <3> DEFINE n == Journal[i].seq  l == Len(Journal)  last == saved.last
    <3>1. n + l = EndSeq + i /\ n \in Nat /\ i \in Int
      BY <1>1, <2>3
    <3>2. i = last + 1 + l - EndSeq
      OBVIOUS
    <3>3. l \in Nat /\ last \in Nat /\ EndSeq \in Nat
      BY <1>0, <1>1
    <3> HIDE DEF n, l, last, i
    <3>4. n = last + 1
      BY <3>1, <3>2, <3>3
    <3> QED  BY <3>4 DEF n, last
  <2>5. i \in Newer
    BY <1>0, <2>3, <2>4, NewerType
  <2> QED  BY <2>4, <2>5
<1>4. IF Journal = <<>> THEN saved.last = 0
      ELSE saved.last <= LastEvent.seq /\ saved.gen <= LastEvent.gen
  BY DEF FilesInvariant, Joined, EndSeq, EndGen, Blank
<1> QED  BY <1>2, <1>3, <1>4 DEF AlwaysRecoverable, Loadable, Readable

-----------------------------------------------------------------------------
(* Files: the invariant is preserved.                                       *)

\* The parts that the files alone decide.
LEMMA FilesStay ==
  ASSUME UNCHANGED <<archive, current, saved>>
  PROVE  /\ Journal' = Journal /\ EndSeq' = EndSeq /\ EndGen' = EndGen /\ LastEvent' = LastEvent
         /\ Numbered => Numbered'
         /\ Succeeding => Succeeding'
         /\ Joined => Joined'
<1>1. Journal' = Journal
  BY DEF Journal
<1>2. LastEvent' = LastEvent
  BY <1>1 DEF LastEvent
<1>3. EndSeq' = EndSeq /\ EndGen' = EndGen
  BY <1>1, <1>2 DEF EndSeq, EndGen
<1>4. (Numbered => Numbered') /\ (Succeeding => Succeeding')
  BY <1>1, <1>3 DEF Numbered, Succeeding
<1>5. Joined => Joined'
  BY <1>1, <1>3 DEF Joined, Blank
<1> QED  BY <1>1, <1>2, <1>3, <1>4, <1>5

\* A step that leaves the files and the stops alone, of a process that lives on, or of
\* clients and Pi.
LEMMA FilesGoOn ==
  ASSUME FilesInvariant, UNCHANGED <<archive, current, torn, saved, stops>>,
         Live' => Live /\ UNCHANGED <<mem, writing>> /\ (work' = work \/ ~BeginsHere)
  PROVE  FilesInvariant'
<1>1. /\ Journal' = Journal /\ EndSeq' = EndSeq /\ EndGen' = EndGen /\ LastEvent' = LastEvent
      /\ Numbered' /\ Succeeding' /\ Joined'
  BY FilesStay DEF FilesInvariant
<1>2. Backlog'
  BY <1>1 DEF FilesInvariant, Backlog
<1>3. InStep'
  BY <1>1 DEF FilesInvariant, InStep, BeginsHere
<1> QED  BY <1>1, <1>2, <1>3 DEF FilesInvariant

LEMMA FilesGone ==
  ASSUME TypeOK, FilesInvariant, ~Live', UNCHANGED <<archive, current, saved>>,
         stops' = stops \/ (stops < MaxStops /\ stops' = stops + 1)
  PROVE  FilesInvariant'
<1>1. EndSeq' = EndSeq /\ EndGen' = EndGen /\ Numbered' /\ Succeeding' /\ Joined'
  BY FilesStay DEF FilesInvariant
<1>2. EndSeq \in Nat /\ EndGen \in Nat /\ stops \in Nat /\ saved.last \in Nat /\ MaxStops \in Nat
  BY EndType, RegistryFields, ConstantAssumption DEF TypeOK
<1>3. Backlog'
  <2>1. EndSeq <= saved.last + EndGen + stops /\ stops <= MaxStops
    BY DEF FilesInvariant, Backlog
  <2>2. stops' <= MaxStops /\ EndSeq <= saved.last + EndGen + stops'
    BY <1>2, <2>1
  <2> QED  BY <1>1, <2>2 DEF Backlog
<1> QED  BY <1>1, <1>3 DEF FilesInvariant, InStep

LEMMA FilesInit == Init => FilesInvariant
<1> SUFFICES ASSUME Init  PROVE FilesInvariant
  OBVIOUS
<1>1. Journal = <<>> /\ Len(Journal) = 0
  BY EmptyType DEF Init, Journal
<1>2. EndSeq = 0 /\ EndGen = 0 /\ ~Live
  BY <1>1 DEF EndSeq, EndGen, Init, Live
<1>3. saved = Blank /\ saved.last = 0 /\ saved.gen = 0 /\ stops = 0 /\ MaxStarts \in Nat /\ MaxStops \in Nat
  BY ConstantAssumption DEF Init, Blank
<1>4. Numbered /\ Succeeding
  BY <1>1 DEF Numbered, Succeeding
<1>5. Joined /\ Backlog /\ InStep
  BY <1>1, <1>2, <1>3 DEF Joined, Backlog, InStep
<1> QED  BY <1>4, <1>5 DEF FilesInvariant

\* The first item of a starting supervisor is the beginning of its generation.
LEMMA StartBegins ==
  ASSUME DeliveryInvariant, Start
  PROVE  BeginsHere'
<1>1. Replayed \in Registry /\ NextGeneration \in Commands
  BY ReplayedType DEF DeliveryInvariant, TypeOK, Start, Commands
<1>2. Leftovers \in Seq(Items) /\ Do("begin", NextGeneration) \in Seq(Items)
  BY <1>1, PlainMoves, PlainDo, StatusNames DEF Leftovers, Of, Plain
<1> DEFINE n == Item("note", {}, "supervisor_started")
           s == Leftovers
           t == Do("begin", NextGeneration)
<1>3. n \in Items /\ n.to = "supervisor_started"
  BY DEF Item, Items, Lifecycle
<1>4. work' = <<n>> \o s \o t
  BY DEF Start, Note
<1>5. s \in Seq(Items) /\ t \in Seq(Items)
  BY <1>2
<1> HIDE DEF n, s, t
<1>6. <<n>> \o s \o t # <<>> /\ Head(<<n>> \o s \o t) = n
  BY <1>3, <1>5
<1> QED  BY <1>3, <1>4, <1>6 DEF BeginsHere

LEMMA FilesStart ==
  ASSUME DeliveryInvariant, FilesInvariant, Start
  PROVE  FilesInvariant'
<1>0. /\ archive \in Seq(Event) /\ current \in Seq(Event) /\ saved \in Registry
      /\ stops \in Nat /\ saved.last \in Nat
  BY RegistryFields DEF DeliveryInvariant, TypeOK
<1>1. /\ UNCHANGED <<archive, current, torn, saved, stops, writing>> /\ ~torn
      /\ proc' = "starting" /\ proc = "down"
  BY DEF Start, disk, Loadable, Readable
<1>2. /\ Journal' = Journal /\ EndSeq' = EndSeq /\ EndGen' = EndGen
      /\ Numbered' /\ Succeeding' /\ Joined'
  BY <1>1, FilesStay DEF FilesInvariant
<1>3. EndSeq \in Nat /\ EndGen \in Nat
  BY <1>0, EndType
<1>4. mem'.last = EndSeq /\ mem'.gen = EndGen + 1 /\ mem'.gen \in Generations
  <2>1. mem' = [Replayed EXCEPT !.gen = NextGeneration] /\ Replayed \in Registry
    BY <1>0, ReplayedType DEF Start
  <2>2. mem'.last = Replayed.last /\ mem'.gen = Replayed.gen + 1
    BY <2>1 DEF Registry, NextGeneration
  <2>3. NextGeneration \in Generations
    BY DEF Start
  <2> QED  BY <1>0, <2>2, <2>3, ReplayedEnds DEF FilesInvariant, NextGeneration
<1>5. writing' = <<>>
  BY <1>1 DEF DeliveryInvariant, Quiet, Live
<1>6. Backlog'
  <2>1. mem'.gen <= MaxStarts /\ mem'.gen \in Nat
    BY <1>4, ConstantAssumption DEF Generations
  <2>2. EndSeq <= saved.last + EndGen + stops /\ stops <= MaxStops
    BY DEF FilesInvariant, Backlog
  <2>3. 1 <= mem'.gen + stops /\ EndSeq + 1 <= saved.last + mem'.gen + stops
    BY <1>0, <1>3, <1>4, <2>2
  <2> QED  BY <1>1, <1>2, <2>1, <2>2, <2>3 DEF Backlog
<1>7. InStep'
  BY <1>1, <1>2, <1>4, <1>5, StartBegins DEF InStep
<1> QED  BY <1>2, <1>6, <1>7 DEF FilesInvariant

LEMMA FilesStop ==
  ASSUME DeliveryInvariant, FilesInvariant, Stop
  PROVE  FilesInvariant'
<1>0. /\ archive \in Seq(Event) /\ current \in Seq(Event) /\ saved \in Registry
      /\ stops \in Nat /\ saved.last \in Nat /\ TypeOK
  BY RegistryFields DEF DeliveryInvariant, TypeOK
<1>1. /\ UNCHANGED <<archive, current, torn, saved>>
      /\ stops < MaxStops /\ stops' = stops + 1
  BY DEF Stop, disk
<1>2. ASSUME Gone  PROVE FilesInvariant'
  BY <1>0, <1>1, <1>2, FilesGone DEF Gone, Live
<1>3. ASSUME ~Gone  PROVE FilesInvariant'
  <2>1. mem' = Replayed /\ writing' = <<>> /\ ~torn
    BY <1>3 DEF Stop, Readable
  <2>2. /\ Journal' = Journal /\ EndSeq' = EndSeq /\ EndGen' = EndGen
        /\ Numbered' /\ Succeeding' /\ Joined'
    BY <1>1, FilesStay DEF FilesInvariant
  <2>3. EndSeq \in Nat /\ EndGen \in Nat /\ MaxStops \in Nat
    BY <1>0, EndType, ConstantAssumption
  <2>4. mem'.last = EndSeq /\ mem'.gen = EndGen
    BY <1>0, <2>1, ReplayedEnds DEF FilesInvariant
  <2>5. Backlog'
    <3>1. EndSeq <= saved.last + EndGen + stops /\ stops <= MaxStops /\ EndGen <= MaxStarts
      BY DEF FilesInvariant, Backlog, Joined
    <3>2. /\ stops' <= MaxStops /\ EndSeq <= saved.last + EndGen + stops'
          /\ 1 <= mem'.gen + stops' /\ EndSeq + 1 <= saved.last + mem'.gen + stops'
      BY <1>0, <1>1, <2>3, <2>4, <3>1
    <3> QED  BY <1>1, <2>2, <2>4, <3>1, <3>2 DEF Backlog
  <2>6. InStep'
    BY <1>1, <2>1, <2>2, <2>4 DEF InStep
  <2> QED  BY <2>2, <2>5, <2>6 DEF FilesInvariant
<1> QED  BY <1>2, <1>3

\* A rotation drops only events that are saved.
LEMMA FilesRotate ==
  ASSUME DeathsAreFew, DeliveryInvariant, FilesInvariant, Rotate
  PROVE  FilesInvariant'
<1>0. /\ archive \in Seq(Event) /\ current \in Seq(Event) /\ saved \in Registry
      /\ mem \in Registry /\ stops \in Nat /\ saved.last \in Nat /\ mem.gen \in Nat
  BY RegistryFields DEF DeliveryInvariant, TypeOK
<1>1. PICK k \in Nat :
        /\ Journal' \in Seq(Event) /\ Len(Journal) \in Nat /\ Len(Journal') \in Nat
        /\ Len(Journal) = k + Len(Journal')
        /\ \A i \in 1..Len(Journal') : Journal'[i] = Journal[k + i]
        /\ k = 0 => Journal' = Journal
        /\ k > 0 => Len(Journal') >= SegmentSize
  BY <1>0, RotateJournal
<1>2. /\ UNCHANGED <<saved, mem, work, proc, writing, torn, stops>>
      /\ writing = <<>> /\ Live
  BY WorkerLives DEF Rotate, Recording, process
<1>3. SegmentSize \in Nat \ {0} /\ MaxStarts \in Nat /\ MaxStops \in Nat
  BY ConstantAssumption
<1>4. /\ Journal = <<>> <=> Journal' = <<>>
      /\ Journal' # <<>> => LastEvent' = LastEvent
  <2>1. CASE k = 0
    BY <1>1, <2>1 DEF LastEvent
  <2>2. CASE k > 0
    <3>1. Len(Journal') \in 1..Len(Journal') /\ Len(Journal') # 0 /\ Len(Journal) # 0
      BY <1>1, <1>3, <2>2
    <3>2. Journal'[Len(Journal')] = Journal[k + Len(Journal')]
      BY <1>1, <3>1
    <3>3. LastEvent' = LastEvent
      BY <1>1, <3>2 DEF LastEvent
    <3>4. Journal # <<>> /\ Journal' # <<>>
      BY <3>1
    <3> QED  BY <3>3, <3>4
  <2> QED  BY <1>1, <2>1, <2>2
<1>5. EndSeq' = EndSeq /\ EndGen' = EndGen /\ EndSeq \in Nat /\ EndGen \in Nat
  BY <1>0, <1>4, EndType DEF EndSeq, EndGen
<1>6. Numbered'
  <2> SUFFICES ASSUME NEW i \in 1..Len(Journal')  PROVE Journal'[i].seq + Len(Journal') = EndSeq + i
    BY <1>5 DEF Numbered
  <2>1. k + i \in 1..Len(Journal) /\ Journal'[i] = Journal[k + i]
    BY <1>1
  <2>2. Journal[k + i].seq + Len(Journal) = EndSeq + (k + i) /\ Journal[k + i].seq \in Nat
    BY <1>0, <2>1, EndType DEF FilesInvariant, Numbered
  <2> DEFINE n == Journal[k + i].seq  l == Len(Journal)  m == Len(Journal')
  <2>3. n + l = EndSeq + (k + i) /\ l = k + m
    BY <1>1, <2>2
  <2>4. n \in Nat /\ l \in Nat /\ m \in Nat /\ EndSeq \in Nat /\ i \in Nat
    BY <1>1, <1>5, <2>2
  <2> HIDE DEF n, l, m
  <2>5. n + m = EndSeq + i
    BY <2>3, <2>4
  <2> QED  BY <2>1, <2>5 DEF n, m
<1>7. Succeeding'
  <2> SUFFICES ASSUME NEW i \in 1..(Len(Journal') - 1)
               PROVE  \/ Journal'[i + 1].gen = Journal'[i].gen
                      \/ /\ Journal'[i + 1].gen = Journal'[i].gen + 1
                         /\ Journal'[i + 1].kind = "supervisor_started"
    BY DEF Succeeding
  <2>1. /\ k + i \in 1..(Len(Journal) - 1) /\ k + (i + 1) = (k + i) + 1
        /\ Journal'[i] = Journal[k + i] /\ Journal'[i + 1] = Journal[k + (i + 1)]
    BY <1>1
  <2>2. \/ Journal[(k + i) + 1].gen = Journal[k + i].gen
        \/ Journal[(k + i) + 1].gen = Journal[k + i].gen + 1 /\ Journal[(k + i) + 1].kind = "supervisor_started"
    BY <2>1 DEF FilesInvariant, Succeeding
  <2> QED  BY <2>1, <2>2
<1>8. EndSeq <= saved.last + Len(Journal')
  <2>1. CASE k = 0
    BY <1>1, <2>1 DEF FilesInvariant, Joined
  <2>2. CASE k > 0
    <3>1. EndSeq + 1 <= saved.last + mem.gen + stops /\ mem.gen <= MaxStarts /\ stops <= MaxStops
      BY <1>2 DEF FilesInvariant, Backlog
    <3>2. MaxStarts + MaxStops <= SegmentSize + 1 /\ Len(Journal') >= SegmentSize
      BY <1>1, <2>2 DEF DeathsAreFew
    <3> QED  BY <1>0, <1>1, <1>3, <1>5, <3>1, <3>2
  <2> QED  BY <1>1, <2>1, <2>2
<1>9. Joined'
  BY <1>2, <1>4, <1>5, <1>8 DEF FilesInvariant, Joined, Blank
<1>10. Backlog'
  BY <1>2, <1>5 DEF FilesInvariant, Backlog, Live
<1>11. InStep'
  BY <1>2, <1>5 DEF FilesInvariant, InStep, BeginsHere, Live
<1> QED  BY <1>6, <1>7, <1>9, <1>10, <1>11 DEF FilesInvariant

\* The event that is appended, with its generation.
LEMMA Appended ==
  ASSUME DeliveryInvariant, AppendEvent
  PROVE  \E e \in Event :
           /\ writing' = <<e>> /\ writing' # <<>> /\ writing'[1] = e
           /\ archive' = archive /\ current' = Append(current, e)
           /\ e.seq = mem.last + 1 /\ e.gen = mem.gen /\ e.kind = Head(work).to
           /\ \/ /\ Head(work).op = "move" /\ e.cmd \in Head(work).cmds
                 /\ e.cmd \in Commands /\ Permitted(mem.cmds[e.cmd], e.kind)
              \/ Head(work).op = "note" /\ e.cmd = NoCommand
           /\ Journal' \in Seq(Event) /\ Len(Journal) \in Nat
           /\ Len(Journal') = Len(Journal) + 1
           /\ \A i \in 1..Len(Journal) : Journal'[i] = Journal[i]
           /\ Journal'[Len(Journal) + 1] = e
           /\ Journal' # <<>> /\ LastEvent' = e
<1>0. /\ archive \in Seq(Event) /\ current \in Seq(Event) /\ mem \in Registry
      /\ work \in Seq(Items) /\ work # <<>>
  BY DEF DeliveryInvariant, TypeOK, AppendEvent, Recording
<1>1. PICK c \in IF Head(work).op = "move" THEN Head(work).cmds ELSE {NoCommand} :
        LET e == [seq |-> mem.last + 1, gen |-> mem.gen, kind |-> Head(work).to, cmd |-> c] IN
        /\ c \in Commands => Permitted(mem.cmds[c], e.kind)
        /\ current' = Append(current, e)
        /\ writing' = <<e>>
  BY DEF AppendEvent
<1> DEFINE e == [seq |-> mem.last + 1, gen |-> mem.gen, kind |-> Head(work).to, cmd |-> c]
<1>2. \/ Head(work).op = "move" /\ c \in Head(work).cmds /\ c \in Commands /\ Head(work).to \in Statuses
      \/ Head(work).op = "note" /\ c = NoCommand /\ Head(work).to \in Lifecycle
  <2>1. Head(work) \in Items /\ (Head(work).op = "move" \/ Head(work).op = "note")
    BY <1>0, HeadType DEF AppendEvent, Recording
  <2> QED  BY <1>1, <2>1, ItemFields
<1>3. e \in Event
  BY <1>0, <1>2, RegistryFields DEF Event
<1>4. /\ writing' = <<e>> /\ archive' = archive /\ current' = Append(current, e)
      /\ e.seq = mem.last + 1 /\ e.gen = mem.gen /\ e.kind = Head(work).to
      /\ \/ /\ Head(work).op = "move" /\ e.cmd \in Head(work).cmds
            /\ e.cmd \in Commands /\ Permitted(mem.cmds[e.cmd], e.kind)
         \/ Head(work).op = "note" /\ e.cmd = NoCommand
  BY <1>1, <1>2 DEF AppendEvent
<1> HIDE DEF e
<1>5. /\ Journal' \in Seq(Event) /\ Len(Journal) \in Nat
      /\ Len(Journal') = Len(Journal) + 1
      /\ \A i \in 1..Len(Journal) : Journal'[i] = Journal[i]
      /\ Journal'[Len(Journal) + 1] = e
  BY <1>0, <1>3, <1>4, AppendJournal
<1>6. Journal' # <<>> /\ LastEvent' = e
  <2>1. Len(Journal') # 0
    BY <1>5
  <2> QED  BY <1>5, <2>1 DEF LastEvent
<1>7. writing' # <<>> /\ writing'[1] = e
  BY <1>4
<1> QED  BY <1>3, <1>4, <1>5, <1>6, <1>7

LEMMA FilesAppend ==
  ASSUME DeliveryInvariant, FilesInvariant, AppendEvent
  PROVE  FilesInvariant'
<1>0. /\ archive \in Seq(Event) /\ current \in Seq(Event) /\ saved \in Registry /\ mem \in Registry
      /\ saved.last \in Nat /\ saved.gen \in Nat /\ mem.gen \in Nat /\ mem.last \in Nat /\ stops \in Nat
      /\ writing = <<>> /\ Live /\ MaxStarts \in Nat
  BY WorkerLives, RegistryFields, ConstantAssumption DEF DeliveryInvariant, TypeOK, AppendEvent, Recording
<1>1. PICK e \in Event :
           /\ writing' # <<>> /\ writing'[1] = e
           /\ e.seq = mem.last + 1 /\ e.gen = mem.gen /\ e.kind = Head(work).to
           /\ Journal' \in Seq(Event) /\ Len(Journal) \in Nat
           /\ Len(Journal') = Len(Journal) + 1
           /\ \A i \in 1..Len(Journal) : Journal'[i] = Journal[i]
           /\ Journal'[Len(Journal) + 1] = e
           /\ Journal' # <<>> /\ LastEvent' = e
  BY Appended
<1>2. UNCHANGED <<torn, saved, stops, proc, mem, work>>
  BY DEF AppendEvent
<1>3. EndSeq' = mem.last + 1 /\ EndGen' = mem.gen
  BY <1>1 DEF EndSeq, EndGen
<1>4. /\ mem.last = EndSeq /\ ~torn
      /\ mem.gen = EndGen \/ (mem.gen = EndGen + 1 /\ BeginsHere)
  BY <1>0 DEF FilesInvariant, InStep
<1>5. /\ EndSeq \in Nat /\ EndGen \in Nat
      /\ Journal # <<>> => Len(Journal) \in 1..Len(Journal) /\ LastEvent = Journal[Len(Journal)]
      /\ \A i \in 1..Len(Journal) : Journal[i].seq \in Nat /\ Journal[i].gen \in Nat
  BY <1>0, EndType
<1>6. Numbered'
  <2> SUFFICES ASSUME NEW i \in 1..Len(Journal')
               PROVE  Journal'[i].seq + Len(Journal') = EndSeq' + i
    BY DEF Numbered
  <2>1. CASE i = Len(Journal) + 1
    <3>1. Journal'[i].seq = mem.last + 1
      BY <1>1, <2>1
    <3> QED  BY <1>0, <1>1, <1>3, <2>1, <3>1
  <2>2. CASE i \in 1..Len(Journal)
    <3>1. Journal[i].seq + Len(Journal) = EndSeq + i /\ Journal'[i] = Journal[i] /\ Journal[i].seq \in Nat
      BY <1>1, <1>5, <2>2 DEF FilesInvariant, Numbered
    <3> DEFINE n == Journal[i].seq  l == Len(Journal)  last == mem.last
    <3>2. n + l = last + i /\ n \in Nat /\ l \in Nat /\ last \in Nat /\ i \in Nat
      BY <1>0, <1>1, <1>4, <3>1
    <3> HIDE DEF n, l, last
    <3>3. n + (l + 1) = (last + 1) + i
      BY <3>2
    <3>4. Journal'[i].seq = n /\ Len(Journal') = l + 1 /\ EndSeq' = last + 1
      BY <1>1, <1>3, <3>1 DEF n, l, last
    <3> QED  BY <3>3, <3>4
  <2> QED  BY <1>1, <2>1, <2>2
<1>7. Succeeding'
  <2> SUFFICES ASSUME NEW i \in 1..(Len(Journal') - 1)
               PROVE  \/ Journal'[i + 1].gen = Journal'[i].gen
                      \/ /\ Journal'[i + 1].gen = Journal'[i].gen + 1
                         /\ Journal'[i + 1].kind = "supervisor_started"
    BY DEF Succeeding
  <2>1. CASE i = Len(Journal)
    <3>1. Len(Journal) # 0 /\ i \in 1..Len(Journal)
      BY <1>1, <2>1
    <3>2. Journal # <<>>
      BY <3>1
    <3>3. Journal'[i] = LastEvent /\ LastEvent.gen = EndGen
      BY <1>1, <1>5, <2>1, <3>1, <3>2 DEF EndGen
    <3>4. Journal'[i + 1] = e
      BY <1>1, <2>1
    <3> QED  BY <1>1, <1>4, <3>3, <3>4 DEF BeginsHere
  <2>2. CASE i \in 1..(Len(Journal) - 1)
    <3>1. i \in 1..Len(Journal) /\ i + 1 \in 1..Len(Journal)
      BY <1>1, <2>2
    <3>2. Journal'[i] = Journal[i] /\ Journal'[i + 1] = Journal[i + 1]
      BY <1>1, <3>1
    <3> QED  BY <2>2, <3>2 DEF FilesInvariant, Succeeding
  <2> QED  BY <1>1, <2>1, <2>2
<1>8. Joined'
  <2>1. /\ saved.last <= EndSeq /\ EndSeq <= saved.last + Len(Journal)
        /\ saved.gen <= EndGen /\ mem.gen <= MaxStarts
    BY <1>0 DEF FilesInvariant, Joined, Backlog
  <2>2. /\ saved.last <= mem.last + 1 /\ mem.last + 1 <= saved.last + Len(Journal')
        /\ saved.gen <= mem.gen
    BY <1>0, <1>1, <1>4, <1>5, <2>1
  <2> QED  BY <1>1, <1>2, <1>3, <2>1, <2>2 DEF Joined
<1>9. Backlog'
  <2>1. /\ EndSeq + 1 <= saved.last + mem.gen + stops /\ stops <= MaxStops
        /\ mem.gen <= MaxStarts /\ 1 <= mem.gen + stops
    BY <1>0 DEF FilesInvariant, Backlog
  <2> QED  BY <1>1, <1>2, <1>3, <1>4, <2>1 DEF Backlog
<1>10. InStep'
  BY <1>1, <1>2, <1>3, <1>4 DEF InStep
<1> QED  BY <1>6, <1>7, <1>8, <1>9, <1>10 DEF FilesInvariant

LEMMA FilesSave ==
  ASSUME DeliveryInvariant, FilesInvariant, SaveRegistry
  PROVE  FilesInvariant'
<1>0. /\ archive \in Seq(Event) /\ current \in Seq(Event) /\ mem \in Registry
      /\ mem.gen \in Nat /\ stops \in Nat /\ Live /\ writing # <<>> /\ writing[1] \in Event
  BY WorkerLives, RegistryFields DEF DeliveryInvariant, TypeOK, SaveRegistry
<1>1. /\ UNCHANGED <<archive, current, torn, stops, proc>>
      /\ mem' = Apply(mem, writing[1]) /\ saved' = mem' /\ writing' = <<>>
  BY DEF SaveRegistry
<1>2. Journal' = Journal /\ EndSeq' = EndSeq /\ EndGen' = EndGen
  BY <1>1 DEF EndSeq, EndGen, LastEvent, Journal
<1>3. /\ Journal # <<>> /\ writing[1] = LastEvent /\ EndGen = mem.gen /\ ~torn
      /\ writing[1].seq = EndSeq
  BY <1>0 DEF FilesInvariant, InStep, EndSeq
<1>4. saved'.last = EndSeq /\ saved'.gen = mem.gen
  BY <1>1, <1>3 DEF Apply
<1>5. EndSeq \in Nat /\ EndGen \in Nat /\ Len(Journal) \in Nat
  BY <1>0, EndType
<1>6. Numbered' /\ Succeeding'
  BY <1>2 DEF FilesInvariant, Numbered, Succeeding
<1>7. Joined'
  BY <1>2, <1>3, <1>4, <1>5 DEF FilesInvariant, Joined
<1>8. Backlog'
  <2>1. mem.gen <= MaxStarts /\ 1 <= mem.gen + stops /\ stops <= MaxStops
    BY <1>0 DEF FilesInvariant, Backlog
  <2>2. EndSeq <= EndSeq + EndGen + stops /\ EndSeq + 1 <= EndSeq + mem.gen + stops
    BY <1>0, <1>5, <2>1
  <2> QED  BY <1>1, <1>2, <1>4, <2>1, <2>2 DEF Backlog
<1>9. InStep'
  BY <1>1, <1>2, <1>3, <1>4 DEF InStep
<1> QED  BY <1>6, <1>7, <1>8, <1>9 DEF FilesInvariant

\* Where nothing begins.
LEMMA NothingBegins ==
  ASSUME DeliveryInvariant, GenerationInvariant
  PROVE  /\ proc # "starting" => ~BeginsHere
         /\ \A op \in {"begin", "read", "send", "ack", "unlink", "fail", "giveup", "exit"} :
              At(op) => ~BeginsHere
<1>1. ASSUME proc # "starting", BeginsHere  PROVE FALSE
  <2>1. work \in Seq(OwnItems) /\ work # <<>>
    BY <1>1 DEF GenerationInvariant, Opening, BeginsHere
  <2>2. Head(work) \in OwnItems
    BY <2>1, HeadTailProperties
  <2> QED  BY <1>1, <2>2 DEF OwnItems, BeginsHere
<1>2. ASSUME NEW op \in {"begin", "read", "send", "ack", "unlink", "fail", "giveup", "exit"},
             At(op), BeginsHere
      PROVE  FALSE
  <2>1. Head(work).op = op /\ Head(work).to = "supervisor_started" /\ work # <<>> /\ work \in Seq(Items)
    BY <1>2 DEF At, BeginsHere, DeliveryInvariant, TypeOK
  <2>2. Opening \/ Head(work) \in OwnItems
    BY <2>1, OwnHead
  <2> QED  BY <1>2, <2>1, <2>2 DEF Opening, OwnItems
<1> QED  BY <1>1, <1>2

LEMMA FilesNext ==
  ASSUME DeathsAreFew, DeliveryInvariant, GenerationInvariant, FilesInvariant, [Next]_vars
  PROVE  FilesInvariant'
<1>0. TypeOK
  BY DEF DeliveryInvariant
<1>1. ASSUME NEW k \in Clients, Client(k)  PROVE FilesInvariant'
  <2>1. UNCHANGED <<disk, stops, process>>
    BY <1>1 DEF Client, Ask, Post, Leave, Vanish, disk
  <2> QED  BY <2>1, FilesGoOn DEF disk, process, Live
<1>2. ASSUME Pi  PROVE FilesInvariant'
  <2>1. UNCHANGED <<disk, stops, process>>
    BY <1>2 DEF Pi, Decide, PiDies
  <2> QED  BY <2>1, FilesGoOn DEF disk, process, Live
<1>3. ASSUME Record  PROVE FilesInvariant'
  <2>1. ASSUME TearAppend  PROVE FilesInvariant'
    BY <1>0, <2>1, FilesGone DEF TearAppend, Gone, Live
  <2> QED  BY <1>3, <2>1, FilesRotate, FilesAppend, FilesSave DEF Record
<1>4. ASSUME Crash \/ Exit  PROVE FilesInvariant'
  BY <1>0, <1>4, FilesGone DEF Crash, Exit, Gone, Live, disk
<1>5. ASSUME Handler, ~Exit  PROVE FilesInvariant'
  <2>1. UNCHANGED <<disk, stops, mem, writing>>
    BY <1>5 DEF Handler, Scan, Response, InitialResponse, AgentStart, AgentSettled, Begin, Read, Send,
             Acknowledge, Unlink, Fail, GiveUp
  <2>2. \/ Idle
        \/ \E op \in {"begin", "read", "send", "ack", "unlink", "fail", "giveup", "exit"} : At(op)
    BY <1>5 DEF Handler, Scan, Response, InitialResponse, AgentStart, AgentSettled, Begin, Read, Send,
             Acknowledge, Unlink, Fail, GiveUp
  <2>3. ~BeginsHere
    BY <2>2, NothingBegins DEF Idle, BeginsHere
  <2>4. Live
    BY <2>2, WorkerLives DEF Idle, At
  <2> QED  BY <2>1, <2>3, <2>4, FilesGoOn DEF disk
<1>6. ASSUME NEW how \in {"failed", "clean"}, Finish(how) \/ Interrupt(how)  PROVE FilesInvariant'
  <2>1. UNCHANGED <<disk, stops, mem>> /\ proc = "running"
    BY <1>6 DEF Finish, Interrupt
  <2>2. writing' = writing
    BY <1>6, <2>1 DEF Finish, Interrupt, DeathsAreFew
  <2>3. ~BeginsHere /\ Live
    BY <2>1, NothingBegins DEF Live
  <2> QED  BY <2>1, <2>2, <2>3, FilesGoOn DEF disk
<1>7. ASSUME UNCHANGED vars  PROVE FilesInvariant'
  BY <1>7, FilesGoOn DEF vars, disk, process, Live
<1> QED  BY <1>1, <1>2, <1>3, <1>4, <1>5, <1>6, <1>7, FilesStart, FilesStop DEF Next, Handler, Ending

THEOREM FilesHold == ASSUME DeathsAreFew PROVE Spec => []FilesInvariant
<1>1. FilesInvariant /\ DeliveryInvariant /\ GenerationInvariant /\ [Next]_vars => FilesInvariant'
  BY FilesNext
<1> QED  BY <1>1, FilesInit, DeliveryHolds, GenerationsHold, PTL DEF Spec

\* Whatever the order of rotations, appends, saves and deaths, the files that a process
\* leaves are loaded by the next one, if no more processes die than a segment has room
\* for the events they left unsaved, and none is interrupted between an append and its
\* save; only a line that the machine cut is refused.
THEOREM FilesAreRecoverable == ASSUME DeathsAreFew PROVE Spec => []AlwaysRecoverable
<1>1. TypeOK /\ FilesInvariant => AlwaysRecoverable
  BY FilesLoad
<1> QED  BY <1>1, TypeCorrect, FilesHold, PTL

-----------------------------------------------------------------------------
(* Mirror: what a reader makes of the files.                                *)

LEMMA LatestIs ==
  ASSUME NEW n \in Nat, NEW S \in SUBSET (1..n), NEW m \in S, \A j \in S : j <= m
  PROVE  Latest(S) = m
<1>1. Latest(S) \in S /\ m <= Latest(S)
  BY LatestIn
<1>2. m \in 1..n /\ Latest(S) \in 1..n
  BY <1>1
<1>3. Latest(S) <= m
  BY <1>1
<1> QED  BY <1>1, <1>2, <1>3

\* The events of a journal behind number "last" that concern c.
Tells(j, last, c) == {i \in 1..Len(j) : j[i].seq > last /\ j[i].cmd = c}

LEMMA TellsType ==
  ASSUME NEW j \in Seq(Event), NEW last, NEW c, Tells(j, last, c) # {}
  PROVE  Latest(Tells(j, last, c)) \in 1..Len(j)
<1> DEFINE S == Tells(j, last, c)
<1>1. S \in SUBSET (1..Len(j)) /\ S # {} /\ Len(j) \in Nat
  BY DEF Tells
<1> HIDE DEF S
<1>2. Latest(S) \in S
  BY <1>1, LatestIn
<1> QED  BY <1>1, <1>2 DEF S

LEMMA FilesSay ==
  ASSUME Journal \in Seq(Event), saved \in Registry
  PROVE  /\ Recorded = [c \in Commands |-> IF Tells(Journal, saved.last, c) = {} THEN saved.cmds[c]
                                           ELSE Journal[Latest(Tells(Journal, saved.last, c))].kind]
         /\ WasClosed = IF Tells(Journal, saved.last, NoCommand) = {} THEN saved.closed
                        ELSE Journal[Latest(Tells(Journal, saved.last, NoCommand))].kind = "supervisor_ended"
<1>1. DOMAIN Journal = 1..Len(Journal) /\ saved.cmds \in [Commands -> Statuses \cup {"unknown"}]
  BY DEF Registry
<1>2. ASSUME NEW c  PROVE About(c) = Tells(Journal, saved.last, c)
  BY <1>1 DEF About, Newer, Tells
<1>3. Newer = {} => \A c \in Commands : About(c) = {}
  BY DEF About
<1>4. Newer = {} => saved.cmds = [c \in Commands |-> saved.cmds[c]]
  BY <1>1
<1>5. Recorded = [c \in Commands |-> IF About(c) = {} THEN saved.cmds[c] ELSE Journal[Latest(About(c))].kind]
  BY <1>3, <1>4 DEF Recorded
<1> QED  BY <1>2, <1>5 DEF WasClosed

LEMMA FilesSayNext ==
  ASSUME Journal' \in Seq(Event), saved' \in Registry
  PROVE  /\ Recorded' = [c \in Commands |-> IF Tells(Journal', saved'.last, c) = {} THEN saved'.cmds[c]
                                            ELSE Journal'[Latest(Tells(Journal', saved'.last, c))].kind]
         /\ WasClosed' = IF Tells(Journal', saved'.last, NoCommand) = {} THEN saved'.closed
                         ELSE Journal'[Latest(Tells(Journal', saved'.last, NoCommand))].kind = "supervisor_ended"
<1>1. DOMAIN Journal' = 1..Len(Journal') /\ saved'.cmds \in [Commands -> Statuses \cup {"unknown"}]
  BY DEF Registry
<1>2. ASSUME NEW c  PROVE About(c)' = Tells(Journal', saved'.last, c)
  BY <1>1 DEF About, Newer, Tells
<1>3. Newer' = {} => \A c \in Commands : About(c)' = {}
  BY DEF About
<1>4. Newer' = {} => saved'.cmds = [c \in Commands |-> saved'.cmds[c]]
  BY <1>1
<1>5. Recorded' = [c \in Commands |-> IF About(c)' = {} THEN saved'.cmds[c] ELSE Journal'[Latest(About(c)')].kind]
  BY <1>3, <1>4 DEF Recorded, Latest
<1>6. WasClosed' = IF About(NoCommand)' = {} THEN saved'.closed
                   ELSE Journal'[Latest(About(NoCommand)')].kind = "supervisor_ended"
  BY DEF WasClosed, Latest
<1> QED  BY <1>2, <1>5, <1>6

\* One more event tells of what it concerns, and of nothing else.
LEMMA TellsMore ==
  ASSUME NEW j \in Seq(Event), NEW j2 \in Seq(Event), NEW last \in Nat, NEW e \in Event, e.seq > last,
         Len(j2) = Len(j) + 1, \A i \in 1..Len(j) : j2[i] = j[i], j2[Len(j2)] = e,
         NEW c
  PROVE  /\ c = e.cmd => Tells(j2, last, c) # {} /\ j2[Latest(Tells(j2, last, c))] = e
         /\ c # e.cmd => /\ Tells(j2, last, c) = Tells(j, last, c)
                         /\ Tells(j, last, c) # {} => j2[Latest(Tells(j, last, c))] = j[Latest(Tells(j, last, c))]
<1> DEFINE n == Len(j)
<1>0. n \in Nat /\ Len(j2) = n + 1 /\ 1..Len(j2) = (1..n) \cup {n + 1}
  OBVIOUS
<1>1. Tells(j2, last, e.cmd) # {} /\ j2[Latest(Tells(j2, last, e.cmd))] = e
  <2> DEFINE S == Tells(j2, last, e.cmd)
  <2>1. n + 1 \in S
    BY <1>0 DEF Tells
  <2>2. S \in SUBSET (1..(n + 1)) /\ n + 1 \in Nat
    BY <1>0 DEF Tells
  <2>3. \A i \in S : i <= n + 1
    BY <1>0, <2>2
  <2> HIDE DEF S
  <2>4. Latest(S) = n + 1
    BY <2>1, <2>2, <2>3, LatestIs
  <2> QED  BY <2>1, <2>4 DEF S
<1>2. ASSUME c # e.cmd
      PROVE  /\ Tells(j2, last, c) = Tells(j, last, c)
             /\ Tells(j, last, c) # {} => j2[Latest(Tells(j, last, c))] = j[Latest(Tells(j, last, c))]
  <2>1. ASSUME NEW i  PROVE i \in Tells(j2, last, c) <=> i \in Tells(j, last, c)
    <3>1. CASE i = n + 1
      BY <1>0, <1>2, <3>1 DEF Tells
    <3>2. CASE i # n + 1
      BY <1>0, <3>2 DEF Tells
    <3> QED  BY <3>1, <3>2
  <2>2. Tells(j2, last, c) = Tells(j, last, c)
    BY <2>1
  <2> QED  BY <2>2, TellsType
<1> QED  BY <1>1, <1>2

\* What is left of a journal tells the same, if nothing behind "last" was dropped.
LEMMA TellsLess ==
  ASSUME NEW j \in Seq(Event), NEW j2 \in Seq(Event), NEW last \in Nat, NEW k \in Nat,
         Len(j) = k + Len(j2), \A i \in 1..Len(j2) : j2[i] = j[k + i],
         \A i \in 1..k : ~(j[i].seq > last),
         NEW c
  PROVE  /\ Tells(j, last, c) = {} <=> Tells(j2, last, c) = {}
         /\ Tells(j, last, c) # {} => j2[Latest(Tells(j2, last, c))] = j[Latest(Tells(j, last, c))]
<1> DEFINE n == Len(j)  m == Len(j2)  S == Tells(j, last, c)  T == Tells(j2, last, c)
<1>0. n \in Nat /\ m \in Nat /\ n = k + m
  OBVIOUS
<1>1. S \in SUBSET (1..n) /\ T \in SUBSET (1..m)
  BY DEF Tells
<1>2. ASSUME NEW i \in T  PROVE k + i \in S /\ j2[i] = j[k + i]
  <2>1. i \in 1..m /\ k + i \in 1..n /\ j2[i].seq > last /\ j2[i].cmd = c
    BY <1>0 DEF Tells
  <2>2. j2[i] = j[k + i]
    BY <2>1
  <2> QED  BY <2>1, <2>2 DEF Tells
<1>3. ASSUME NEW i \in S  PROVE i - k \in T
  <2>1. i \in 1..n /\ j[i].seq > last /\ j[i].cmd = c
    BY DEF Tells
  <2>2. i \notin 1..k
    BY <2>1
  <2>3. i - k \in 1..m /\ k + (i - k) = i
    BY <1>0, <2>1, <2>2
  <2>4. j2[i - k] = j[i]
    BY <2>3
  <2> QED  BY <2>1, <2>3, <2>4 DEF Tells
<1> HIDE DEF n, m, S, T
<1>4. S = {} <=> T = {}
  BY <1>2, <1>3
<1>5. ASSUME S # {}  PROVE j2[Latest(T)] = j[Latest(S)]
  <2>1. Latest(T) \in T /\ \A i \in T : i <= Latest(T)
    BY <1>0, <1>1, <1>4, <1>5, LatestIn
  <2>2. k + Latest(T) \in S
    BY <1>2, <2>1
  <2>3. ASSUME NEW i \in S  PROVE i <= k + Latest(T)
    <3>1. i - k \in T
      BY <1>3
    <3>2. i - k <= Latest(T)
      BY <2>1, <3>1
    <3>3. i \in 1..n /\ Latest(T) \in 1..m
      BY <1>1, <2>1
    <3> QED  BY <1>0, <3>2, <3>3
  <2>4. Latest(S) = k + Latest(T)
    BY <1>0, <1>1, <2>2, <2>3, LatestIs
  <2> QED  BY <1>2, <2>1, <2>4
<1> QED  BY <1>4, <1>5 DEF S, T

-----------------------------------------------------------------------------
(* Mirror: memory is what a reader makes of the files.                      *)

Reads(reg) == reg.cmds = Recorded /\ reg.closed = WasClosed

Mirror ==
  Live => /\ writing = <<>> => Reads(mem)
          /\ writing # <<>> => Reads(Apply(mem, writing[1]))

\* Files that stay say the same.
LEMMA ReadsStay ==
  ASSUME TypeOK, UNCHANGED <<archive, current, saved>>
  PROVE  Recorded' = Recorded /\ WasClosed' = WasClosed
<1>1. Journal \in Seq(Event) /\ saved \in Registry /\ Journal' = Journal /\ saved' = saved
  BY JournalType DEF TypeOK, Journal
<1>2. Journal' \in Seq(Event) /\ saved' \in Registry
  BY <1>1
<1> QED  BY <1>1, <1>2, FilesSay, FilesSayNext

\* An append changes what the files say as applying the event changes a registry.
LEMMA AppendReads ==
  ASSUME DeliveryInvariant, FilesInvariant, AppendEvent
  PROVE  \E e \in Event :
           /\ writing' # <<>> /\ writing'[1] = e /\ e.kind = Head(work).to
           /\ \/ /\ Head(work).op = "move" /\ e.cmd \in Head(work).cmds
                 /\ e.cmd \in Commands /\ Permitted(mem.cmds[e.cmd], e.kind)
              \/ Head(work).op = "note" /\ e.cmd = NoCommand
           /\ Recorded' = IF e.cmd \in Commands THEN [Recorded EXCEPT ![e.cmd] = e.kind] ELSE Recorded
           /\ WasClosed' = IF e.cmd \in Commands THEN WasClosed ELSE e.kind = "supervisor_ended"
<1>0. /\ archive \in Seq(Event) /\ current \in Seq(Event) /\ saved \in Registry /\ mem \in Registry
      /\ mem.last \in Nat /\ saved.last \in Nat /\ writing = <<>> /\ Live /\ saved' = saved
  BY WorkerLives, RegistryFields DEF DeliveryInvariant, TypeOK, AppendEvent, Recording
<1>1. PICK e \in Event :
           /\ writing' # <<>> /\ writing'[1] = e /\ e.seq = mem.last + 1 /\ e.kind = Head(work).to
           /\ \/ /\ Head(work).op = "move" /\ e.cmd \in Head(work).cmds
                 /\ e.cmd \in Commands /\ Permitted(mem.cmds[e.cmd], e.kind)
              \/ Head(work).op = "note" /\ e.cmd = NoCommand
           /\ Journal' \in Seq(Event) /\ Len(Journal) \in Nat
           /\ Len(Journal') = Len(Journal) + 1
           /\ \A i \in 1..Len(Journal) : Journal'[i] = Journal[i]
           /\ Journal'[Len(Journal) + 1] = e
  BY Appended
<1> DEFINE j == Journal  j2 == Journal'  last == saved.last
<1>2. j \in Seq(Event) /\ j2 \in Seq(Event) /\ saved' \in Registry
  BY <1>0, <1>1, JournalType
<1>3. e.seq > last
  <2>1. mem.last = EndSeq /\ saved.last <= EndSeq
    BY <1>0 DEF FilesInvariant, InStep, Joined
  <2> QED  BY <1>0, <1>1, <2>1
<1>4. ASSUME NEW c
      PROVE  /\ c = e.cmd => Tells(j2, last, c) # {} /\ j2[Latest(Tells(j2, last, c))] = e
             /\ c # e.cmd => /\ Tells(j2, last, c) = Tells(j, last, c)
                             /\ Tells(j, last, c) # {} => j2[Latest(Tells(j, last, c))] = j[Latest(Tells(j, last, c))]
  <2>1. /\ Len(j2) = Len(j) + 1 /\ \A i \in 1..Len(j) : j2[i] = j[i]
        /\ j2[Len(j2)] = e /\ e \in Event /\ e.seq > last
        /\ j \in Seq(Event) /\ j2 \in Seq(Event) /\ last \in Nat
    BY <1>0, <1>1, <1>2, <1>3
  <2> HIDE DEF j, j2, last
  <2> QED  BY <2>1, TellsMore
<1>5. /\ Recorded = [c \in Commands |-> IF Tells(j, last, c) = {} THEN saved.cmds[c]
                                        ELSE j[Latest(Tells(j, last, c))].kind]
      /\ WasClosed = IF Tells(j, last, NoCommand) = {} THEN saved.closed
                     ELSE j[Latest(Tells(j, last, NoCommand))].kind = "supervisor_ended"
  BY <1>0, <1>2, FilesSay
<1>6. /\ Recorded' = [c \in Commands |-> IF Tells(j2, last, c) = {} THEN saved.cmds[c]
                                         ELSE j2[Latest(Tells(j2, last, c))].kind]
      /\ WasClosed' = IF Tells(j2, last, NoCommand) = {} THEN saved.closed
                      ELSE j2[Latest(Tells(j2, last, NoCommand))].kind = "supervisor_ended"
  BY <1>0, <1>2, FilesSayNext
<1> HIDE DEF j, j2, last
<1>7. Recorded' = IF e.cmd \in Commands THEN [Recorded EXCEPT ![e.cmd] = e.kind] ELSE Recorded
  <2>1. ASSUME NEW c \in Commands  PROVE Recorded'[c] = IF c = e.cmd THEN e.kind ELSE Recorded[c]
    BY <1>4, <1>5, <1>6
  <2>2. Recorded' = [c \in Commands |-> Recorded'[c]] /\ Recorded = [c \in Commands |-> Recorded[c]]
    BY <1>5, <1>6
  <2> HIDE DEF Recorded
  <2> QED  BY <2>1, <2>2
<1>8. WasClosed' = IF e.cmd \in Commands THEN WasClosed ELSE e.kind = "supervisor_ended"
  BY <1>4, <1>5, <1>6, NoCommandIsNone, EventFields
<1> QED  BY <1>1, <1>7, <1>8

\* A rotation drops only saved events, and changes nothing that the files say.
LEMMA RotateReads ==
  ASSUME DeliveryInvariant, FilesInvariant, FilesInvariant', Rotate
  PROVE  Recorded' = Recorded /\ WasClosed' = WasClosed
<1>0. /\ archive \in Seq(Event) /\ current \in Seq(Event) /\ saved \in Registry
      /\ saved.last \in Nat /\ saved' = saved /\ EndSeq \in Nat
  BY EndType, RegistryFields DEF DeliveryInvariant, TypeOK, Rotate
<1>1. PICK k \in Nat :
        /\ Journal' \in Seq(Event) /\ Len(Journal) \in Nat /\ Len(Journal') \in Nat
        /\ Len(Journal) = k + Len(Journal')
        /\ \A i \in 1..Len(Journal') : Journal'[i] = Journal[k + i]
        /\ k > 0 => Len(Journal') >= SegmentSize
  BY <1>0, RotateJournal
<1>2. Journal \in Seq(Event)
  BY <1>0, JournalType
<1>3. ASSUME k > 0  PROVE EndSeq <= saved.last + Len(Journal')
  <2>1. Len(Journal') \in 1..Len(Journal') /\ Len(Journal) \in 1..Len(Journal)
    BY <1>1, <1>3, ConstantAssumption
  <2>2. Journal'[Len(Journal')] = Journal[Len(Journal)]
    BY <1>1, <2>1
  <2>3. Journal' # <<>> /\ Journal # <<>>
    BY <2>1
  <2>4. EndSeq' = EndSeq
    BY <2>2, <2>3 DEF EndSeq, LastEvent
  <2> QED  BY <1>0, <2>4 DEF FilesInvariant, Joined
<1>4. \A i \in 1..k : ~(Journal[i].seq > saved.last)
  <2> SUFFICES ASSUME NEW i \in 1..k  PROVE ~(Journal[i].seq > saved.last)
    OBVIOUS
  <2> DEFINE s == Journal[i].seq  l == Len(Journal)  m == Len(Journal')  last == saved.last
  <2>1. i \in 1..Len(Journal) /\ k > 0
    BY <1>1
  <2>2. s + l = EndSeq + i /\ s \in Nat
    BY <1>0, <2>1, EndType DEF FilesInvariant, Numbered
  <2>3. EndSeq <= last + m /\ l = k + m /\ l \in Nat /\ m \in Nat /\ last \in Nat /\ i <= k /\ i \in Nat
    BY <1>0, <1>1, <1>3, <2>1
  <2> HIDE DEF s, l, m, last
  <2>4. ~(s > last)
    BY <1>0, <2>2, <2>3
  <2> QED  BY <2>4 DEF s, last
<1> DEFINE j == Journal  j2 == Journal'  last == saved.last
<1>5. ASSUME NEW c
      PROVE  /\ Tells(j, last, c) = {} <=> Tells(j2, last, c) = {}
             /\ Tells(j, last, c) # {} => j2[Latest(Tells(j2, last, c))] = j[Latest(Tells(j, last, c))]
  <2>1. /\ j \in Seq(Event) /\ j2 \in Seq(Event) /\ last \in Nat /\ Len(j) = k + Len(j2)
        /\ \A i \in 1..Len(j2) : j2[i] = j[k + i]
        /\ \A i \in 1..k : ~(j[i].seq > last)
    BY <1>0, <1>1, <1>2, <1>4
  <2> HIDE DEF j, j2, last
  <2> QED  BY <2>1, TellsLess
<1>6. /\ Recorded = [c \in Commands |-> IF Tells(j, last, c) = {} THEN saved.cmds[c]
                                        ELSE j[Latest(Tells(j, last, c))].kind]
      /\ WasClosed = IF Tells(j, last, NoCommand) = {} THEN saved.closed
                     ELSE j[Latest(Tells(j, last, NoCommand))].kind = "supervisor_ended"
  BY <1>0, <1>2, FilesSay
<1>7. /\ Recorded' = [c \in Commands |-> IF Tells(j2, last, c) = {} THEN saved.cmds[c]
                                         ELSE j2[Latest(Tells(j2, last, c))].kind]
      /\ WasClosed' = IF Tells(j2, last, NoCommand) = {} THEN saved.closed
                      ELSE j2[Latest(Tells(j2, last, NoCommand))].kind = "supervisor_ended"
  BY <1>0, <1>1, FilesSayNext
<1> HIDE DEF j, j2, last
<1>8. Recorded' = Recorded
  <2>1. ASSUME NEW c \in Commands  PROVE Recorded'[c] = Recorded[c]
    BY <1>5, <1>6, <1>7
  <2>2. Recorded' = [c \in Commands |-> Recorded'[c]] /\ Recorded = [c \in Commands |-> Recorded[c]]
    BY <1>6, <1>7
  <2> HIDE DEF Recorded
  <2> QED  BY <2>1, <2>2
<1>9. WasClosed' = WasClosed
  BY <1>5, <1>6, <1>7
<1> QED  BY <1>8, <1>9

\* After a save the registry says what the files say.
LEMMA SaveReads ==
  ASSUME DeliveryInvariant, FilesInvariant', SaveRegistry
  PROVE  Recorded' = mem'.cmds /\ WasClosed' = mem'.closed
<1>0. /\ archive' \in Seq(Event) /\ current' \in Seq(Event) /\ saved' = mem'
      /\ saved'.last \in Nat /\ Journal' = Journal
      /\ Journal \in Seq(Event) /\ Len(Journal) \in Nat
      /\ \A i \in 1..Len(Journal) : Journal[i].seq \in Nat
  <2>1. DeliveryInvariant'
    BY DeliverySave
  <2>2. archive \in Seq(Event) /\ current \in Seq(Event) /\ UNCHANGED <<archive, current>> /\ saved' \in Registry
    BY <2>1 DEF DeliveryInvariant, TypeOK, SaveRegistry
  <2> QED  BY <2>2, EndType, RegistryFields DEF SaveRegistry, Journal
<1>1. Newer' = {}
  <2> SUFFICES ASSUME NEW i \in 1..Len(Journal), Journal[i].seq > saved'.last  PROVE FALSE
    <3>1. DOMAIN Journal = 1..Len(Journal)
      BY <1>0
    <3> QED  BY <1>0, <3>1 DEF Newer
  <2> DEFINE s == Journal[i].seq  l == Len(Journal)  last == saved'.last
  <2>1. s + l = EndSeq' + i
    BY <1>0 DEF FilesInvariant, Numbered
  <2>2. Live' /\ writing' = <<>>
    <3>1. writing # <<>> /\ proc' = proc /\ writing' = <<>>
      BY DEF SaveRegistry
    <3> QED  BY <3>1, WorkerLives DEF Live
  <2>3. last = EndSeq'
    BY <1>0, <2>2 DEF FilesInvariant, InStep
  <2>4. s \in Nat /\ l \in Nat /\ last \in Nat /\ i \in Nat /\ i <= l /\ s > last
    BY <1>0
  <2>5. s + l = last + i
    BY <2>1, <2>3
  <2> HIDE DEF s, l, last
  <2> QED  BY <2>4, <2>5
<1> QED  BY <1>0, <1>1 DEF Recorded, WasClosed, About

\* Files that stay and a process that goes on with the same registry, or is gone.
LEMMA MirrorStays ==
  ASSUME TypeOK, Mirror, UNCHANGED <<archive, current, saved>>,
         Live' => Live /\ UNCHANGED <<mem, writing>>
  PROVE  Mirror'
<1>1. Recorded' = Recorded /\ WasClosed' = WasClosed
  BY ReadsStay
<1> QED  BY <1>1 DEF Mirror, Reads, Apply

\* A process that has read the files knows what they say.
LEMMA MirrorBegins ==
  ASSUME DeliveryInvariant, FilesInvariant, Start \/ (Stop /\ ~Gone)
  PROVE  Mirror'
<1>1. TypeOK /\ UNCHANGED <<archive, current, saved>>
  BY DEF DeliveryInvariant, Start, Stop, disk
<1>2. Recorded' = Recorded /\ WasClosed' = WasClosed
  BY <1>1, ReadsStay
<1>3. writing' = <<>>
  BY DEF DeliveryInvariant, Quiet, Live, Start, Stop
<1>4. Replayed \in Registry /\ Replayed.cmds = Recorded /\ Replayed.closed = WasClosed
  BY ReplayedType DEF DeliveryInvariant, TypeOK, Replayed
<1>5. mem' = Replayed \/ mem' = [Replayed EXCEPT !.gen = NextGeneration]
  BY DEF Start, Stop
<1>6. mem'.cmds = Recorded /\ mem'.closed = WasClosed
  BY <1>4, <1>5 DEF Registry
<1> QED  BY <1>2, <1>3, <1>6 DEF Mirror, Reads

LEMMA MirrorAppend ==
  ASSUME DeliveryInvariant, FilesInvariant, Mirror, AppendEvent
  PROVE  Mirror'
<1>1. PICK e \in Event :
           /\ writing' # <<>> /\ writing'[1] = e
           /\ Recorded' = IF e.cmd \in Commands THEN [Recorded EXCEPT ![e.cmd] = e.kind] ELSE Recorded
           /\ WasClosed' = IF e.cmd \in Commands THEN WasClosed ELSE e.kind = "supervisor_ended"
  BY AppendReads
<1>2. writing = <<>> /\ Live /\ mem' = mem
  BY WorkerLives DEF AppendEvent, Recording
<1>3. mem.cmds = Recorded /\ mem.closed = WasClosed
  BY <1>2 DEF Mirror, Reads
<1>4. Apply(mem', writing'[1]) = Apply(mem, e)
  BY <1>1, <1>2
<1>5. Apply(mem, e).cmds = Recorded' /\ Apply(mem, e).closed = WasClosed'
  BY <1>1, <1>3 DEF Apply
<1> QED  BY <1>1, <1>4, <1>5 DEF Mirror, Reads

LEMMA MirrorNext ==
  ASSUME DeathsAreFew, DeliveryInvariant, FilesInvariant, FilesInvariant', Mirror, [Next]_vars
  PROVE  Mirror'
<1>0. TypeOK
  BY DEF DeliveryInvariant
<1>1. ASSUME UNCHANGED <<disk, mem, writing, proc>>  PROVE Mirror'
  BY <1>0, <1>1, MirrorStays DEF disk, Live
<1>2. ASSUME UNCHANGED <<archive, current, saved>>, ~Live'  PROVE Mirror'
  BY <1>0, <1>2, MirrorStays
<1>3. ASSUME UNCHANGED <<disk, mem, writing>>, Live  PROVE Mirror'
  BY <1>0, <1>3, MirrorStays DEF disk
<1>4. ASSUME (\E k \in Clients : Client(k)) \/ Pi \/ UNCHANGED vars  PROVE Mirror'
  <2>1. UNCHANGED <<disk, process>>
    BY <1>4 DEF Client, Ask, Post, Leave, Vanish, Pi, PiDies, Decide, vars
  <2> QED  BY <1>1, <2>1 DEF process
<1>5. ASSUME Record  PROVE Mirror'
  <2>1. ASSUME Rotate  PROVE Mirror'
    <3>1. UNCHANGED <<proc, mem, writing>> /\ Recorded' = Recorded /\ WasClosed' = WasClosed
      BY <2>1, RotateReads DEF Rotate, process
    <3> QED  BY <3>1 DEF Mirror, Reads, Live, Apply
  <2>2. ASSUME TearAppend  PROVE Mirror'
    BY <1>2, <2>2 DEF TearAppend, Gone, Live
  <2>3. ASSUME SaveRegistry  PROVE Mirror'
    <3>1. Recorded' = mem'.cmds /\ WasClosed' = mem'.closed /\ writing' = <<>>
      BY <2>3, SaveReads DEF SaveRegistry
    <3> QED  BY <3>1 DEF Mirror, Reads
  <2> QED  BY <1>5, <2>1, <2>2, <2>3, MirrorAppend DEF Record
<1>6. ASSUME Crash \/ Exit \/ (Stop /\ Gone)  PROVE Mirror'
  <2>1. UNCHANGED <<archive, current, saved>> /\ ~Live'
    BY <1>6 DEF Crash, Exit, Stop, Gone, Live, disk
  <2> QED  BY <1>2, <2>1
<1>7. ASSUME Handler, ~Exit  PROVE Mirror'
  <2>1. UNCHANGED <<disk, mem, writing>>
    BY <1>7 DEF Handler, Scan, Response, InitialResponse, AgentStart, AgentSettled, Begin, Read, Send,
             Acknowledge, Unlink, Fail, GiveUp
  <2>2. Live
    BY <1>7, WorkerLives DEF Handler, Scan, Response, InitialResponse, AgentStart, AgentSettled, Begin, Read,
             Send, Acknowledge, Unlink, Fail, GiveUp, Idle, At
  <2> QED  BY <1>3, <2>1, <2>2
<1>8. ASSUME NEW how \in {"failed", "clean"}, Finish(how) \/ Interrupt(how)  PROVE Mirror'
  <2>1. UNCHANGED <<disk, mem>> /\ Live
    BY <1>8, WorkerLives DEF Finish, Interrupt
  <2>2. writing' = writing
    BY <1>8 DEF Finish, Interrupt, DeathsAreFew
  <2> QED  BY <1>3, <2>1, <2>2
<1> QED  BY <1>4, <1>5, <1>6, <1>7, <1>8, MirrorBegins DEF Next, Handler, Ending

THEOREM MirrorHolds == ASSUME DeathsAreFew PROVE Spec => []Mirror
<1>1. Init => Mirror
  BY DEF Init, Mirror, Live
<1>2. DeliveryInvariant /\ FilesInvariant /\ FilesInvariant' /\ Mirror /\ [Next]_vars => Mirror'
  BY MirrorNext
<1> QED  BY <1>1, <1>2, DeliveryHolds, FilesHold, PTL DEF Spec

-----------------------------------------------------------------------------
(* The journal implements the log of commands.                              *)

\* The registry's check lets happen what the log does.
LEMMA PermittedFollows ==
  ASSUME NEW old, NEW new, Permitted(old, new)
  PROVE  Log!Follows(old, new) /\ new \in Log!Statuses
<1>1. Log!Statuses = (DOMAIN Log!Transitions \ {"unknown"}) \cup Log!Terminal
  BY DEF Log!Statuses, Log!Open
<1>2. DOMAIN Log!Transitions = {"unknown", "received", "accepted", "started"}
  BY DEF Log!Transitions
<1>3. /\ Log!Transitions["unknown"] = {"received"}
      /\ Log!Transitions["received"] = {"accepted", "rejected", "uncertain"}
      /\ Log!Transitions["accepted"] = {"started", "completed", "failed", "aborted", "uncertain"}
      /\ Log!Transitions["started"] = {"completed", "failed", "aborted", "uncertain"}
  BY DEF Log!Transitions
<1>4. Log!Terminal = {"completed", "failed", "aborted", "rejected", "uncertain"}
  BY DEF Log!Terminal
<1> QED  BY <1>1, <1>2, <1>3, <1>4 DEF Log!Follows, Permitted

LogUnchanged == Recorded' = Recorded /\ sent' = sent /\ verdict' = verdict

LEMMA LogStutters ==
  ASSUME LogUnchanged
  PROVE  UNCHANGED Log!vars
  BY DEF LogUnchanged, Log!vars

LEMMA LogInit == Init => Log!Init
<1> SUFFICES ASSUME Init  PROVE Log!Init
  OBVIOUS
<1>1. Journal = <<>> /\ saved = Blank
  BY EmptyType DEF Init, Journal
<1>2. Newer = {}
  BY <1>1 DEF Newer
<1>3. Recorded = [c \in Commands |-> "unknown"]
  BY <1>1, <1>2 DEF Recorded, Blank
<1>4. [c \in Commands |-> Len(sent[c])] = [c \in Commands |-> 0]
  BY EmptyType DEF Init
<1>5. verdict = [c \in Commands |-> "none"]
  BY DEF Init
<1> QED  BY <1>3, <1>4, <1>5 DEF Log!Init

\* A status change is a move of the log; a lifecycle event is none of its business.
LEMMA LogAppend ==
  ASSUME DeliveryInvariant, FilesInvariant, Mirror, AnswersInvariant, AppendEvent
  PROVE  Log!Next \/ LogUnchanged
<1>1. PICK e \in Event :
           /\ e.kind = Head(work).to
           /\ \/ /\ Head(work).op = "move" /\ e.cmd \in Head(work).cmds
                 /\ e.cmd \in Commands /\ Permitted(mem.cmds[e.cmd], e.kind)
              \/ Head(work).op = "note" /\ e.cmd = NoCommand
           /\ Recorded' = IF e.cmd \in Commands THEN [Recorded EXCEPT ![e.cmd] = e.kind] ELSE Recorded
  BY AppendReads
<1>2. /\ writing = <<>> /\ Live /\ work # <<>> /\ sent' = sent /\ verdict' = verdict
  BY WorkerLives DEF AppendEvent, Recording, pi
<1>3. mem.cmds = Recorded
  BY <1>2 DEF Mirror, Reads
<1>4. CASE Head(work).op = "note"
  BY <1>1, <1>2, <1>4, NoCommandIsNone DEF LogUnchanged
<1>5. CASE Head(work).op = "move"
  <2>1. e.cmd \in Commands /\ e.cmd \in Head(work).cmds /\ Permitted(Recorded[e.cmd], e.kind)
    BY <1>1, <1>3, <1>5
  <2>2. Log!Follows(Recorded[e.cmd], e.kind) /\ e.kind \in Log!Statuses
    BY <2>1, PermittedFollows
  <2>3. (e.kind = "accepted" => verdict[e.cmd] = "yes") /\ (e.kind = "rejected" => verdict[e.cmd] = "no")
    <3>1. Head(work) \in TrueItems
      BY <1>2, HeadTailProperties DEF AnswersInvariant
    <3> QED  BY <1>1, <1>5, <2>1, <3>1 DEF TrueItems, Telling, Answered, Successful
  <2>4. Recorded' = [Recorded EXCEPT ![e.cmd] = e.kind]
    BY <1>1, <2>1
  <2>5. Log!Move(e.cmd, e.kind)
    BY <1>2, <2>2, <2>3, <2>4 DEF Log!Move
  <2> QED  BY <2>1, <2>2, <2>5 DEF Log!Next
<1> QED  BY <1>1, <1>4, <1>5

\* What Pi is given is recorded as received, and was not given to it before.
LEMMA LogSend ==
  ASSUME DeliveryInvariant, Mirror, HandlerInvariant, Send
  PROVE  Log!Next \/ LogUnchanged
<1>1. /\ TypeOK /\ work \in Seq(Items) /\ work # <<>> /\ Head(work).op = "send" /\ writing = <<>> /\ Live
      /\ sent \in [Commands -> Seq(Nat)] /\ mem.gen \in Nat
      /\ Subject \in Commands /\ Head(work).cmds = {Subject}
  BY SubjectType, WorkerLives, RegistryFields DEF DeliveryInvariant, TypeOK, Send, At
<1>2. UNCHANGED <<archive, current, saved, verdict>>
  BY DEF Send, disk
<1>3. Recorded' = Recorded
  BY <1>1, <1>2, ReadsStay
<1>4. CASE ~piUp
  BY <1>2, <1>3, <1>4 DEF Send, LogUnchanged
<1>5. CASE piUp
  <2>1. sent' = [sent EXCEPT ![Subject] = Append(@, mem.gen)]
    BY <1>5 DEF Send
  <2>2. sent[Subject] = <<>>
    <3>1. 1 \in DOMAIN work /\ work[1] = Head(work)
      BY <1>1
    <3>2. \A c \in work[1].cmds : Due(c)
      <4>1. work[1].op = "send"
        BY <1>1, <3>1
      <4> QED  BY <3>1, <4>1 DEF DeliveryInvariant, SendsFollow
    <3> QED  BY <1>1, <3>1, <3>2 DEF Due
  <2>3. Recorded[Subject] = "received"
    <3>1. mem.cmds[Subject] = "received"
      BY <1>1 DEF HandlerInvariant, Doable, Fits
    <3> QED  BY <1>1, <3>1 DEF Mirror, Reads
  <2>4. Len(sent[Subject]) = 0 /\ Len(Append(sent[Subject], mem.gen)) = 1
    BY <1>1, <2>2, EmptyType, AppendProperties
  <2>5. [c \in Commands |-> Len(sent'[c])] = [[c \in Commands |-> Len(sent[c])] EXCEPT ![Subject] = 1]
    <3>1. \A c \in Commands : Len(sent'[c]) = IF c = Subject THEN 1 ELSE Len(sent[c])
      BY <1>1, <2>1, <2>4
    <3> QED  BY <1>1, <3>1
  <2>6. [c \in Commands |-> Len(sent[c])][Subject] = 0
    BY <1>1, <2>4
  <2>7. PICK c \in Commands : c = Subject
    BY <1>1
  <2>8. Log!Deliver(c)
    BY <1>2, <1>3, <2>3, <2>5, <2>6, <2>7, Zenon DEF Log!Deliver
  <2> QED  BY <2>8 DEF Log!Next
<1> QED  BY <1>4, <1>5

LEMMA LogDecide ==
  ASSUME DeliveryInvariant, NEW c \in Commands, NEW v \in {"yes", "no"}, Decide(c, v)
  PROVE  Log!Next
<1>1. TypeOK /\ UNCHANGED <<archive, current, saved, sent>>
  BY DEF DeliveryInvariant, Decide, disk
<1>2. Recorded' = Recorded
  BY <1>1, ReadsStay
<1>3. Len(sent[c]) > 0
  <2>1. sent[c] \in Seq(Nat) /\ sent[c] # <<>>
    BY <1>1 DEF TypeOK, Decide
  <2> QED  BY <2>1
<1>4. Log!Answer(c, v)
  BY <1>1, <1>2, <1>3 DEF Log!Answer, Decide
<1> QED  BY <1>4 DEF Log!Next

LEMMA LogNext ==
  ASSUME DeathsAreFew, DeliveryInvariant, FilesInvariant, FilesInvariant', Mirror,
         AnswersInvariant, HandlerInvariant, [Next]_vars
  PROVE  [Log!Next]_(Log!vars)
<1>1. ASSUME UNCHANGED <<archive, current, saved, sent, verdict>>  PROVE LogUnchanged
  BY <1>1, ReadsStay DEF DeliveryInvariant, LogUnchanged
<1>2. ASSUME (\E k \in Clients : Client(k)) \/ PiDies \/ UNCHANGED vars  PROVE LogUnchanged
  <2>1. UNCHANGED <<disk, sent, verdict>>
    BY <1>2 DEF Client, Ask, Post, Leave, Vanish, PiDies, vars, pi
  <2> QED  BY <1>1, <2>1 DEF disk
<1>3. ASSUME Rotate \/ TearAppend \/ SaveRegistry  PROVE LogUnchanged
  <2>1. ASSUME Rotate  PROVE LogUnchanged
    BY <2>1, RotateReads DEF LogUnchanged, Rotate, pi
  <2>2. ASSUME TearAppend  PROVE LogUnchanged
    BY <1>1, <2>2 DEF TearAppend
  <2>3. ASSUME SaveRegistry  PROVE LogUnchanged
    <3>1. Live /\ writing # <<>> /\ mem' = Apply(mem, writing[1])
      BY <2>3, WorkerLives DEF SaveRegistry
    <3>2. Recorded' = mem'.cmds /\ mem'.cmds = Recorded
      BY <2>3, <3>1, SaveReads DEF Mirror, Reads
    <3> QED  BY <2>3, <3>2 DEF SaveRegistry, pi, LogUnchanged
  <2> QED  BY <1>3, <2>1, <2>2, <2>3
<1>4. ASSUME Start \/ Ending \/ (Handler /\ ~Send)  PROVE LogUnchanged
  <2>1. ASSUME Start \/ Ending  PROVE UNCHANGED <<disk, sent, verdict>>
    BY <2>1 DEF Start, Ending, Stop, Crash, Finish, Interrupt, pi
  <2>2. ASSUME Handler, ~Send  PROVE UNCHANGED <<disk, sent, verdict>>
    BY <2>2 DEF Handler, Scan, Response, InitialResponse, AgentStart, AgentSettled, Begin, Read,
             Acknowledge, Unlink, Fail, GiveUp, Exit, pi
  <2> QED  BY <1>1, <1>4, <2>1, <2>2 DEF disk
<1>5. Log!Next \/ LogUnchanged
  BY <1>2, <1>3, <1>4, LogAppend, LogSend, LogDecide DEF Next, Pi, Record, Handler
<1> QED  BY <1>5, LogStutters

\* The files, read as a reader would, are a log of commands: a command is recorded before
\* Pi gets it, Pi gets it at most once over all generations, what is recorded as its
\* answer is its answer, and a final record stays, whatever dies in between.
THEOREM JournalImplementsLog == ASSUME DeathsAreFew PROVE Spec => Implements
<1>1. DeliveryInvariant /\ FilesInvariant /\ FilesInvariant' /\ Mirror /\ AnswersInvariant /\ HandlerInvariant
        /\ [Next]_vars => [Log!Next]_(Log!vars)
  BY LogNext
<1> QED  BY <1>1, LogInit, DeliveryHolds, FilesHold, MirrorHolds, AnswersHold, HandlersHold, PTL
         DEF Spec, Implements, Log!Spec

-----------------------------------------------------------------------------
(* Closing: the end is recorded last.                                       *)

Ends(it)  == it.to = "supervisor_ended"
Final(it) == it.op = "move" /\ it.to \in Terminal

\* Before the end is noted only final statuses are recorded, one for every command that
\* is open now; behind it nothing is recorded.
Closes(s, open) ==
  \A i \in 1..Len(s) : Ends(s[i]) =>
    /\ \A j \in 1..(i - 1) : Final(s[j])
    /\ \A c \in open : \E j \in 1..(i - 1) : c \in s[j].cmds
    /\ \A j \in (i + 1)..Len(s) : s[j].op = "exit"

\* A handler that does not end anything.
Tame(s) == s \in Seq(Items) /\ \A i \in 1..Len(s) : ~Ends(s[i])

\* What the files say, and what registry.json says alone.
FilesShut == WasClosed => \A c \in Commands : Recorded[c] \notin Open
Leaving   == \A i \in 1..Len(work) : work[i].op = "exit"

ClosingInvariant ==
  /\ FilesShut /\ ClosedIsFinal
  /\ Closes(work, Of(mem, Open))
  /\ proc = "running" => Tame(work)
  /\ Live /\ mem.closed => proc # "running" /\ (BeginsHere \/ Leaving)

LEMMA TameOne ==
  ASSUME NEW it \in Items, ~Ends(it)
  PROVE  Tame(<<it>>)
  BY DEF Tame

LEMMA TameEmpty == Tame(<<>>)
  BY EmptyType DEF Tame

LEMMA TameJoin ==
  ASSUME NEW s, NEW t, Tame(s), Tame(t)
  PROVE  Tame(s \o t)
  BY DEF Tame

\* Only a lifecycle event can note the end.
LEMMA TameItem ==
  ASSUME NEW it \in Items, it.op # "note"
  PROVE  ~Ends(it)
  BY DEF Items, Ends, AckValues, Successful, Statuses, Open, Terminal

LEMMA TameMoves ==
  ASSUME NEW S \in SUBSET Commands, NEW to \in Statuses
  PROVE  Tame(Moves(S, to))
<1>1. Item("move", S, to) \in Items /\ Item("move", S, to).op = "move"
  BY DEF Item, Items
<1>2. S # {} => Moves(S, to) = <<Item("move", S, to)>>
  BY DEF Moves
<1>3. S = {} => Moves(S, to) = <<>>
  BY DEF Moves
<1> QED  BY <1>1, <1>2, <1>3, TameItem, TameOne, TameEmpty

LEMMA TameNote ==
  ASSUME NEW kind \in Lifecycle, kind # "supervisor_ended"
  PROVE  Tame(Note(kind))
<1>1. Item("note", {}, kind) \in Items /\ Item("note", {}, kind).to = kind
  BY DEF Item, Items
<1> QED  BY <1>1, TameOne DEF Note, Ends

LEMMA TameAck ==
  ASSUME NEW c \in Mail, NEW value \in AckValues
  PROVE  Tame(Ack(c, value))
<1>1. Item("ack", {c}, value) \in Items /\ Item("ack", {c}, value).op = "ack"
  BY DEF Item, Items
<1> QED  BY <1>1, TameItem, TameOne DEF Ack

LEMMA TameDo ==
  /\ \A c \in Commands : Tame(Do("begin", c)) /\ Tame(Do("send", c))
  /\ \A c \in Mail : Tame(Do("read", c)) /\ Tame(Do("unlink", c))
  /\ Tame(Only("fail")) /\ Tame(Only("exit"))
<1>1. ASSUME NEW c \in Commands, NEW op \in {"begin", "send"}  PROVE Tame(Do(op, c))
  <2>1. Item(op, {c}, "") \in Items /\ Item(op, {c}, "").op = op
    BY DEF Item, Items
  <2> QED  BY <2>1, TameItem, TameOne DEF Do
<1>2. ASSUME NEW c \in Mail, NEW op \in {"read", "unlink"}  PROVE Tame(Do(op, c))
  <2>1. Item(op, {c}, "") \in Items /\ Item(op, {c}, "").op = op
    BY DEF Item, Items
  <2> QED  BY <2>1, TameItem, TameOne DEF Do
<1>3. ASSUME NEW op \in {"fail", "exit"}  PROVE Tame(Only(op))
  <2>1. Item(op, {}, "") \in Items /\ Item(op, {}, "").op = op
    BY DEF Item, Items
  <2> QED  BY <2>1, TameItem, TameOne DEF Only
<1> QED  BY <1>1, <1>2, <1>3

LEMMA TameFinally ==
  ASSUME pending \subseteq Mail, NEW how \in {"failed", "clean"}
  PROVE  Tame(Finally(how))
<1>1. Item("giveup", pending, how) \in Items /\ Item("giveup", pending, how).op = "giveup"
  BY DEF Item, Items
<1> QED  BY <1>1, TameItem, TameOne DEF Finally

LEMMA TameCloses ==
  ASSUME NEW s, NEW open, Tame(s)
  PROVE  Closes(s, open)
  BY DEF Tame, Closes

LEMMA TwoLast ==
  ASSUME NEW m \in Seq(Items), NEW t \in Seq(Items), Len(t) = 2
  PROVE  /\ Len(m) \in Nat /\ Len(m \o t) = Len(m) + 2 /\ (m \o t)[Len(m) + 2] = t[2]
         /\ \A j \in 1..Len(m) : (m \o t)[j] = m[j] /\ m[j] \in Items
<1>1. Len(m) \in Nat
  OBVIOUS
<1>2. Len(m \o t) = Len(m) + Len(t)
  BY ConcatProperties
<1>3. \A j \in 1..(Len(m) + Len(t)) : (m \o t)[j] = IF j <= Len(m) THEN m[j] ELSE t[j - Len(m)]
  BY ConcatProperties
<1>4. Len(m) + 2 \in 1..(Len(m) + 2) /\ ~(Len(m) + 2 <= Len(m)) /\ (Len(m) + 2) - Len(m) = 2
  BY <1>1
<1>5. \A j \in 1..Len(m) : j \in 1..(Len(m) + 2) /\ j <= Len(m) /\ m[j] \in Items
  BY <1>1
<1> QED  BY <1>1, <1>2, <1>3, <1>4, <1>5

\* Final statuses for all that is open, then the end.
LEMMA ClosersClose ==
  ASSUME NEW m \in Seq(Items), \A j \in 1..Len(m) : Final(m[j]),
         NEW open, \A c \in open : \E j \in 1..Len(m) : c \in m[j].cmds
  PROVE  Closes(m \o (Note("supervisor_ended") \o Only("exit")), open)
<1> DEFINE n == Item("note", {}, "supervisor_ended")
           x == Item("exit", {}, "")
           t == <<n>> \o <<x>>
           w == m \o t
<1>1. n \in Items /\ x \in Items /\ x.op = "exit" /\ ~Ends(x)
  <2>1. n \in Items
    BY StatusNames DEF Item, Items
  <2>2. x \in Items /\ x.op = "exit"
    BY DEF Item, Items
  <2> QED  BY <2>1, <2>2, TameItem
<1>2. \A it \in Items : Final(it) => ~Ends(it)
  BY TameItem DEF Final
<1> HIDE DEF n, x
<1>3. t \in Seq(Items) /\ Len(t) = 2 /\ t[1] = n /\ t[2] = x
  BY <1>1 DEF t
<1> HIDE DEF t
<1>4. Len(m) \in Nat /\ Len(w) = Len(m) + 2 /\ w[Len(m) + 2] = x
      /\ \A j \in 1..Len(m) : w[j] = m[j] /\ m[j] \in Items
  BY <1>3, TwoLast DEF w
<1> HIDE DEF w
<1>5. ASSUME NEW i \in 1..Len(w), Ends(w[i])  PROVE i = Len(m) + 1
  <2>1. i \notin 1..Len(m)
    BY <1>2, <1>4, <1>5
  <2>2. i # Len(m) + 2
    BY <1>1, <1>4, <1>5
  <2> QED  BY <1>4, <2>1, <2>2
<1>6. ASSUME NEW j \in (Len(m) + 2)..Len(w)  PROVE w[j].op = "exit"
  <2>1. j = Len(m) + 2
    BY <1>4
  <2> QED  BY <1>1, <1>4, <2>1
<1>7. Closes(w, open)
  <2> SUFFICES ASSUME NEW i \in 1..Len(w), Ends(w[i])
               PROVE  /\ \A j \in 1..(i - 1) : Final(w[j])
                      /\ \A c \in open : \E j \in 1..(i - 1) : c \in w[j].cmds
                      /\ \A j \in (i + 1)..Len(w) : w[j].op = "exit"
    BY DEF Closes
  <2>1. i = Len(m) + 1 /\ i - 1 = Len(m) /\ i + 1 = Len(m) + 2
    BY <1>4, <1>5
  <2> QED  BY <1>4, <1>6, <2>1
<1> QED  BY <1>7 DEF w, t, n, x, Note, Only

-----------------------------------------------------------------------------
(* Closing: the steps.                                                      *)

\* Files and registry stay.
LEMMA ClosingGoesOn ==
  ASSUME TypeOK, ClosingInvariant, UNCHANGED <<archive, current, saved>>,
         Closes(work', Of(mem, Open)'), proc' = "running" => Tame(work'),
         Live' /\ mem'.closed => proc' # "running" /\ (BeginsHere' \/ Leaving')
  PROVE  ClosingInvariant'
<1>1. Recorded' = Recorded /\ WasClosed' = WasClosed
  BY ReadsStay
<1>2. FilesShut'
  BY <1>1 DEF ClosingInvariant, FilesShut
<1>3. ClosedIsFinal'
  BY DEF ClosingInvariant, ClosedIsFinal, Of
<1>4. (proc = "running" => Tame(work))'
  BY DEF Tame, Ends
<1>5. Closes(work, Of(mem, Open))'
  BY DEF Closes, Final, Ends
<1> QED  BY <1>2, <1>3, <1>4, <1>5 DEF ClosingInvariant

\* Others move.
LEMMA ClosingRests ==
  ASSUME TypeOK, ClosingInvariant, UNCHANGED <<archive, current, saved, proc, mem, work>>
  PROVE  ClosingInvariant'
<1>1. Of(mem, Open)' = Of(mem, Open)
  BY DEF Of
<1>2. Live' = Live /\ BeginsHere' = BeginsHere /\ Leaving' = Leaving
  BY DEF Live, BeginsHere, Leaving
<1>3. Closes(work, Of(mem, Open)) /\ (proc = "running" => Tame(work))
      /\ (Live /\ mem.closed => proc # "running" /\ (BeginsHere \/ Leaving))
  BY DEF ClosingInvariant
<1> QED  BY <1>1, <1>2, <1>3, ClosingGoesOn

LEMMA ClosingGone ==
  ASSUME TypeOK, ClosingInvariant, UNCHANGED <<archive, current, saved>>, Gone
  PROVE  ClosingInvariant'
<1>1. work' = <<>> /\ ~Live' /\ proc' # "running"
  BY DEF Gone, Live
<1> QED  BY <1>1, TameEmpty, TameCloses, ClosingGoesOn

LEMMA ClosingInit == Init => ClosingInvariant
<1> SUFFICES ASSUME Init  PROVE ClosingInvariant
  OBVIOUS
<1>1. Journal = <<>> /\ saved = Blank
  BY EmptyType DEF Init, Journal
<1>2. Newer = {}
  BY <1>1 DEF Newer
<1>3. ~WasClosed
  BY <1>1, <1>2 DEF WasClosed, About, Blank
<1>4. ~saved.closed /\ proc = "down" /\ Tame(work)
  BY <1>1, TameEmpty DEF Init, Blank
<1> QED  BY <1>3, <1>4, TameCloses DEF ClosingInvariant, FilesShut, ClosedIsFinal, Live

\* Where something is done that is no record, the registry is not closed.
LEMMA StillOpen ==
  ASSUME DeliveryInvariant, GenerationInvariant, ClosingInvariant
  PROVE  /\ proc = "running" => ~mem.closed
         /\ \A op \in {"begin", "read", "send", "ack", "unlink", "fail", "giveup"} :
              At(op) => ~mem.closed
         /\ \A op \in {"begin", "read", "send", "ack", "unlink", "fail", "giveup"} :
              At(op) => Tame(work)
<1>0. work \in Seq(Items)
  BY DEF DeliveryInvariant, TypeOK
<1>1. proc = "running" => ~mem.closed
  BY DEF ClosingInvariant, Live
<1>2. ASSUME NEW op \in {"begin", "read", "send", "ack", "unlink", "fail", "giveup"}, At(op)
      PROVE  ~mem.closed /\ Tame(work)
  <2>1. work # <<>> /\ 1 \in 1..Len(work) /\ work[1].op = op /\ work[1] = Head(work)
    BY <1>0, <1>2 DEF At
  <2>2. Live /\ ~BeginsHere
    BY <1>2, <2>1, WorkerLives, NothingBegins
  <2>3. ~Leaving
    BY <2>1 DEF Leaving
  <2>4. ~mem.closed
    BY <2>2, <2>3 DEF ClosingInvariant
  <2>5. Tame(work)
    <3> SUFFICES ASSUME NEW i \in 1..Len(work), Ends(work[i])  PROVE FALSE
      BY <1>0 DEF Tame
    <3>1. \A j \in 1..(i - 1) : Final(work[j])
      BY DEF ClosingInvariant, Closes
    <3>2. work[1] \in Items /\ work[1].op # "note" /\ work[1].op # "move"
      BY <1>0, <2>1
    <3>3. CASE i = 1
      BY <3>2, <3>3, TameItem
    <3>4. CASE i # 1
      <4>1. 1 \in 1..(i - 1)
        BY <3>4
      <4> QED  BY <3>1, <3>2, <4>1 DEF Final
    <3> QED  BY <3>3, <3>4
  <2> QED  BY <2>4, <2>5
<1> QED  BY <1>1, <1>2

\* Handlers that end nothing.
LEMMA ClosingTame ==
  ASSUME TypeOK, ClosingInvariant, UNCHANGED <<archive, current, saved, mem>>, ~mem.closed, Tame(work')
  PROVE  ClosingInvariant'
  BY TameCloses, ClosingGoesOn

LEMMA ClosingStart ==
  ASSUME DeliveryInvariant, GenerationInvariant, ClosingInvariant, Start
  PROVE  ClosingInvariant'
<1>1. TypeOK /\ UNCHANGED <<archive, current, saved>> /\ proc' = "starting"
  BY DEF DeliveryInvariant, Start, disk
<1>2. Replayed \in Registry /\ NextGeneration \in Commands
  BY ReplayedType DEF DeliveryInvariant, TypeOK, Start, Commands
<1>3. Tame(Note("supervisor_started")) /\ Tame(Leftovers) /\ Tame(Do("begin", NextGeneration))
  <2>1. Of(Replayed, Open) \in SUBSET Commands
    BY DEF Of
  <2>2. Tame(Leftovers)
    BY <2>1, TameMoves, StatusNames DEF Leftovers
  <2>3. Tame(Note("supervisor_started"))
    BY TameNote, StatusNames
  <2> QED  BY <1>2, <2>2, <2>3, TameDo
<1>4. Tame(work')
  BY <1>3, TameJoin DEF Start
<1> QED  BY <1>1, <1>4, StartBegins, TameCloses, ClosingGoesOn

LEMMA ClosingStop ==
  ASSUME DeliveryInvariant, FilesInvariant, ClosingInvariant, Stop
  PROVE  ClosingInvariant'
<1>0. TypeOK /\ archive \in Seq(Event) /\ current \in Seq(Event) /\ saved \in Registry
      /\ UNCHANGED <<archive, current, saved>>
  BY DEF DeliveryInvariant, TypeOK, Stop, disk
<1>1. ASSUME ~Gone  PROVE ClosingInvariant'
  <2>1. proc' = "stopping" /\ mem' = Replayed /\ work' = StopItems
    BY <1>1 DEF Stop
  <2> DEFINE S == Of(Replayed, Open)
             m == Moves(S, "uncertain")
  <2>2. S \in SUBSET Commands /\ Of(mem, Open)' = S
    BY <2>1 DEF Of
  <2>3. m \in Seq(Items)
    BY <2>2, TameMoves, StatusNames DEF Tame
  <2>4. CASE Replayed.closed
    <3>1. S = {}
      <4>1. Replayed.closed = WasClosed /\ Replayed.cmds = Recorded
        BY <1>0, ReplayedEnds DEF FilesInvariant, Replayed
      <4> QED  BY <2>4, <4>1 DEF ClosingInvariant, FilesShut, Of
    <3>2. Only("exit") \in Seq(Items) /\ Tame(Only("exit"))
      BY TameDo DEF Tame
    <3>3. work' = <<>> \o <<>> \o Only("exit")
      BY <2>1, <2>4, <3>1 DEF StopItems, Moves
    <3>4. work' = Only("exit")
      BY <3>2, <3>3, NothingFirst, EmptyType
    <3>5. Leaving'
      <4> DEFINE x == Item("exit", {}, "")
      <4>1. work' = <<x>> /\ x.op = "exit"
        BY <3>4 DEF Only, Item
      <4> HIDE DEF x
      <4>2. \A i \in 1..Len(<<x>>) : <<x>>[i].op = "exit"
        BY <4>1
      <4>3. \A i \in 1..Len(work') : work'[i].op = "exit"
        BY <4>1, <4>2
      <4> QED  BY <4>3 DEF Leaving
    <3> QED  BY <1>0, <2>1, <3>2, <3>4, <3>5, TameCloses, ClosingGoesOn
  <2>5. CASE ~Replayed.closed
    <3>1. work' = m \o (Note("supervisor_ended") \o Only("exit"))
      <4>1. Note("supervisor_ended") \in Seq(Items) /\ Only("exit") \in Seq(Items)
        BY PlainNote, PlainDo, StatusNames DEF Plain
      <4>2. work' = m \o Note("supervisor_ended") \o Only("exit")
        BY <2>1, <2>5 DEF StopItems
      <4> QED  BY <2>3, <4>1, <4>2, ThreeJoined
    <3>2. \A j \in 1..Len(m) : Final(m[j])
      <4>1. S # {} => m = <<Item("move", S, "uncertain")>>
        BY DEF Moves
      <4>2. S = {} => m = <<>>
        BY DEF Moves
      <4>3. Final(Item("move", S, "uncertain"))
        BY DEF Item, Final, Terminal
      <4> HIDE DEF m, S
      <4> QED  BY <4>1, <4>2, <4>3
    <3>3. \A c \in S : \E j \in 1..Len(m) : c \in m[j].cmds
      <4>1. S # {} => m = <<Item("move", S, "uncertain")>>
        BY DEF Moves
      <4>2. Item("move", S, "uncertain").cmds = S
        BY DEF Item
      <4> HIDE DEF m, S
      <4>3. S # {} => 1 \in 1..Len(m) /\ m[1].cmds = S
        BY <4>1, <4>2
      <4> QED  BY <4>3
    <3>4. ~mem'.closed
      BY <2>1, <2>5
    <3> HIDE DEF m, S
    <3>5. Closes(work', S)
      BY <2>3, <3>1, <3>2, <3>3, ClosersClose
    <3> QED  BY <1>0, <2>1, <2>2, <3>4, <3>5, ClosingGoesOn
  <2> QED  BY <2>4, <2>5
<1> QED  BY <1>0, <1>1, ClosingGone

\* The main loop, and what a handler does beside records.
LEMMA ClosingLoop ==
  ASSUME DeliveryInvariant, GenerationInvariant, ClosingInvariant,
         \/ \E c \in Mail : Scan(c) \/ Response(c)
         \/ InitialResponse \/ AgentStart
         \/ \E outcome \in Outcomes : AgentSettled(outcome)
  PROVE  ClosingInvariant'
<1>1. ASSUME NEW c \in Mail, Scan(c)  PROVE Tame(work')
  BY <1>1, TameDo DEF Scan
<1>2. ASSUME NEW c \in Mail, Response(c)  PROVE Tame(work')
  <2>1. /\ Tame(Moves({c}, "rejected")) /\ Tame(Moves({c}, "accepted"))
        /\ Tame(Moves({c}, "completed"))
    BY TameMoves, MailIsCommands, StatusNames
  <2>2. Tame(Ack(c, "rejected")) /\ Tame(Ack(c, "accepted")) /\ Tame(Ack(c, "completed"))
    BY TameAck, StatusNames
  <2>3. /\ Tame(Moves({c}, "rejected") \o Ack(c, "rejected"))
        /\ Tame(Moves({c}, "accepted") \o Ack(c, "accepted"))
        /\ Tame(Moves({c}, "accepted") \o Moves({c}, "completed") \o Ack(c, "completed"))
    BY <2>1, <2>2, TameJoin
  <2>4. work' \in {Moves({c}, "rejected") \o Ack(c, "rejected"),
                   Moves({c}, "accepted") \o Ack(c, "accepted"),
                   Moves({c}, "accepted") \o Moves({c}, "completed") \o Ack(c, "completed")}
    BY <1>2 DEF Response
  <2> QED  BY <2>3, <2>4
<1>3. ASSUME InitialResponse  PROVE Tame(work')
  <2>1. mem.gen \in Commands
    BY <1>3 DEF InitialResponse, Commands
  <2>2. /\ Tame(Moves({mem.gen}, "rejected")) /\ Tame(Moves({mem.gen}, "accepted"))
        /\ Tame(Only("fail"))
    BY <2>1, TameMoves, TameDo, StatusNames
  <2> QED  BY <1>3, <2>2, TameJoin DEF InitialResponse
<1>4. ASSUME AgentStart  PROVE Tame(work')
  <2>1. Active(mem) \cap Of(mem, {"accepted"}) \in SUBSET Commands
    BY DEF Of
  <2>2. /\ Tame(Moves(Active(mem) \cap Of(mem, {"accepted"}), "started"))
        /\ Tame(Note("agent_started"))
    BY <2>1, TameMoves, TameNote, StatusNames
  <2> QED  BY <1>4, <2>2, TameJoin DEF AgentStart
<1>5. ASSUME NEW outcome \in Outcomes, AgentSettled(outcome)  PROVE Tame(work')
  <2>1. Active(mem) \in SUBSET Commands
    BY DEF Of, Active
  <2>2. (IF aborting THEN "aborted" ELSE outcome) \in Statuses
    BY ConstantAssumption, StatusNames
  <2>3. /\ Tame(Moves(Active(mem), IF aborting THEN "aborted" ELSE outcome))
        /\ Tame(Note("agent_settled"))
    BY <2>1, <2>2, TameMoves, TameNote, StatusNames
  <2>4. work' = Moves(Active(mem), IF aborting THEN "aborted" ELSE outcome) \o Note("agent_settled")
    BY <1>5 DEF AgentSettled
  <2> QED  BY <2>3, <2>4, TameJoin
<1>6. Tame(work')
  BY <1>1, <1>2, <1>3, <1>4, <1>5
<1>7. Idle /\ UNCHANGED <<disk, mem>>
  BY DEF Scan, Response, InitialResponse, AgentStart, AgentSettled
<1>8. TypeOK /\ ~mem.closed
  BY <1>7, StillOpen DEF Idle, DeliveryInvariant
<1> QED  BY <1>6, <1>7, <1>8, ClosingTame DEF disk

LEMMA ClosingRead ==
  ASSUME DeliveryInvariant, GenerationInvariant, ClosingInvariant, Read
  PROVE  ClosingInvariant'
<1>1. Subject \in Mail /\ mem \in Registry /\ TypeOK
  BY SubjectType DEF DeliveryInvariant, TypeOK, Read, At
<1>2. Tame(Do("unlink", Subject))
  BY <1>1, TameDo
<1>3. Tame(Refused(Subject))
  BY <1>1, TameAck, TameEmpty, StatusNames DEF Refused
<1>4. ASSUME Subject \in Known(mem)  PROVE Tame(Repeated(Subject))
  <2>1. mem.cmds[Subject] \in Statuses
    BY <1>1, <1>4, MailIsCommands DEF Known, Of, Registry
  <2>2. mem.cmds[Subject] # "received" => Tame(Ack(Subject, mem.cmds[Subject]))
    BY <1>1, <2>1, TameAck, StatusNames
  <2> QED  BY <1>3, <2>2, TameEmpty DEF Repeated
<1>5. Tame(Ack(Subject, "refused"))
  BY <1>1, TameAck, StatusNames
<1>6. Tame(Taken(Subject))
  <2>1. Subject \in Commands /\ {Subject} \in SUBSET Commands
    BY <1>1, MailIsCommands
  <2> QED  BY <2>1, TameMoves, TameDo, TameJoin, StatusNames DEF Taken
<1>7. \/ work' = Refused(Subject) \o Do("unlink", Subject)
      \/ Subject \in Known(mem) /\ work' = Repeated(Subject) \o Do("unlink", Subject)
      \/ work' = Ack(Subject, "refused") \o Do("unlink", Subject)
      \/ work' = Taken(Subject) \o Do("unlink", Subject)
  BY DEF Read
<1>8. Tame(work')
  BY <1>2, <1>3, <1>4, <1>5, <1>6, <1>7, TameJoin
<1> QED  BY <1>1, <1>8, StillOpen, ClosingTame DEF Read, disk

LEMMA TameRest ==
  ASSUME Tame(work), work # <<>>
  PROVE  Tame(Rest)
<1>1. Rest \in Seq(Items) /\ Len(Rest) = Len(work) - 1 /\ \A i \in 1..Len(Rest) : Rest[i] = work[i + 1] /\ i + 1 \in 1..Len(work)
  BY DEF Tame, Rest
<1> QED  BY <1>1 DEF Tame

LEMMA ClosingItem ==
  ASSUME DeliveryInvariant, GenerationInvariant, ClosingInvariant,
         Begin \/ Send \/ Acknowledge \/ Unlink \/ Fail
  PROVE  ClosingInvariant'
<1>1. work \in Seq(Items) /\ pending \subseteq Mail /\ TypeOK
  BY DEF DeliveryInvariant, TypeOK
<1>2. UNCHANGED <<archive, current, saved, mem>> /\ work # <<>>
  BY DEF Begin, Send, Acknowledge, Unlink, Fail, At, disk
<1>3. ~mem.closed /\ Tame(work)
  BY StillOpen DEF Begin, Send, Acknowledge, Unlink, Fail
<1>4. Tame(Rest)
  BY <1>2, <1>3, TameRest
<1>5. Tame(Finally("failed")) /\ Tame(Finally("clean"))
  BY <1>1, TameFinally
<1>6. ASSUME Begin  PROVE Tame(work')
  <2>1. Subject \in Commands /\ {Subject} \in SUBSET Commands
    BY <1>1, <1>6, SubjectType DEF Begin
  <2>2. Tame(Moves({Subject}, "received") \o Do("send", Subject))
    BY <2>1, TameMoves, TameDo, TameJoin, StatusNames
  <2> QED  BY <1>5, <1>6, <2>2 DEF Begin
<1>7. ASSUME Send  PROVE Tame(work')
  <2>1. Subject \in Mail => Tame(Moves({Subject}, "uncertain") \o Ack(Subject, "uncertain") \o Rest)
    BY <1>4, MailIsCommands, TameMoves, TameAck, TameJoin, StatusNames
  <2> QED  BY <1>4, <1>5, <1>7, <2>1 DEF Send
<1>8. Tame(work')
  BY <1>4, <1>5, <1>6, <1>7 DEF Acknowledge, Unlink, Fail
<1> QED  BY <1>1, <1>2, <1>3, <1>8, ClosingTame

LEMMA ClosingEnding ==
  ASSUME DeliveryInvariant, GenerationInvariant, ClosingInvariant,
         NEW how \in {"failed", "clean"}, Finish(how) \/ Interrupt(how)
  PROVE  ClosingInvariant'
<1>1. work \in Seq(Items) /\ pending \subseteq Mail /\ TypeOK
  BY DEF DeliveryInvariant, TypeOK
<1>2. UNCHANGED <<archive, current, saved, mem>> /\ proc = "running"
  BY DEF Finish, Interrupt, disk
<1>3. ~mem.closed /\ Tame(Finally(how))
  BY <1>1, <1>2, TameFinally, StillOpen
<1>4. Tame(work')
  <2> DEFINE u == IF work # <<>> /\ work[Len(work)].op = "unlink" THEN <<work[Len(work)]>> ELSE <<>>
  <2>1. Tame(u)
    <3>1. work # <<>> => work[Len(work)] \in Items
      BY <1>1
    <3>2. work # <<>> /\ work[Len(work)].op = "unlink" => Tame(<<work[Len(work)]>>)
      BY <3>1, TameItem, TameOne
    <3> QED  BY <3>2, TameEmpty
  <2>2. work' = Finally(how) \/ work' = u \o Finally(how)
    BY DEF Finish, Interrupt
  <2> HIDE DEF u
  <2> QED  BY <1>3, <2>1, <2>2, TameJoin
<1> QED  BY <1>1, <1>2, <1>3, <1>4, ClosingTame

\* What is left of a move's commands.
LEMMA MovesAll ==
  ASSUME NEW S \in SUBSET Commands, NEW to \in Terminal
  PROVE  /\ Moves(S, to) \in Seq(Items)
         /\ \A j \in 1..Len(Moves(S, to)) : Final(Moves(S, to)[j])
         /\ \A c \in S : \E j \in 1..Len(Moves(S, to)) : c \in Moves(S, to)[j].cmds
<1> DEFINE m == Moves(S, to)  it == Item("move", S, to)
<1>1. m = IF S = {} THEN <<>> ELSE <<it>>
  BY DEF Moves
<1>2. m \in Seq(Items)
  BY TameMoves, StatusNames DEF Tame
<1>3. Final(it) /\ it.cmds = S
  BY DEF Item, Final
<1> HIDE DEF m, it
<1>4. \A j \in 1..Len(m) : Final(m[j])
  BY <1>1, <1>3
<1>5. S # {} => 1 \in 1..Len(m) /\ m[1].cmds = S
  BY <1>1, <1>3
<1> QED  BY <1>2, <1>4, <1>5 DEF m

LEMMA JoinIndex ==
  ASSUME NEW s \in Seq(Items), NEW t \in Seq(Items)
  PROVE  /\ s \o t \in Seq(Items)
         /\ \A j \in 1..Len(s) : j \in 1..Len(s \o t) /\ (s \o t)[j] = s[j]
         /\ \A j \in 1..Len(t) : Len(s) + j \in 1..Len(s \o t) /\ (s \o t)[Len(s) + j] = t[j]
         /\ \A i \in 1..Len(s \o t) :
              \/ i \in 1..Len(s) /\ (s \o t)[i] = s[i]
              \/ \E j \in 1..Len(t) : (s \o t)[i] = t[j]
<1>1. Len(s) \in Nat /\ Len(t) \in Nat
  OBVIOUS
<1>2. Len(s \o t) = Len(s) + Len(t) /\ s \o t \in Seq(Items)
  BY ConcatProperties
<1>3. \A i \in 1..(Len(s) + Len(t)) : (s \o t)[i] = IF i <= Len(s) THEN s[i] ELSE t[i - Len(s)]
  BY ConcatProperties
<1> DEFINE m == Len(s)  n == Len(t)  w == s \o t
<1>4. m \in Nat /\ n \in Nat /\ Len(w) = m + n
  BY <1>1, <1>2
<1>5. \A i \in 1..(m + n) : w[i] = IF i <= m THEN s[i] ELSE t[i - m]
  BY <1>3
<1> HIDE DEF m, n, w
<1>6. ASSUME NEW j \in 1..m  PROVE j \in 1..(m + n) /\ w[j] = s[j]
  BY <1>4, <1>5
<1>7. ASSUME NEW j \in 1..n  PROVE m + j \in 1..(m + n) /\ w[m + j] = t[j]
  <2>1. m + j \in 1..(m + n) /\ ~(m + j <= m) /\ (m + j) - m = j
    BY <1>4
  <2> QED  BY <1>5, <2>1
<1>8. ASSUME NEW i \in 1..(m + n)
      PROVE  (i \in 1..m /\ w[i] = s[i]) \/ \E j \in 1..n : w[i] = t[j]
  <2>1. CASE i <= m
    BY <1>4, <1>5, <2>1
  <2>2. CASE ~(i <= m)
    <3>1. i - m \in 1..n /\ w[i] = t[i - m]
      BY <1>4, <1>5, <2>2
    <3> QED  BY <3>1
  <2> QED  BY <2>1, <2>2
<1> QED  BY <1>2, <1>4, <1>6, <1>7, <1>8 DEF m, n, w

LEMMA ClosingGiveUp ==
  ASSUME DeliveryInvariant, GenerationInvariant, HandlerInvariant, ClosingInvariant, GiveUp
  PROVE  ClosingInvariant'
<1>1. /\ work \in Seq(Items) /\ Head(work) \in Items /\ Head(work).op = "giveup" /\ TypeOK
      /\ Head(work) \in PhaseItems
      /\ UNCHANGED <<archive, current, saved, mem, proc>>
  BY HeadType DEF DeliveryInvariant, HandlerInvariant, TypeOK, GiveUp, At, disk
<1>2. Head(work).cmds \subseteq Mail /\ Head(work).to \in {"failed", "clean"} /\ proc' # "running"
  BY <1>1, ItemFields DEF PhaseItems
<1>3. ~mem.closed
  BY StillOpen DEF GiveUp
<1>4. ASSUME Head(work).cmds = {}  PROVE ClosingInvariant'
  <2> DEFINE failed == IF Head(work).to = "failed" THEN Of(mem, {"accepted", "started"}) ELSE {}
             others == Of(mem, Open) \ failed
             x == Moves(failed, "failed")
             y == Moves(others, "uncertain")
             n == Note("supervisor_ended")
             e == Only("exit")
  <2>1. failed \in SUBSET Commands /\ others \in SUBSET Commands /\ Of(mem, Open) \subseteq failed \cup others
    BY DEF Of
  <2>2. work' = x \o y \o n \o e
    BY <1>4 DEF GiveUp, CloseItems
  <2>3. {"failed", "uncertain"} \subseteq Terminal
    BY DEF Terminal
  <2>4. n \in Seq(Items) /\ e \in Seq(Items)
    BY PlainNote, PlainDo, StatusNames DEF Plain
  <2> HIDE DEF failed, others
  <2>5. /\ x \in Seq(Items) /\ y \in Seq(Items)
        /\ \A j \in 1..Len(x) : Final(x[j])
        /\ \A c \in failed : \E j \in 1..Len(x) : c \in x[j].cmds
        /\ \A j \in 1..Len(y) : Final(y[j])
        /\ \A c \in others : \E j \in 1..Len(y) : c \in y[j].cmds
    BY <2>1, <2>3, MovesAll
  <2> HIDE DEF x, y
  <2>6. x \o y \in Seq(Items) /\ \A j \in 1..Len(x \o y) : Final((x \o y)[j])
    BY <2>5, JoinIndex
  <2>7. \A c \in Of(mem, Open) : \E j \in 1..Len(x \o y) : c \in (x \o y)[j].cmds
    <3> SUFFICES ASSUME NEW c \in Of(mem, Open)  PROVE \E j \in 1..Len(x \o y) : c \in (x \o y)[j].cmds
      OBVIOUS
    <3>1. CASE c \in failed
      BY <2>5, <3>1, JoinIndex
    <3>2. CASE c \in others
      BY <2>5, <3>2, JoinIndex
    <3> QED  BY <2>1, <3>1, <3>2
  <2>8. work' = (x \o y) \o (n \o e)
    <3> HIDE DEF n, e
    <3> QED  BY <2>2, <2>4, <2>6, ThreeJoined
  <2>9. Closes(work', Of(mem, Open))
    BY <2>6, <2>7, <2>8, ClosersClose
  <2>10. Of(mem, Open)' = Of(mem, Open) /\ ~mem'.closed
    BY <1>1, <1>3 DEF Of
  <2> QED  BY <1>1, <1>2, <2>9, <2>10, ClosingGoesOn
<1>5. ASSUME Head(work).cmds # {}  PROVE ClosingInvariant'
  <2>1. PICK c \in Head(work).cmds :
          work' = (IF acks[c] # "none" THEN <<>>
                   ELSE Moves({c} \cap Of(mem, Open), "uncertain") \o Ack(c, "uncertain"))
                  \o <<[Head(work) EXCEPT !.cmds = @ \ {c}]>>
    BY <1>5 DEF GiveUp
  <2>2. c \in Mail
    BY <1>2, <2>1
  <2>3. Tame(IF acks[c] # "none" THEN <<>>
             ELSE Moves({c} \cap Of(mem, Open), "uncertain") \o Ack(c, "uncertain"))
    <3>1. {c} \cap Of(mem, Open) \in SUBSET Commands
      BY DEF Of
    <3>2. Tame(Moves({c} \cap Of(mem, Open), "uncertain")) /\ Tame(Ack(c, "uncertain"))
      BY <2>2, <3>1, TameMoves, TameAck, StatusNames
    <3> QED  BY <3>2, TameJoin, TameEmpty
  <2>4. [Head(work) EXCEPT !.cmds = @ \ {c}] \in Items /\ [Head(work) EXCEPT !.cmds = @ \ {c}].op = "giveup"
    BY <1>1, <1>2 DEF Items
  <2>5. Tame(<<[Head(work) EXCEPT !.cmds = @ \ {c}]>>)
    BY <2>4, TameItem, TameOne
  <2>6. Tame(work')
    BY <2>1, <2>3, <2>5, TameJoin
  <2> QED  BY <1>1, <1>3, <2>6, ClosingTame
<1> QED  BY <1>4, <1>5

-----------------------------------------------------------------------------
(* Closing: the records.                                                    *)

\* A record on a closed registry is the beginning of a generation.
LEMMA ClosedBegins ==
  ASSUME DeliveryInvariant, ClosingInvariant, work # <<>>, Head(work).op \in {"move", "note"}, mem.closed
  PROVE  Head(work).to = "supervisor_started" /\ Head(work).op = "note"
<1>1. work \in Seq(Items) /\ Live /\ Head(work) \in Items
  BY WorkerLives, HeadType DEF DeliveryInvariant, TypeOK
<1>2. 1 \in 1..Len(work) /\ work[1] = Head(work)
  BY <1>1
<1>3. ~Leaving
  BY <1>2 DEF Leaving
<1>4. BeginsHere
  BY <1>1, <1>3 DEF ClosingInvariant
<1>5. Head(work).op = "move" => Head(work).to \in Statuses
  BY <1>1, ItemFields
<1> QED  BY <1>4, <1>5 DEF BeginsHere, Statuses, Open, Terminal

LEMMA ClosingAppend ==
  ASSUME DeliveryInvariant, FilesInvariant, Mirror, ClosingInvariant, AppendEvent
  PROVE  ClosingInvariant'
<1>1. PICK e \in Event :
           /\ e.kind = Head(work).to
           /\ \/ Head(work).op = "move" /\ e.cmd \in Commands
              \/ Head(work).op = "note" /\ e.cmd = NoCommand
           /\ Recorded' = IF e.cmd \in Commands THEN [Recorded EXCEPT ![e.cmd] = e.kind] ELSE Recorded
           /\ WasClosed' = IF e.cmd \in Commands THEN WasClosed ELSE e.kind = "supervisor_ended"
  BY AppendReads
<1>2. /\ writing = <<>> /\ Live /\ work # <<>> /\ Head(work).op \in {"move", "note"}
      /\ UNCHANGED <<saved, mem, work, proc>> /\ work \in Seq(Items)
  BY WorkerLives DEF AppendEvent, Recording, DeliveryInvariant, TypeOK
<1>3. mem.cmds = Recorded /\ mem.closed = WasClosed
  BY <1>2 DEF Mirror, Reads
<1>4. FilesShut'
  <2>1. CASE Head(work).op = "move"
    <3>1. ~WasClosed'
      BY <1>1, <1>2, <1>3, <2>1, NoCommandIsNone, ClosedBegins
    <3> QED  BY <3>1 DEF FilesShut
  <2>2. CASE Head(work).op = "note"
    <3>1. Recorded' = Recorded /\ (WasClosed' => Ends(Head(work)))
      BY <1>1, <2>2, NoCommandIsNone DEF Ends
    <3>2. Ends(Head(work)) => Of(mem, Open) = {}
      <4>1. 1 \in 1..Len(work) /\ work[1] = Head(work) /\ 1..(1 - 1) = {}
        BY <1>2
      <4>2. \A i \in 1..Len(work) : Ends(work[i]) => \A c \in Of(mem, Open) : \E j \in 1..(i - 1) : c \in work[j].cmds
        BY DEF ClosingInvariant, Closes
      <4> QED  BY <4>1, <4>2
    <3> QED  BY <1>3, <3>1, <3>2 DEF FilesShut, Of
  <2> QED  BY <1>2, <2>1, <2>2
<1>5. ClosedIsFinal' /\ Closes(work, Of(mem, Open))'
  BY <1>2 DEF ClosingInvariant, ClosedIsFinal, Of, Closes, Ends, Final
<1>6. (proc = "running" => Tame(work))' /\ (Live /\ mem.closed => proc # "running" /\ (BeginsHere \/ Leaving))'
  BY <1>2 DEF ClosingInvariant, Tame, Ends, Live, BeginsHere, Leaving
<1> QED  BY <1>4, <1>5, <1>6 DEF ClosingInvariant

\* The head recorded its last command.
LEMMA ClosesBehind ==
  ASSUME NEW s \in Seq(Items), s # <<>>, NEW open, NEW open2, Closes(s, open),
         \A i \in 1..Len(s) : Ends(s[i]) => open2 \subseteq open \ Head(s).cmds
  PROVE  Closes(Tail(s), open2)
<1> DEFINE t == Tail(s)
<1>1. Len(s) \in Nat /\ Len(s) # 0 /\ Len(t) = Len(s) - 1 /\ s[1] = Head(s)
      /\ \A i \in 1..Len(t) : t[i] = s[i + 1]
  OBVIOUS
<1> HIDE DEF t
<1> SUFFICES ASSUME NEW i \in 1..Len(t), Ends(t[i])
             PROVE  /\ \A j \in 1..(i - 1) : Final(t[j])
                    /\ \A c \in open2 : \E j \in 1..(i - 1) : c \in t[j].cmds
                    /\ \A j \in (i + 1)..Len(t) : t[j].op = "exit"
  BY DEF Closes, t
<1>2. i + 1 \in 1..Len(s) /\ Ends(s[i + 1])
  BY <1>1
<1>3. /\ \A j \in 1..((i + 1) - 1) : Final(s[j])
      /\ \A c \in open : \E j \in 1..((i + 1) - 1) : c \in s[j].cmds
      /\ \A j \in ((i + 1) + 1)..Len(s) : s[j].op = "exit"
  BY <1>2 DEF Closes
<1>4. ASSUME NEW j \in 1..(i - 1)  PROVE Final(t[j])
  <2>1. j + 1 \in 1..((i + 1) - 1) /\ t[j] = s[j + 1]
    BY <1>1
  <2> QED  BY <1>3, <2>1
<1>5. ASSUME NEW c \in open2  PROVE \E j \in 1..(i - 1) : c \in t[j].cmds
  <2>1. c \in open /\ c \notin s[1].cmds
    BY <1>1, <1>2
  <2>2. PICK j \in 1..((i + 1) - 1) : c \in s[j].cmds
    BY <1>3, <2>1
  <2>3. j # 1
    BY <2>1, <2>2
  <2>4. j - 1 \in 1..(i - 1) /\ (j - 1) + 1 = j
    BY <2>3
  <2>5. t[j - 1] = s[j]
    BY <1>1, <2>4
  <2> QED  BY <2>2, <2>4, <2>5
<1>6. ASSUME NEW j \in (i + 1)..Len(t)  PROVE t[j].op = "exit"
  <2>1. j + 1 \in ((i + 1) + 1)..Len(s) /\ t[j] = s[j + 1]
    BY <1>1
  <2> QED  BY <1>3, <2>1
<1> QED  BY <1>4, <1>5, <1>6

\* The head has some left.
LEMMA ClosesOnward ==
  ASSUME NEW s \in Seq(Items), s # <<>>, NEW open, NEW open2, Closes(s, open),
         NEW m \in Items, m.op = "move", Head(s).op = "move", m.to = Head(s).to,
         \A i \in 1..Len(s) : Ends(s[i]) => open2 \subseteq open /\ open2 \cap Head(s).cmds \subseteq m.cmds
  PROVE  Closes(<<m>> \o Tail(s), open2)
<1> DEFINE w == <<m>> \o Tail(s)
<1>1. Len(s) \in Nat /\ Len(s) # 0 /\ Len(w) = Len(s) /\ s[1] = Head(s) /\ w[1] = m
      /\ \A i \in 2..Len(w) : w[i] = s[i]
  OBVIOUS
<1> HIDE DEF w
<1> SUFFICES ASSUME NEW i \in 1..Len(w), Ends(w[i])
             PROVE  /\ \A j \in 1..(i - 1) : Final(w[j])
                    /\ \A c \in open2 : \E j \in 1..(i - 1) : c \in w[j].cmds
                    /\ \A j \in (i + 1)..Len(w) : w[j].op = "exit"
  BY DEF Closes, w
<1>2. i # 1
  BY <1>1, TameItem
<1>3. i \in 1..Len(s) /\ Ends(s[i])
  <2>1. i \in 2..Len(w)
    BY <1>1, <1>2
  <2> QED  BY <1>1, <2>1
<1>4. /\ \A j \in 1..(i - 1) : Final(s[j])
      /\ \A c \in open : \E j \in 1..(i - 1) : c \in s[j].cmds
      /\ \A j \in (i + 1)..Len(s) : s[j].op = "exit"
  BY <1>3 DEF Closes
<1>5. ASSUME NEW j \in 1..(i - 1)  PROVE Final(w[j]) /\ (j # 1 => w[j] = s[j])
  <2>1. CASE j = 1
    <3>1. Final(s[1])
      BY <1>4, <2>1
    <3> QED  BY <1>1, <2>1, <3>1 DEF Final
  <2>2. CASE j # 1
    <3>1. j \in 2..Len(w)
      BY <1>1, <2>2
    <3> QED  BY <1>1, <1>4, <2>2, <3>1
  <2> QED  BY <2>1, <2>2
<1>6. ASSUME NEW c \in open2  PROVE \E j \in 1..(i - 1) : c \in w[j].cmds
  <2>1. PICK j \in 1..(i - 1) : c \in s[j].cmds
    BY <1>3, <1>4
  <2>2. CASE j = 1
    BY <1>1, <1>3, <2>1, <2>2
  <2>3. CASE j # 1
    BY <1>5, <2>1, <2>3
  <2> QED  BY <2>2, <2>3
<1>7. ASSUME NEW j \in (i + 1)..Len(w)  PROVE w[j].op = "exit"
  <2>1. j \in 2..Len(w) /\ j \in (i + 1)..Len(s)
    BY <1>1
  <2> QED  BY <1>1, <1>4, <2>1
<1> QED  BY <1>5, <1>6, <1>7

LEMMA ClosingSave ==
  ASSUME DeliveryInvariant, FilesInvariant', Mirror, ClosingInvariant, SaveRegistry
  PROVE  ClosingInvariant'
<1> DEFINE e == writing[1]
           S == Head(work).cmds \ {e.cmd}
           to == Head(work).to
<1>1. /\ writing # <<>> /\ Live /\ mem' = Apply(mem, e) /\ saved' = mem' /\ proc' = proc
      /\ work \in Seq(Items) /\ work # <<>> /\ Head(work) \in Items /\ Head(work).op \in {"move", "note"}
      /\ mem \in Registry
  BY WorkerLives, HeadType DEF SaveRegistry, DeliveryInvariant, WritingFits, TypeOK
<1>2. /\ e.kind = to
      /\ Head(work).op = "move" => e.cmd \in Head(work).cmds /\ e.cmd \in Commands
      /\ Head(work).op = "note" => e.cmd = NoCommand
  BY <1>1 DEF DeliveryInvariant, WritingFits
<1>3. Recorded' = mem'.cmds /\ WasClosed' = mem'.closed /\ mem'.cmds = Recorded /\ mem'.closed = WasClosed
  BY <1>1, SaveReads DEF Mirror, Reads
<1>4. FilesShut' /\ ClosedIsFinal'
  <2>1. mem'.closed => \A c \in Commands : mem'.cmds[c] \notin Open
    BY <1>3 DEF ClosingInvariant, FilesShut
  <2>2. FilesShut'
    BY <1>3, <2>1 DEF FilesShut
  <2>3. saved'.closed => \A c \in Commands : saved'.cmds[c] \notin Open
    BY <1>1, <2>1
  <2> QED  BY <2>2, <2>3 DEF ClosedIsFinal, Of
<1>5. /\ Len(work) \in Nat /\ 1 \in 1..Len(work) /\ work[1] = Head(work)
      /\ Tail(work) \in Seq(Items) /\ Len(Tail(work)) = Len(work) - 1
      /\ \A i \in 1..Len(Tail(work)) : Tail(work)[i] = work[i + 1]
  BY <1>1
<1>6. CASE Head(work).op = "note"
  <2>1. work' = Tail(work)
    <3>1. work' = <<>> \o Tail(work)
      BY <1>6 DEF SaveRegistry
    <3> QED  BY <1>5, <3>1, NothingFirst
  <2>2. Tame(Tail(work))
    <3> SUFFICES ASSUME NEW i \in 1..Len(Tail(work)), Ends(Tail(work)[i])  PROVE FALSE
      BY <1>5 DEF Tame
    <3>1. i + 1 \in 1..Len(work) /\ Ends(work[i + 1]) /\ 1 \in 1..((i + 1) - 1)
      BY <1>5
    <3>2. Final(work[1])
      BY <3>1 DEF ClosingInvariant, Closes
    <3> QED  BY <1>5, <1>6, <3>2 DEF Final
  <2>3. mem'.closed => Ends(Head(work))
    BY <1>1, <1>2, <1>6, NoCommandIsNone DEF Apply, Ends
  <2>4. Ends(Head(work)) => proc # "running" /\ Leaving'
    <3> SUFFICES ASSUME Ends(Head(work))  PROVE proc # "running" /\ Leaving'
      OBVIOUS
    <3>1. Ends(work[1])
      BY <1>5
    <3>2. proc # "running"
      BY <1>5, <3>1 DEF ClosingInvariant, Tame
    <3>3. \A j \in (1 + 1)..Len(work) : work[j].op = "exit"
      BY <1>5, <3>1 DEF ClosingInvariant, Closes
    <3>4. \A i \in 1..Len(Tail(work)) : Tail(work)[i].op = "exit"
      <4> SUFFICES ASSUME NEW i \in 1..Len(Tail(work))  PROVE Tail(work)[i].op = "exit"
        OBVIOUS
      <4>1. i + 1 \in (1 + 1)..Len(work) /\ Tail(work)[i] = work[i + 1]
        BY <1>5
      <4> QED  BY <3>3, <4>1
    <3> QED  BY <2>1, <3>2, <3>4 DEF Leaving
  <2>5. Tame(work)' /\ Closes(work, Of(mem, Open))'
    <3>1. Tame(work')
      BY <2>1, <2>2
    <3>2. Closes(work', Of(mem, Open)')
      BY <3>1, TameCloses
    <3> QED  BY <3>1, <3>2 DEF Tame, Closes, Ends, Final
  <2> QED  BY <1>1, <1>4, <2>3, <2>4, <2>5 DEF ClosingInvariant
<1>7. CASE Head(work).op = "move"
  <2>1. ~mem.closed
    BY <1>1, <1>7, ClosedBegins
  <2>2. mem'.closed = mem.closed /\ mem'.cmds = [mem.cmds EXCEPT ![e.cmd] = to]
    BY <1>1, <1>2, <1>7 DEF Apply
  <2>3. e.cmd \in Head(work).cmds /\ e.cmd \in Commands /\ Head(work).cmds \subseteq Commands /\ to \in Statuses
    BY <1>1, <1>2, <1>7, ItemFields
  <2>4. work' = Moves(S, to) \o Tail(work) /\ S \in SUBSET Commands
    BY <1>7, <2>3 DEF SaveRegistry
  <2>5. Tame(work) => Tame(work')
    <3>1. Tame(work) => Tame(Tail(work))
      BY <1>1, TameRest DEF Rest
    <3> QED  BY <2>3, <2>4, <3>1, TameMoves, TameJoin
  <2>6. to \in Terminal => Of(mem, Open)' \subseteq Of(mem, Open) \ {e.cmd}
    <3> SUFFICES ASSUME to \in Terminal, NEW c \in Commands, mem'.cmds[c] \in Open
                 PROVE  mem.cmds[c] \in Open /\ c # e.cmd
      BY DEF Of
    <3>1. mem.cmds \in [Commands -> Statuses \cup {"unknown"}]
      BY <1>1 DEF Registry
    <3>2. Terminal \cap Open = {}
      BY DEF Terminal, Open
    <3> QED  BY <2>2, <3>1, <3>2
  <2>7. \A i \in 1..Len(work) : Ends(work[i]) => to \in Terminal
    <3> SUFFICES ASSUME NEW i \in 1..Len(work), Ends(work[i])  PROVE to \in Terminal
      OBVIOUS
    <3>1. i # 1
      BY <1>1, <1>5, <1>7, TameItem
    <3>2. 1 \in 1..(i - 1)
      BY <3>1
    <3>3. Final(work[1])
      BY <3>2 DEF ClosingInvariant, Closes
    <3> QED  BY <1>5, <3>3 DEF Final
  <2>8. Closes(work, Of(mem, Open))
    BY DEF ClosingInvariant
  <2>9. Closes(work', Of(mem, Open)')
    <3>1. CASE S = {}
      <4>1. work' = Tail(work)
        <5>1. Moves(S, to) = <<>>
          BY <3>1 DEF Moves
        <5> QED  BY <1>5, <2>4, <5>1, NothingFirst
      <4>2. Head(work).cmds = {e.cmd}
        BY <2>3, <3>1
      <4>3. \A i \in 1..Len(work) : Ends(work[i]) => Of(mem, Open)' \subseteq Of(mem, Open) \ Head(work).cmds
        BY <2>6, <2>7, <4>2
      <4> QED  BY <1>1, <2>8, <4>1, <4>3, ClosesBehind
    <3>2. CASE S # {}
      <4> DEFINE m == Item("move", S, to)
      <4>1. m \in Items /\ m.op = "move" /\ m.to = Head(work).to /\ m.cmds = S
        BY <2>3, <2>4 DEF Item, Items
      <4>2. work' = <<m>> \o Tail(work)
        BY <2>4, <3>2 DEF Moves
      <4> HIDE DEF m
      <4>3. \A i \in 1..Len(work) : Ends(work[i]) =>
              Of(mem, Open)' \subseteq Of(mem, Open) /\ Of(mem, Open)' \cap Head(work).cmds \subseteq m.cmds
        BY <2>6, <2>7, <4>1
      <4> QED  BY <1>1, <1>7, <2>8, <4>1, <4>2, <4>3, ClosesOnward
    <3> QED  BY <3>1, <3>2
  <2>10. (proc = "running" => Tame(work))'
    <3>1. proc' = "running" => Tame(work')
      BY <1>1, <2>5 DEF ClosingInvariant
    <3> QED  BY <3>1 DEF Tame, Ends
  <2>11. Closes(work, Of(mem, Open))'
    BY <2>9 DEF Closes, Ends, Final
  <2> QED  BY <1>4, <2>1, <2>2, <2>10, <2>11 DEF ClosingInvariant
<1> QED  BY <1>1, <1>6, <1>7

LEMMA ClosingNext ==
  ASSUME DeathsAreFew, DeliveryInvariant, GenerationInvariant, HandlerInvariant,
         FilesInvariant, FilesInvariant', Mirror, ClosingInvariant, [Next]_vars
  PROVE  ClosingInvariant'
<1>0. TypeOK
  BY DEF DeliveryInvariant
<1>1. ASSUME (\E k \in Clients : Client(k)) \/ Pi \/ UNCHANGED vars  PROVE ClosingInvariant'
  <2>1. UNCHANGED <<disk, process>>
    BY <1>1 DEF Client, Ask, Post, Leave, Vanish, Pi, PiDies, Decide, vars
  <2> QED  BY <1>0, <2>1, ClosingRests DEF disk, process
<1>2. ASSUME Crash \/ Exit \/ TearAppend  PROVE ClosingInvariant'
  <2>1. UNCHANGED <<archive, current, saved>> /\ Gone
    BY <1>2 DEF Crash, Exit, TearAppend, disk
  <2> QED  BY <1>0, <2>1, ClosingGone
<1>3. ASSUME Rotate  PROVE ClosingInvariant'
  <2>1. UNCHANGED <<saved, proc, mem, work>> /\ Recorded' = Recorded /\ WasClosed' = WasClosed
    BY <1>3, RotateReads DEF Rotate, process
  <2>2. FilesShut' /\ ClosedIsFinal'
    BY <2>1 DEF ClosingInvariant, FilesShut, ClosedIsFinal, Of
  <2>3. Closes(work, Of(mem, Open))' /\ (proc = "running" => Tame(work))'
    BY <2>1 DEF ClosingInvariant, Closes, Tame, Ends, Final, Of
  <2>4. (Live /\ mem.closed => proc # "running" /\ (BeginsHere \/ Leaving))'
    BY <2>1 DEF ClosingInvariant, Live, BeginsHere, Leaving
  <2> QED  BY <2>2, <2>3, <2>4 DEF ClosingInvariant
<1>4. ASSUME Record  PROVE ClosingInvariant'
  BY <1>2, <1>3, <1>4, ClosingAppend, ClosingSave DEF Record
<1>5. ASSUME Handler  PROVE ClosingInvariant'
  BY <1>2, <1>5, ClosingLoop, ClosingRead, ClosingItem, ClosingGiveUp DEF Handler
<1>6. ASSUME Ending  PROVE ClosingInvariant'
  BY <1>2, <1>6, ClosingStop, ClosingEnding DEF Ending
<1> QED  BY <1>1, <1>4, <1>5, <1>6, ClosingStart DEF Next

\* A registry that says that its supervisor ended, or that the run was stopped, leaves no
\* command open, whoever died on the way: whoever notes the end has closed before it what
\* the files leave open, and behind it only the next generation is recorded.
THEOREM ClosedRegistriesAreFinal == ASSUME DeathsAreFew PROVE Spec => []ClosedIsFinal
<1>1. DeliveryInvariant /\ GenerationInvariant /\ HandlerInvariant /\ FilesInvariant /\ FilesInvariant'
        /\ Mirror /\ ClosingInvariant /\ [Next]_vars => ClosingInvariant'
  BY ClosingNext
<1>2. ClosingInvariant => ClosedIsFinal
  BY DEF ClosingInvariant
<1> QED  BY <1>1, <1>2, ClosingInit, DeliveryHolds, GenerationsHold, HandlersHold, FilesHold, MirrorHolds, PTL
         DEF Spec

=============================================================================
