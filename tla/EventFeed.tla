------------------------------ MODULE EventFeed ------------------------------
(* What a supervisor client learns by polling `supervisor events` with one    *)
(* cursor per role (supervisor_api.py).  Brokered runs keep one table of      *)
(* events for all roles, pruned to the newest MAX_BROKER_EVENTS               *)
(* (broker_store.py); the page and its bounds are two reads of it, and the    *)
(* broker commits between them.  Older RPC runs keep a journal per role in an *)
(* archived and a current segment (rpc_store.py), read whole under a lock,    *)
(* and a registry, read after it.  An event is its number in its stream.      *)
EXTENDS Integers, Sequences, FiniteSets

CONSTANTS Roles,
          Brokered,   \* BOOLEAN: a version 3 or newer run
          Retained,   \* MAX_BROKER_EVENTS
          Segment,    \* events that fit a journal segment
          Limit,      \* events of a page
          MaxEvents   \* bound: events of a stream

\* Assumed of the constants by every module that instantiates this one.
FeedAssumption ==
    /\ Brokered \in BOOLEAN /\ MaxEvents \in Nat
    /\ {Retained, Segment, Limit} \subseteq Nat \ {0}

VARIABLES history,   \* by stream: the role of every event ever recorded
          lost,      \* by stream: how many of the oldest are dropped
          cut,       \* by stream: the last event of the archived segment
          registry,  \* by role: last_event_sequence of the saved registry
          call,      \* the client's request in progress
          answer,    \* what the last completed request said
          cursor,    \* by role: the client's cursor
          received,  \* by role: the events the client got, in order
          told       \* by role: some answer reported a gap

store == <<history, lost, cut, registry>>
client == <<cursor, received, told>>
vars == <<store, call, answer, client>>

Streams == IF Brokered THEN {"run"} ELSE Roles
Stream(r) == IF Brokered THEN "run" ELSE r
Latest(s) == Len(history[s])
Kept(s) == lost[s] + 1 .. Latest(s)

\* The numbers of S in ascending order: the k-th has k - 1 before it.
Ordered(S) ==
    [k \in 1 .. Cardinality(S) |->
        CHOOSE n \in S : Cardinality({m \in S : m <= n}) = k]
Events == 1 .. MaxEvents
Idle == [at |-> "idle"]
NoAnswer == [role |-> "none"]

\* The state's type, with how much history each store keeps.
TypeOK ==
    /\ history \in [Streams -> UNION {[1 .. n -> Roles] : n \in 0 .. MaxEvents}]
    /\ \A s \in Streams :
         /\ 0 <= lost[s] /\ lost[s] <= cut[s] /\ cut[s] <= Latest(s)
         /\ IF Brokered
            THEN Cardinality(Kept(s)) <= Retained
            ELSE /\ cut[s] - lost[s] \in {0, Segment}
                 /\ Latest(s) - cut[s] \in 0 .. Segment
    /\ registry \in [Roles -> 0 .. MaxEvents]
    /\ call.at \in {"idle", "asked", "rows", "registry"}
    /\ cursor \in [Roles -> 0 .. MaxEvents]
    /\ received \in [Roles -> Seq(Events)]
    /\ told \in [Roles -> BOOLEAN]

Init ==
    /\ history = [s \in Streams |-> <<>>]
    /\ lost = [s \in Streams |-> 0] /\ cut = [s \in Streams |-> 0]
    /\ registry = [r \in Roles |-> 0]
    /\ call = Idle /\ answer = NoAnswer
    /\ cursor = [r \in Roles |-> 0]
    /\ received = [r \in Roles |-> <<>>] /\ told = [r \in Roles |-> FALSE]

-----------------------------------------------------------------------------
(* The writers. *)

\* Broken: one event more than Retained is pruned away (TypeOK).
PrunedLate(n) == IF n > Retained + 1 THEN n - Retained - 1 ELSE 0
\* DELETE ... WHERE sequence <= MAX(sequence) - MAX_BROKER_EVENTS.
Pruned(n) == IF n > Retained THEN n - Retained ELSE 0

\* record_event, in the transaction of whatever the broker does for role r.
Record(r) ==
    /\ Brokered /\ Latest("run") < MaxEvents
    /\ history' = [history EXCEPT !["run"] = Append(@, r)]
    /\ lost' = [lost EXCEPT !["run"] = Pruned(Latest("run") + 1)]
    /\ cut' = lost'
    /\ UNCHANGED <<registry, call, answer, client>>

\* A full segment becomes the archive, and the previous archive is gone.
Rotate(r) ==
    IF Latest(r) - cut[r] < Segment THEN UNCHANGED <<lost, cut>>
    ELSE /\ lost' = [lost EXCEPT ![r] = cut[r]]
         /\ cut' = [cut EXCEPT ![r] = Latest(r)]

\* append_rpc_event under the exclusive lock; the supervisor records an event
\* only over a registry that holds the previous one.
AppendEvent(r) ==
    /\ ~Brokered /\ registry[r] = Latest(r) /\ Latest(r) < MaxEvents
    /\ Rotate(r)
    /\ history' = [history EXCEPT ![r] = Append(@, r)]
    /\ UNCHANGED <<registry, call, answer, client>>

\* save_rpc_registry after the append, or the recovery of the next generation.
SaveRegistry(r) ==
    /\ ~Brokered /\ registry[r] < Latest(r)
    /\ registry' = [registry EXCEPT ![r] = Latest(r)]
    /\ UNCHANGED <<history, lost, cut, call, answer, client>>

-----------------------------------------------------------------------------
(* A request. *)

Ask(r) ==
    /\ call = Idle
    /\ call' = [at |-> "asked", role |-> r, began |-> Latest(Stream(r))]
    /\ UNCHANGED <<store, answer, client>>

\* Broken: events from the cursor on, the cursor's included (OnceInOrder).
AfterOrAt(r) ==
    {n \in Kept(Stream(r)) : n >= cursor[r] /\ history[Stream(r)][n] = r}
\* Events of the role after its cursor: of the journal, or of the table.
After(r) ==
    {n \in Kept(Stream(r)) : n > cursor[r] /\ history[Stream(r)][n] = r}

\* Broken: the page holds the newest events after the cursor (NoSilentLoss).
NewestFirst(S) ==
    LET all == Ordered(S) n == Len(all)
    IN  IF n <= Limit THEN all ELSE SubSeq(all, n - Limit + 1, n)
\* Broken: a page that would be cut off stays empty (CatchesUp).
FitsOrNothing(S) == LET all == Ordered(S) IN IF Len(all) <= Limit THEN all ELSE <<>>
\* The first Limit of them.
FirstPage(S) ==
    LET all == Ordered(S) IN IF Len(all) <= Limit THEN all ELSE SubSeq(all, 1, Limit)

\* Broken: a gap needs two missing events (NoSilentLoss).
GapOfTwo(after, earliest) == earliest > after + 2
\* Broken: an empty store or one that starts at the cursor has a gap (GapIsReal).
GapAtCursor(after, earliest) == earliest > after
\* The event after the cursor is not retained any more.
Gap(after, earliest) == earliest > after + 1

\* Broken: a full page is not a truncated one (CompleteUnlessTruncated).
NeverTruncated(found, page) == FALSE
Truncated(found, page) == Cardinality(found) > Len(page)

NextCursor(after, page) == IF page = <<>> THEN after ELSE page[Len(page)]

\* The answer to the call in progress and what the client does with it.
Reply(r, page, truncated, earliest, gap, sync) ==
    /\ cursor' = [cursor EXCEPT ![r] = NextCursor(@, page)]
    /\ answer' = [role |-> r, after |-> cursor[r], began |-> call.began,
                  next |-> cursor'[r], gap |-> gap, truncated |-> truncated,
                  record |-> registry[r], synchronized |-> sync]
    /\ received' = [received EXCEPT ![r] = @ \o page]
    /\ told' = [told EXCEPT ![r] = @ \/ gap]
    /\ call' = Idle
    /\ UNCHANGED store

\* Earliest event kept, 0 (which never shows a gap) when there is none.
Earliest(s) == IF Kept(s) = {} THEN 0 ELSE lost[s] + 1

\* public_broker_events, first read: the rows, one more than the page holds.
ReadRows(r) ==
    /\ Brokered /\ call.at = "asked" /\ call.role = r
    /\ call' = [at |-> "rows", role |-> r, began |-> call.began, found |-> After(r)]
    /\ UNCHANGED <<store, answer, client>>

\* Second read: the bounds of the table as it is now.
ReadBounds(r) ==
    /\ call.at = "rows" /\ call.role = r
    /\ LET page == FirstPage(call.found)
       IN  Reply(r, page, Truncated(call.found, page), Earliest("run"),
                 Gap(cursor[r], Earliest("run")), FALSE)

\* The database is locked by a writer for longer than the reader waits: an
\* error, and the client asks again.
Busy ==
    /\ Brokered /\ call.at \in {"asked", "rows"} /\ Latest("run") < MaxEvents
    /\ call' = Idle
    /\ UNCHANGED <<store, answer, client>>

\* load_rpc_events under the shared lock.
ReadJournal(r) ==
    /\ ~Brokered /\ call.at = "asked" /\ call.role = r
    /\ call' = [at |-> "registry", role |-> r, began |-> call.began, found |-> After(r),
                bound |-> Earliest(r), latest |-> Latest(r)]
    /\ UNCHANGED <<store, answer, client>>

\* Broken: a record behind the journal is synchronized (SynchronizedRecord).
SynchronizedBehind(record, latest) == record <= latest
Synchronized(record, latest) == record = latest

\* load_rpc_registry, and the page of the journal read before.
ReadRegistry(r) ==
    /\ call.at = "registry" /\ call.role = r
    /\ LET page == FirstPage(call.found)
       IN  Reply(r, page, Truncated(call.found, page), call.bound,
                 Gap(cursor[r], call.bound), Synchronized(registry[r], call.latest))

Serve(r) == ReadRows(r) \/ ReadBounds(r) \/ ReadJournal(r) \/ ReadRegistry(r)

Next ==
    \/ \E r \in Roles : \/ Record(r) \/ AppendEvent(r) \/ SaveRegistry(r)
                       \/ Ask(r) \/ Serve(r)
    \/ Busy

Spec == Init /\ [][Next]_vars
\* The client polls every role and its requests are served: a reader waits two
\* seconds for the broker's short transactions, so no request fails for ever.
FairSpec ==
    /\ Spec
    /\ \A r \in Roles :
         /\ SF_vars(Ask(r)) /\ SF_vars(ReadRows(r)) /\ SF_vars(ReadBounds(r))
         /\ WF_vars(ReadJournal(r)) /\ WF_vars(ReadRegistry(r))

-----------------------------------------------------------------------------
(* Properties. *)

\* Every event of the role up to number n, in order.
UpTo(r, n) ==
    Ordered({k \in 1 .. n : k <= Latest(Stream(r)) /\ history[Stream(r)][k] = r})

\* A client that was never told of a gap has every event of the role up to its
\* cursor, in order, each once ("retention_gap_reported",
\* supervisor_capabilities): pruning and rotation never take an event silently.
NoSilentLoss == \A r \in Roles : told[r] \/ received[r] = UpTo(r, cursor[r])

\* With or without gaps, no event comes twice and none out of order: the cursor
\* of the answer is enough to resume (rpc_event_page, public_broker_events).
OnceInOrder ==
    \A r \in Roles : \A i \in 1 .. Len(received[r]) - 1 :
        received[r][i] < received[r][i + 1]

\* An answer without a gap that is not truncated leaves out nothing the role did
\* before the request was made, however the two reads fall.
CompleteUnlessTruncated ==
    answer = NoAnswer \/ answer.gap \/ answer.truncated \/
    \A k \in 1 .. answer.began :
        history[Stream(answer.role)][k] = answer.role =>
            k <= cursor[answer.role]

\* A gap is never a false alarm: an event of the stream after the cursor sent is
\* not retained.  In a brokered run it may be another role's event.
GapIsReal ==
    answer # NoAnswer /\ answer.gap => lost[Stream(answer.role)] > answer.after

\* A worker record that is called synchronized shows neither more nor less than
\* the events the client has after a page that is not cut off, although record
\* and journal are two files read one after the other.
SynchronizedRecord ==
    answer # NoAnswer /\ answer.synchronized /\ ~answer.truncated
        => answer.record = answer.next

\* A polling client catches up with each role, or has been told that it cannot:
\* a truncated page makes progress and a quiet role does not hold it back.
CatchesUp ==
    <>[](\A r \in Roles :
            told[r] \/ received[r] = UpTo(r, Latest(Stream(r))))
=============================================================================
