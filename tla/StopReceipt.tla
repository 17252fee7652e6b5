------------------------------ MODULE StopReceipt ------------------------------
(* The local stop of a run (recovery.py, commands.py stop_command).  Every    *)
(* invocation is a process of its own: it takes the run's directory lock      *)
(* without waiting, claims a receipt for its command id, observes the tmux    *)
(* server, kills the session it saw by tmux's immutable id, and completes the *)
(* receipt.  Any step may be the last one of its process.  All runs here were *)
(* started under one session name, one after the other, so the session that   *)
(* carries the name may change under the stop's hands.                        *)
EXTENDS Naturals, FiniteSets

CONSTANTS Clients,      \* operator processes
          Runs,         \* runs that are started under the session name
          Ids,          \* command ids
          NoRun,        \* nobody carries the name; no lock holder
          MaxReceipts,  \* MAX_RPC_COMMANDS
          MaxCrashes    \* bound: processes that die inside a stop

\* Assumed of the constants by every module that instantiates this one.
StopReceiptAssumption ==
    /\ NoRun \notin Runs \cup Clients
    /\ MaxReceipts \in Nat \ {0}
    /\ MaxCrashes \in Nat

VARIABLES host,      \* the run hosted by the session of that name, or NoRun
          session,   \* tmux's id of that session: the number of sessions so far
          others,    \* does the server host sessions of other names?
          started,   \* runs with a coordination directory
          receipts,  \* stop-receipts/<id>.json of each run
          lock,      \* the process that holds the directory lock of each run
          client,    \* where each stop stands
          finalized, \* runs whose socket and registries a stop cleaned up
          kills,     \* <<run of the receipt, run killed>>
          crashes

vars == <<host, session, others, started, receipts, lock, client, finalized,
          kills, crashes>>

Contents == {"none", "empty", "uncertain", "completed"}
Steps == {"idle", "create", "observe", "kill", "complete", "written",
          "finalize", "byName"}
Idle == [at |-> "idle", run |-> NoRun, id |-> NoRun, duplicate |-> FALSE,
         target |-> 0]

\* The state's type; a lock is held by a stop of its run.
TypeOK ==
    /\ host \in Runs \cup {NoRun} /\ session \in 0 .. Cardinality(Runs)
    /\ others \in BOOLEAN /\ started \subseteq Runs
    /\ receipts \in [Runs -> [Ids -> Contents]]
    /\ lock \in [Runs -> Clients \cup {NoRun}]
    /\ \A r \in Runs : lock[r] # NoRun => client[lock[r]].run = r
    /\ client \in [Clients -> [at : Steps, run : Runs \cup {NoRun},
                               id : Ids \cup {NoRun}, duplicate : BOOLEAN,
                               target : 0 .. Cardinality(Runs)]]
    /\ finalized \subseteq Runs /\ kills \subseteq Runs \X Runs
    /\ crashes \in 0 .. MaxCrashes

Init ==
    /\ host = NoRun /\ session = 0 /\ others \in BOOLEAN /\ started = {}
    /\ receipts = [r \in Runs |-> [i \in Ids |-> "none"]]
    /\ lock = [r \in Runs |-> NoRun]
    /\ client = [c \in Clients |-> Idle]
    /\ finalized = {} /\ kills = {} /\ crashes = 0

-----------------------------------------------------------------------------
(* The tmux server. *)

\* A start takes the free name for a run of its own; a run is hosted once.
StartRun(r) ==
    /\ host = NoRun /\ r \notin started
    /\ host' = r /\ session' = session + 1 /\ started' = started \cup {r}
    /\ UNCHANGED <<others, receipts, lock, client, finalized, kills, crashes>>

\* The session ends without a stop: its panes exit, or somebody kills it.
SessionExits ==
    /\ host # NoRun
    /\ host' = NoRun
    /\ UNCHANGED <<session, others, started, receipts, lock, client, finalized,
                   kills, crashes>>

OthersComeAndGo ==
    /\ others' = ~others
    /\ UNCHANGED <<host, session, started, receipts, lock, client, finalized,
                   kills, crashes>>

\* With no session at all there is no server, and list-sessions fails.
ServerAnswers == host # NoRun \/ others

-----------------------------------------------------------------------------
(* An idempotent stop.  The lock is released with the process or the block.   *)

\* Broken: a stop that fails keeps the lock (TypeOK).
Kept(c) == lock

Released(c) == [r \in Runs |-> IF lock[r] = c THEN NoRun ELSE lock[r]]

Ends(c) ==
    /\ client' = [client EXCEPT ![c] = Idle]
    /\ lock' = Released(c)

StaysLocked(c, step) ==
    /\ client' = [client EXCEPT ![c].at = step]
    /\ UNCHANGED lock

Retained(r) == {i \in Ids : receipts[r][i] # "none"}

\* Broken: a completed receipt is worked on again (CompletedIsFinal).
ReopensCompleted == {"uncertain", "completed"}

\* A completed receipt replays and what cannot be parsed is broker_uncertain,
\* both without a further step; an uncertain claim is taken up again.
TakenUp == {"uncertain"}

ClaimKnown(c, r, i) ==
    /\ receipts[r][i] \in TakenUp
    /\ lock' = [lock EXCEPT ![r] = c]
    /\ client' = [client EXCEPT ![c] =
           [at |-> "observe", run |-> r, id |-> i, duplicate |-> TRUE, target |-> 0]]
    /\ UNCHANGED receipts

\* A new id is created exclusively, empty, when the registry has room.
ClaimNew(c, r, i) ==
    /\ receipts[r][i] = "none" /\ Cardinality(Retained(r)) < MaxReceipts
    /\ lock' = [lock EXCEPT ![r] = c]
    /\ receipts' = [receipts EXCEPT ![r][i] = "empty"]
    /\ client' = [client EXCEPT ![c] =
           [at |-> "create", run |-> r, id |-> i, duplicate |-> FALSE, target |-> 0]]

\* Broken: the directory lock is shared (OneStopAtATime).
SharedLock(r) == r \in Runs

LockFree(r) == lock[r] = NoRun

\* claim_stop under the lock; a lock held elsewhere ends the process at once.
Claim(c, r, i) ==
    /\ client[c] = Idle /\ r \in started /\ LockFree(r)
    /\ ClaimKnown(c, r, i) \/ ClaimNew(c, r, i)
    /\ UNCHANGED <<host, session, others, started, finalized, kills, crashes>>

\* The claim itself reaches the disk.
WriteClaim(c) ==
    /\ client[c].at = "create"
    /\ receipts' = [receipts EXCEPT ![client[c].run][client[c].id] = "uncertain"]
    /\ StaysLocked(c, "observe")
    /\ UNCHANGED <<host, session, others, started, finalized, kills, crashes>>

\* Broken: an absent session is never taken for stopped (Reconciled).
NeverFromAbsence(c) == client[c].at = "idle"

\* A verified absence completes an interrupted claim, never a fresh one.
AbsenceCompletes(c) == host = NoRun /\ client[c].duplicate

\* live_stop_target: one observation binds name, tmux id and run.
Observe(c) ==
    /\ client[c].at = "observe" /\ ServerAnswers
    /\ \/ host = client[c].run
          /\ client' = [client EXCEPT ![c].at = "kill", ![c].target = session]
          /\ UNCHANGED lock
       \/ AbsenceCompletes(c) /\ StaysLocked(c, "complete")
       \/ host # client[c].run /\ ~AbsenceCompletes(c) /\ Ends(c)
    /\ UNCHANGED <<host, session, others, started, receipts, finalized, kills,
                   crashes>>

\* Broken: a failed observation is taken for absence (CompletedIsGone).
TakesSilenceForAbsence(c) == StaysLocked(c, "complete")

\* An observation that fails proves nothing: the claim stays uncertain.
Unproven(c) == Ends(c)

ObserveFails(c) ==
    /\ client[c].at = "observe"
    /\ Unproven(c)
    /\ UNCHANGED <<host, session, others, started, receipts, finalized, kills,
                   crashes>>

\* Broken: the session is addressed by its name (StopsOnlyItsRun).
TargetsName(c) == host # NoRun

TargetAlive(c) == host # NoRun /\ session = client[c].target

\* kill-session -t $id reaches the observed session or fails.
Kill(c) ==
    /\ client[c].at = "kill"
    /\ \/ /\ TargetAlive(c)
          /\ kills' = kills \cup {<<client[c].run, host>>}
          /\ host' = NoRun
          /\ StaysLocked(c, "complete")
       \/ /\ ~TargetAlive(c)
          /\ Ends(c)
          /\ UNCHANGED <<host, kills>>
    /\ UNCHANGED <<session, others, started, receipts, finalized, crashes>>

\* complete_stop: secure_write opens the receipt with O_TRUNC ...
TruncateReceipt(c) ==
    /\ client[c].at = "complete"
    /\ receipts' = [receipts EXCEPT ![client[c].run][client[c].id] = "empty"]
    /\ StaysLocked(c, "written")
    /\ UNCHANGED <<host, session, others, started, finalized, kills, crashes>>

\* ... and then writes it; the block ends and with it the lock.
Complete(c) ==
    /\ client[c].at = "written"
    /\ receipts' = [receipts EXCEPT ![client[c].run][client[c].id] = "completed"]
    /\ client' = [client EXCEPT ![c].at = "finalize"]
    /\ lock' = [lock EXCEPT ![client[c].run] = NoRun]
    /\ UNCHANGED <<host, session, others, started, finalized, kills, crashes>>

\* The rest of stop_command: the stale socket and the RPC registries.
Finalize(c) ==
    /\ client[c].at = "finalize"
    /\ finalized' = finalized \cup {client[c].run}
    /\ Ends(c)
    /\ UNCHANGED <<host, session, others, started, receipts, kills, crashes>>

-----------------------------------------------------------------------------
(* A stop without a command id: the run is compared with the live one, and    *)
(* then whatever session carries the name is killed.                          *)

StopPlain(c, r) ==
    /\ client[c] = Idle /\ host = r
    /\ client' = [client EXCEPT ![c].at = "byName", ![c].run = r]
    /\ UNCHANGED <<host, session, others, started, receipts, lock, finalized,
                   kills, crashes>>

KillByName(c) ==
    /\ client[c].at = "byName"
    /\ \/ host # NoRun /\ client' = [client EXCEPT ![c].at = "finalize"]
       \/ host = NoRun /\ client' = [client EXCEPT ![c] = Idle]
    /\ host' = NoRun
    /\ UNCHANGED <<session, others, started, receipts, lock, finalized, kills,
                   crashes>>

Crash(c) ==
    /\ client[c] # Idle /\ crashes < MaxCrashes
    /\ Ends(c)
    /\ crashes' = crashes + 1
    /\ UNCHANGED <<host, session, others, started, receipts, finalized, kills>>

Continue(c) ==
    \/ WriteClaim(c) \/ Observe(c) \/ Kill(c) \/ TruncateReceipt(c)
    \/ Complete(c) \/ Finalize(c) \/ KillByName(c)

Next ==
    \/ \E r \in Runs : StartRun(r)
    \/ SessionExits \/ OthersComeAndGo
    \/ \E c \in Clients : \/ \E r \in Runs : \/ StopPlain(c, r)
                                             \/ \E i \in Ids : Claim(c, r, i)
                          \/ Continue(c) \/ ObserveFails(c) \/ Crash(c)

Spec == Init /\ [][Next]_vars

\* A process that does not die goes on; the operator repeats an uncertain stop
\* with the same id, and now and then the observation succeeds.
FairSpec ==
    /\ Spec
    /\ \A c \in Clients :
        /\ WF_vars(WriteClaim(c) \/ Kill(c) \/ TruncateReceipt(c) \/ Complete(c)
                   \/ Finalize(c) \/ KillByName(c))
        /\ \A r \in Runs : \A i \in Ids :
            /\ SF_vars(Claim(c, r, i) /\ receipts[r][i] # "none")
            /\ SF_vars(Observe(c) /\ client[c].run = r /\ client[c].id = i)

-----------------------------------------------------------------------------
(* Properties *)

\* A stop with a receipt kills only the run its receipt belongs to, even if
\* the session was replaced between the observation and the kill (usage.md:108).
StopsOnlyItsRun == \A k \in kills : k[1] = k[2]

\* A completed receipt says the truth for good: its run is hosted no more,
\* also when it was completed from an observation of absence (live_stop_target).
CompletedIsGone ==
    \A r \in Runs : (\E i \in Ids : receipts[r][i] = "completed") => host # r

\* A receipt is written by the holder of its run's lock only, and what is
\* completed is never reopened by a later stop (claim_stop's replay).
CompletedIsFinal ==
    [][\A r \in Runs : \A i \in Ids : receipts[r][i] = "completed"
          => receipts'[r][i] = "completed"]_vars

\* Two stops of one run never act at once, whatever their ids: between claim
\* and completion a run has a single working stop (locked_stop_claim).
OneStopAtATime ==
    \A c, d \in Clients :
        (client[c].at \in {"kill", "complete", "written"}
           /\ client[d].at \in {"create", "observe", "kill", "complete", "written"}
           /\ client[c].run = client[d].run) => c = d

\* An interrupted claim stays readable: unless a stop is writing it right now,
\* a receipt is absent, uncertain or completed (protocol-v1.md:707).
ClaimsStayReadable ==
    \A r \in Runs : \A i \in Ids : receipts[r][i] = "empty" => lock[r] # NoRun

Damaged(r, i) == receipts[r][i] = "empty" /\ lock[r] = NoRun
Blocked(r) == host \notin {r, NoRun} \/ ~ServerAnswers

\* The same-id retry reconciles an interrupted stop: the receipt completes
\* unless another run took the name, the server is gone, or the file is damaged.
Reconciled ==
    \A r \in Runs : \A i \in Ids :
        receipts[r][i] = "uncertain"
            ~> (receipts[r][i] = "completed" \/ Damaged(r, i) \/ Blocked(r))
=============================================================================
