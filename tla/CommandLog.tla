----------------------------- MODULE CommandLog -----------------------------
(***************************************************************************)
(* What a role's journal promises about the commands sent to its worker,   *)
(* without processes, files or crashes: a command is recorded before the   *)
(* worker gets it, the worker gets it at most once, what is recorded as    *)
(* the worker's answer is its answer, and a final record stays.            *)
(***************************************************************************)
EXTENDS Naturals

CONSTANT Commands

VARIABLES
  status,     \* what the record says of a command
  delivered,  \* how often it was handed to the worker
  answer      \* what the worker answered

vars == <<status, delivered, answer>>

\* RPC_COMMAND_TRANSITIONS, with the first record as the way out of "unknown".
Transitions ==
  [unknown  |-> {"received"},
   received |-> {"accepted", "rejected", "uncertain"},
   accepted |-> {"started", "completed", "failed", "aborted", "uncertain"},
   started  |-> {"completed", "failed", "aborted", "uncertain"}]
Open     == DOMAIN Transitions \ {"unknown"}
Terminal == {"completed", "failed", "aborted", "rejected", "uncertain"}
Statuses == Open \cup Terminal
Follows(old, new) == old \in DOMAIN Transitions /\ new \in Transitions[old]

Init ==
  /\ status = [c \in Commands |-> "unknown"]
  /\ delivered = [c \in Commands |-> 0]
  /\ answer = [c \in Commands |-> "none"]

Move(c, new) ==
  /\ Follows(status[c], new)
  /\ new = "accepted" => answer[c] = "yes"
  /\ new = "rejected" => answer[c] = "no"
  /\ status' = [status EXCEPT ![c] = new]
  /\ UNCHANGED <<delivered, answer>>

Deliver(c) ==
  /\ status[c] = "received" /\ delivered[c] = 0
  /\ delivered' = [delivered EXCEPT ![c] = 1]
  /\ UNCHANGED <<status, answer>>

\* The worker may still answer a command whose fate is recorded as uncertain.
Answer(c, v) ==
  /\ delivered[c] > 0 /\ answer[c] = "none"
  /\ answer' = [answer EXCEPT ![c] = v]
  /\ UNCHANGED <<status, delivered>>

Next == \E c \in Commands : \/ \E new \in Statuses : Move(c, new)
                            \/ Deliver(c)
                            \/ \E v \in {"yes", "no"} : Answer(c, v)

Spec == Init /\ [][Next]_vars

=============================================================================
