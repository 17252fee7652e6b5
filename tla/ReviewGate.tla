----------------------------- MODULE ReviewGate -----------------------------
(***************************************************************************)
(* What a run promises to the person who started it, without workers,      *)
(* connections or messages: work is done in rounds; a round is reviewed    *)
(* once, and only when it is implemented and every specialist has either   *)
(* delivered or been ruled out; only an approved round is published; and   *)
(* the next round begins only after the verdict on this one.               *)
(***************************************************************************)
EXTENDS Naturals

CONSTANTS Specialists, MaxRounds

Rounds   == 1..MaxRounds
Verdicts == {"approved", "changes_requested"}
Stages   == {"open", "review"} \cup Verdicts

VARIABLES
  round,        \* the round the run is in
  implemented,  \* rounds whose implementation is reported
  settled,      \* per round, the specialists that delivered or were ruled out
  stage,        \* per round, how far its review is
  published     \* the run is announced as ready

vars == <<round, implemented, settled, stage, published>>

Init ==
  /\ round = 1
  /\ implemented = {}
  /\ settled = [q \in Rounds |-> {}]
  /\ stage = [q \in Rounds |-> "open"]
  /\ published = FALSE

\* An implementation or some evidence comes in, for the current round.
Implement == /\ implemented' = implemented \cup {round}
             /\ UNCHANGED <<round, settled, stage, published>>

Settle == /\ \E S \in SUBSET Specialists :
                settled' = [settled EXCEPT ![round] = @ \cup S]
          /\ UNCHANGED <<round, implemented, stage, published>>

OpenReview ==
  /\ stage[round] = "open"
  /\ round \in implemented /\ settled[round] = Specialists
  /\ stage' = [stage EXCEPT ![round] = "review"]
  /\ UNCHANGED <<round, implemented, settled, published>>

Decide(v) ==
  /\ stage[round] = "review"
  /\ stage' = [stage EXCEPT ![round] = v]
  /\ UNCHANGED <<round, implemented, settled, published>>

Publish ==
  /\ stage[round] = "approved"
  /\ published' = TRUE
  /\ UNCHANGED <<round, implemented, settled, stage>>

\* Doubt about a connection or a delivery takes the announcement back.
Withdraw ==
  /\ published' = FALSE
  /\ UNCHANGED <<round, implemented, settled, stage>>

\* A repair round after a rejection, or one an operator asks for after an approval.
NextRound ==
  /\ stage[round] \in Verdicts
  /\ round < MaxRounds
  /\ round' = round + 1
  /\ published' = FALSE
  /\ UNCHANGED <<implemented, settled, stage>>

Next == \/ Implement \/ Settle \/ OpenReview \/ Publish \/ Withdraw \/ NextRound
        \/ \E v \in Verdicts : Decide(v)

Spec == Init /\ [][Next]_vars

=============================================================================
