-------------------------- MODULE MCValidatorQuorum --------------------------
(* Instances of ValidatorQuorum for TLC. *)
EXTENDS ValidatorQuorum, TLC

CONSTANTS v1, v2, v3, v4, r1, r2, r3, r4, r5

\* One validator sends two requests, the others one each.
OneTwice == (r1 :> v1) @@ (r2 :> v1) @@ (r3 :> v2) @@ (r4 :> v3) @@ (r5 :> v4)

\* The twins disagree, and the early voter approves; of the other two it matters
\* how many do.
TwinsAndOthers ==
  {choices \in [Requests -> Verdicts] :
     /\ choices[r1] = "approved" /\ choices[r2] = "rejected" /\ choices[r5] = "approved"
     /\ choices[r4] = "approved" => choices[r3] = "approved"}

EarlyBallot == [v \in Validators |-> IF v = v4 THEN choice[r5] ELSE None]

\* A state that Spec reaches: one validator's request came first and has ended.
EarlyVoteInit ==
  /\ status = "OPEN"
  /\ choice \in Intents
  /\ votes = EarlyBallot
  /\ cast = {<<v4, choice[r5]>>}
  /\ reviews = [v \in Validators |-> 0]
  /\ reputation = [v \in Validators |-> 0]
  /\ quorumVerdict = None
  /\ splits = 0
  /\ pc = [r \in Requests |-> IF r = r5 THEN "done" ELSE "start"]
  /\ seen = [r \in Requests |-> IF r = r5 THEN EarlyBallot ELSE NoVotes]
  /\ answer = [r \in Requests |-> NoAnswer]
  /\ faults = 0

EarlyVoteSpec == EarlyVoteInit /\ [][Next]_vars /\ Fairness
=============================================================================
