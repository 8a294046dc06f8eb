--------------------------- MODULE MCRewardPayout ---------------------------
(* Instances of RewardPayout for TLC. *)
EXTENDS RewardPayout, TLC

CONSTANTS older, newer

RowOrder == [p \in Payouts |-> IF p = older THEN 1 ELSE 2]

Symmetry == Permutations(Workers) \cup Permutations(Sweepers)

\* A state that Spec reaches by two drains: the first enqueue of each row threw
\* before Redis had the job, and the backoff of the older row is over.
BackedOffInit ==
  /\ status = [p \in Payouts |-> "PENDING"]
  /\ attempts = [p \in Payouts |-> 1]
  /\ due = {older}
  /\ old = {}
  /\ approved = Payouts
  /\ rewarded = {}
  /\ jobState = [p \in Payouts |-> "none"]
  /\ lock = [p \in Payouts |-> NoWorker]
  /\ run = [w \in Workers |-> IdleRun]
  /\ sweeper = [s \in Sweepers |-> IdleDrain]
  /\ seen = [s \in Sweepers |-> NothingSeen]
  /\ payments = [p \in Payouts |-> 0]
  /\ reclaims = [p \in Payouts |-> 0]
  /\ faults = 0

BackedOffSpec == BackedOffInit /\ [][Next]_vars /\ Fairness
=============================================================================
