--------------------------- MODULE MCProofVerdict ---------------------------
(* Instances of ProofVerdict for TLC. *)
EXTENDS ProofVerdict, TLC

CONSTANTS p1, p2, t1

\* Every proof is submitted for the same task.
OneTask == [p \in Proofs |-> t1]

Symmetry ==
  Permutations(Proofs) \cup Permutations(Workers)
    \cup Permutations(Admins) \cup Permutations(Quorums)
=============================================================================
