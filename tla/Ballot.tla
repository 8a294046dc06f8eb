------------------------------- MODULE Ballot -------------------------------
(***************************************************************************)
(* What resolveQuorum promises the validators: one verdict at most, given  *)
(* with a quorum behind it, and everybody's reputation settled by it, at   *)
(* that moment and never again.                                            *)
(***************************************************************************)
CONSTANTS
  Validators,
  Quorums,  \* the sets of validators that are enough to back a verdict
  None

VARIABLES
  verdict,   \* the verdict, None before it is given
  credited,  \* the validators it has paid
  debited    \* the validators it has cost

ballot == <<verdict, credited, debited>>

Init == verdict = None /\ credited = {} /\ debited = {}

Decide ==
  /\ verdict = None
  /\ verdict' \in {"approved", "rejected"}
  /\ credited' \in Quorums
  /\ debited' \in SUBSET (Validators \ credited')

Spec == Init /\ [][Decide]_ballot
=============================================================================
