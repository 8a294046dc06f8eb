-------------------------- MODULE CompletionLedger --------------------------
(***************************************************************************)
(* What the deciders of ProofVerdict promise a task's sponsor: completions *)
(* are given away one at a time, only below the capacity of the moment and *)
(* only by a decision under way, which is begun on a proof that is still   *)
(* open and gives away one at most; a reward is awarded, once per proof,   *)
(* only together with a completion of its own.  A completion is given away *)
(* in vain only by a decision that comes too late: its proof was closed,   *)
(* or withdrawn, while it was under way.                                   *)
(***************************************************************************)
EXTENDS Naturals

CONSTANTS Proofs, Tasks, TaskOf, Capacities, Unlimited, Deciders, NoProof

VARIABLES
  capacity,  \* how many completions each task allows, now
  given,     \* how many it has given away
  awarded,   \* the proofs whose reward is owed
  fate,      \* of each proof: "open", "closed" by a verdict or "withdrawn"
  pending    \* the proof each decider is deciding

ledger == <<capacity, given, awarded, fate, pending>>

Init ==
  /\ capacity \in [Tasks -> Capacities]
  /\ given = [t \in Tasks |-> 0]
  /\ awarded = {}
  /\ fate = [p \in Proofs |-> "open"]
  /\ pending = [d \in Deciders |-> NoProof]

\* The sponsor may change the limit at any time, also below what was given.
SetCapacity(t) ==
  /\ \E m \in Capacities \ {Unlimited} : capacity' = [capacity EXCEPT ![t] = m]
  /\ UNCHANGED <<given, awarded, fate, pending>>

\* The submitter's request is undone before any verdict.
Withdraw(p) ==
  /\ fate[p] = "open"
  /\ fate' = [fate EXCEPT ![p] = "withdrawn"]
  /\ UNCHANGED <<capacity, given, awarded, pending>>

Begin(d, p) ==
  /\ pending[d] = NoProof
  /\ fate[p] = "open"
  /\ pending' = [pending EXCEPT ![d] = p]
  /\ UNCHANGED <<capacity, given, awarded, fate>>

Conclude(d, p) ==
  /\ pending[d] = p
  /\ pending' = [pending EXCEPT ![d] = NoProof]

GiveAway(t) ==
  /\ capacity[t] # Unlimited => given[t] < capacity[t]
  /\ given' = [given EXCEPT ![t] = @ + 1]
  /\ UNCHANGED capacity

\* Also of a proof another decider has refused meanwhile.
Award(d, p) ==
  /\ Conclude(d, p)
  /\ p \notin awarded
  /\ fate[p] # "withdrawn"
  /\ GiveAway(TaskOf[p])
  /\ awarded' = awarded \cup {p}
  /\ fate' = [fate EXCEPT ![p] = "closed"]

Refuse(d, p) ==
  /\ Conclude(d, p)
  /\ fate[p] # "withdrawn"
  /\ fate' = [fate EXCEPT ![p] = "closed"]
  /\ UNCHANGED <<capacity, given, awarded>>

\* Too late, and yet a completion is gone.
Waste(d, p) ==
  /\ Conclude(d, p)
  /\ fate[p] # "open"
  /\ GiveAway(TaskOf[p])
  /\ UNCHANGED <<awarded, fate>>

Drop(d, p) == Conclude(d, p) /\ UNCHANGED <<capacity, given, awarded, fate>>

Next ==
  \/ \E t \in Tasks : SetCapacity(t)
  \/ \E p \in Proofs : Withdraw(p)
  \/ \E d \in Deciders, p \in Proofs :
       Begin(d, p) \/ Award(d, p) \/ Refuse(d, p) \/ Waste(d, p) \/ Drop(d, p)

Spec == Init /\ [][Next]_ledger
=============================================================================
