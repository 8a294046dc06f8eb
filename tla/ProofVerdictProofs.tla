------------------------- MODULE ProofVerdictProofs -------------------------
(***************************************************************************)
(* Theorems about ProofVerdict, for every set of proofs, tasks, workers,   *)
(* admins and quorum calls and every capacity.                             *)
(***************************************************************************)
EXTENDS ProofVerdict, FiniteSetTheorems, TLAPS

-----------------------------------------------------------------------------
(* Type correctness.                                                       *)

\* claimCompletionSlot, or its refusal, keeps the task columns well typed.
LEMMA TakeSlotType ==
  ASSUME TypeOK, NEW p \in Proofs, NEW v \in Verdicts, TakeSlot(p, v)
  PROVE  /\ completedCount' \in [Tasks -> Nat]
         /\ taskStatus' \in [Tasks -> TaskStatuses]
  BY ProofsAssumption DEF TypeOK, TakeSlot, ClaimCompletionSlot, TaskStatuses

LEMMA FinalStatusType ==
  ASSUME NEW p, NEW v
  PROVE  FinalStatus(p, v) \in FinalStatuses
  BY DEF FinalStatus, FinalStatuses

LEMMA RecordVerdictType ==
  ASSUME TypeOK, NEW p \in Proofs, NEW s \in FinalStatuses, RecordVerdict(p, s)
  PROVE  /\ status' \in [Proofs -> ProofStatuses]
         /\ verified' \subseteq Proofs
         /\ notices' \subseteq Proofs \X FinalStatuses
         /\ payouts' \subseteq Proofs
  BY DEF TypeOK, RecordVerdict, ProofStatuses

LEMMA DecideType ==
  ASSUME TypeOK, NEW p \in Proofs, NEW v \in Verdicts, DecideIfUndecided(p, v)
  PROVE  /\ completedCount' \in [Tasks -> Nat]
         /\ taskStatus' \in [Tasks -> TaskStatuses]
         /\ status' \in [Proofs -> ProofStatuses]
         /\ verified' \subseteq Proofs
         /\ notices' \subseteq Proofs \X FinalStatuses
         /\ payouts' \subseteq Proofs
<1>1. TakeSlot(p, v)
  BY DEF DecideIfUndecided
<1>2. CASE Undecided(p)
  BY <1>1, <1>2, TakeSlotType, RecordVerdictType, FinalStatusType
  DEF DecideIfUndecided
<1>3. CASE ~Undecided(p)
  BY <1>1, <1>3, TakeSlotType DEF DecideIfUndecided, TypeOK, ledgerVars
<1>4. QED
  BY <1>2, <1>3

\* A run that is not idle works on a proof.
LEMMA BusyRunHasProof ==
  ASSUME TypeOK, NEW w \in Workers, worker[w].pc # "idle"
  PROVE  /\ Job(w) \in Proofs
         /\ worker[w] \in [pc : WorkerPcs, proof : Proofs \cup {NoProof}]
  BY DEF TypeOK, Job

LEMMA LeaveType ==
  ASSUME TypeOK, NEW w \in Workers, worker[w].pc # "idle",
         NEW outcome \in {"waiting", "completed", "failed"}, Leave(w, outcome)
  PROVE  /\ jobState' \in [Proofs -> {"none", "waiting", "active", "completed", "failed"}]
         /\ lock' \in [Proofs -> Workers \cup {NoWorker}]
         /\ worker' \in [Workers -> [pc : WorkerPcs, proof : Proofs \cup {NoProof}]]
         /\ \A x \in Workers : worker'[x].pc = "idle" <=> worker'[x].proof = NoProof
<1>1. Job(w) \in Proofs
  BY BusyRunHasProof
<1>2. /\ jobState \in [Proofs -> {"none", "waiting", "active", "completed", "failed"}]
      /\ lock \in [Proofs -> Workers \cup {NoWorker}]
      /\ worker \in [Workers -> [pc : WorkerPcs, proof : Proofs \cup {NoProof}]]
      /\ \A x \in Workers : worker[x].pc = "idle" <=> worker[x].proof = NoProof
  BY DEF TypeOK
<1>3. IdleRun \in [pc : WorkerPcs, proof : Proofs \cup {NoProof}]
  BY DEF IdleRun, WorkerPcs
<1>4. IdleRun.pc = "idle" /\ IdleRun.proof = NoProof
  BY DEF IdleRun
<1>5. worker' = [worker EXCEPT ![w] = IdleRun]
  BY DEF Leave
<1>6. /\ jobState' \in [Proofs -> {"none", "waiting", "active", "completed", "failed"}]
      /\ lock' \in [Proofs -> Workers \cup {NoWorker}]
  BY <1>1, <1>2 DEF Leave
<1>7. QED
  BY <1>2, <1>3, <1>4, <1>5, <1>6

\* Moving a busy run to another point of the processor keeps it well typed.
LEMMA GotoType ==
  ASSUME TypeOK, NEW w \in Workers, worker[w].pc # "idle",
         NEW pc \in WorkerPcs \ {"idle"}, Goto(w, pc)
  PROVE  /\ worker' \in [Workers -> [pc : WorkerPcs, proof : Proofs \cup {NoProof}]]
         /\ \A x \in Workers : worker'[x].pc = "idle" <=> worker'[x].proof = NoProof
  BY BusyRunHasProof DEF TypeOK, Goto

LEMMA InitTypeOK == Init => TypeOK
  BY QueueAssumption, CapacityAssumption
  DEF Init, TypeOK, TaskStatuses, ProofStatuses, FinalStatuses, IdleRun, WorkerPcs

LEMMA SubmitType ==
  ASSUME TypeOK, NEW p \in Proofs, SubmitStep(p)
  PROVE  TypeOK'
<1> USE DEF TypeOK, taskVars, ledgerVars, evidence, queueVars
<1>1. CASE SubmitProof(p)
  BY <1>1 DEF SubmitProof, ProofStatuses
<1>2. CASE EnqueueVerification(p)
  BY <1>2 DEF EnqueueVerification
<1>3. CASE EnqueueFails(p)
  BY <1>3 DEF EnqueueFails
<1>4. CASE SubmitRollback(p)
  BY <1>4 DEF SubmitRollback, ProofStatuses
<1>5. CASE SubmitAbandoned(p)
  BY <1>5 DEF SubmitAbandoned
<1>6. QED
  BY <1>1, <1>2, <1>3, <1>4, <1>5 DEF SubmitStep

LEMMA RunType ==
  ASSUME TypeOK, NEW w \in Workers, RunStep(w)
  PROVE  TypeOK'
<1>1. worker[w].pc # "idle"
  BY DEF RunStep, ClaimProof, ResumeOrSkip, AutoVerify, WorkerApproves,
         WorkerRejects, StartAssignment, CreateVotes, RecordInconclusive,
         EscalateToManualReview, RunReturns, RunFails, At
<1>2. Job(w) \in Proofs
  BY <1>1, BusyRunHasProof
<1> USE DEF taskVars, ledgerVars, evidence, queueVars
<1>3. CASE ClaimProof(w)
  <2>1. PICK pc \in {"verify", "resume"} : Goto(w, pc)
    BY <1>3 DEF ClaimProof
  <2>2. status' \in [Proofs -> ProofStatuses]
    BY <1>3 DEF ClaimProof, TypeOK, ProofStatuses
  <2>3. QED
    BY <1>1, <1>3, <2>1, <2>2, GotoType DEF ClaimProof, TypeOK, WorkerPcs
<1>4. CASE ResumeOrSkip(w)
  <2>1. PICK pc \in {"verify", "return"} : Goto(w, pc)
    BY <1>4 DEF ResumeOrSkip
  <2>2. QED
    BY <1>1, <1>4, <2>1, GotoType DEF ResumeOrSkip, TypeOK, WorkerPcs
<1>5. CASE AutoVerify(w)
  <2>1. PICK pc \in {"approve", "reject", "assign"} : Goto(w, pc)
    BY <1>5 DEF AutoVerify
  <2>2. QED
    BY <1>1, <1>5, <2>1, GotoType DEF AutoVerify, TypeOK, WorkerPcs
<1>6. CASE WorkerApproves(w)
  <2>1. Goto(w, "return")
    BY <1>6 DEF WorkerApproves
  <2>2. /\ TakeSlot(Job(w), "approved")
        /\ RecordVerdict(Job(w), FinalStatus(Job(w), "approved"))
    BY <1>6 DEF WorkerApproves
  <2>3. QED
    BY <1>1, <1>2, <1>6, <2>1, <2>2, GotoType, TakeSlotType, FinalStatusType,
       RecordVerdictType DEF WorkerApproves, TypeOK, WorkerPcs, Verdicts
<1>7. CASE WorkerRejects(w)
  <2>1. Goto(w, "return") /\ RecordVerdict(Job(w), "REJECTED")
    BY <1>7 DEF WorkerRejects
  <2>2. QED
    BY <1>1, <1>2, <1>7, <2>1, GotoType, RecordVerdictType
    DEF WorkerRejects, TypeOK, WorkerPcs, FinalStatuses
<1>8. CASE StartAssignment(w)
  <2>1. PICK pc \in {"escalate", "record", "create"} : Goto(w, pc)
    BY <1>8 DEF StartAssignment
  <2>2. QED
    BY <1>1, <1>8, <2>1, GotoType DEF StartAssignment, TypeOK, WorkerPcs
<1>9. CASE CreateVotes(w)
  <2>1. PICK pc \in {"escalate", "record"} : Goto(w, pc)
    BY <1>9 DEF CreateVotes
  <2>2. assigned' \subseteq Proofs
    BY <1>2, <1>9 DEF CreateVotes, TypeOK
  <2>3. QED
    BY <1>1, <1>9, <2>1, <2>2, GotoType DEF CreateVotes, TypeOK, WorkerPcs
<1>10. CASE RecordInconclusive(w)
  <2>1. Goto(w, "return")
    BY <1>10 DEF RecordInconclusive
  <2>2. QED
    BY <1>1, <1>2, <1>10, <2>1, GotoType DEF RecordInconclusive, TypeOK, WorkerPcs
<1>11. CASE EscalateToManualReview(w)
  <2>1. Goto(w, "return")
    BY <1>11 DEF EscalateToManualReview
  <2>2. /\ status' \in [Proofs -> ProofStatuses]
        /\ verified' \subseteq Proofs
        /\ marked' \subseteq Proofs
    BY <1>2, <1>11 DEF EscalateToManualReview, TypeOK, ProofStatuses
  <2>3. QED
    BY <1>1, <1>11, <2>1, <2>2, GotoType DEF EscalateToManualReview, TypeOK, WorkerPcs
<1>12. CASE RunReturns(w)
  <2>1. Leave(w, "completed")
    BY <1>12 DEF RunReturns
  <2>2. QED
    BY <1>1, <1>12, <2>1, LeaveType DEF RunReturns, TypeOK
<1>13. CASE RunFails(w)
  <2>1. PICK outcome \in {"waiting", "failed"} : Leave(w, outcome)
    BY <1>13 DEF RunFails
  <2>2. attemptsMade' \in [Proofs -> Nat]
    BY <1>2, <1>13 DEF RunFails, TypeOK
  <2>3. QED
    BY <1>1, <1>13, <2>1, <2>2, LeaveType DEF RunFails, TypeOK
<1>14. QED
  BY <1>3, <1>4, <1>5, <1>6, <1>7, <1>8, <1>9, <1>10, <1>11, <1>12, <1>13 DEF RunStep

LEMMA QueueType == ASSUME TypeOK, QueueStep PROVE TypeOK'
<1> USE DEF taskVars, ledgerVars, evidence
<1>1. ASSUME NEW w \in Workers, NEW p \in Proofs, TakeJob(w, p) PROVE TypeOK'
  <2>1. p # NoProof
    BY ProofsAssumption
  <2>2. QED
    BY <1>1, <2>1 DEF TakeJob, TypeOK, WorkerPcs
<1>2. ASSUME NEW w \in Workers, RunStalls(w) PROVE TypeOK'
  <2>1. Job(w) \in Proofs
    BY <1>2, BusyRunHasProof DEF RunStalls
  <2>2. /\ worker' \in [Workers -> [pc : WorkerPcs, proof : Proofs \cup {NoProof}]]
        /\ \A x \in Workers : worker'[x].pc = "idle" <=> worker'[x].proof = NoProof
    BY <1>2 DEF RunStalls, TypeOK, IdleRun, WorkerPcs
  <2>3. /\ jobState' \in [Proofs -> {"none", "waiting", "active", "completed", "failed"}]
        /\ lock' \in [Proofs -> Workers \cup {NoWorker}]
        /\ stalls' \in [Proofs -> Nat]
    BY <1>2, <2>1 DEF RunStalls, TypeOK
  <2>4. QED
    BY <1>2, <2>2, <2>3 DEF RunStalls, TypeOK
<1>3. ASSUME NEW p \in Proofs, RetryFailedJob(p) PROVE TypeOK'
  BY <1>3 DEF RetryFailedJob, TypeOK
<1>4. QED
  BY <1>1, <1>2, <1>3 DEF QueueStep

LEMMA ReviewType == ASSUME TypeOK, ReviewStep PROVE TypeOK'
<1> USE DEF taskVars, ledgerVars, evidence, queueVars
<1>1. ASSUME NEW a \in Admins, NEW p \in Proofs, NEW v \in Verdicts, StartReview(a, p, v)
      PROVE  TypeOK'
  BY <1>1 DEF StartReview, TypeOK, Decisions
<1>2. ASSUME NEW a \in Admins, CommitReview(a) PROVE TypeOK'
  <2>1. review[a].proof \in Proofs /\ review[a].verdict \in Verdicts
    BY <1>2 DEF CommitReview, TypeOK, Decisions
  <2>2. DecideIfUndecided(review[a].proof, review[a].verdict)
    BY <1>2 DEF CommitReview
  <2>3. QED
    BY <1>2, <2>1, <2>2, DecideType DEF CommitReview, TypeOK
<1>3. ASSUME NEW q \in Quorums, NEW p \in Proofs, NEW v \in Verdicts, StartFinalize(q, p, v)
      PROVE  TypeOK'
  BY <1>3 DEF StartFinalize, TypeOK, Decisions
<1>4. ASSUME NEW q \in Quorums, CommitFinalize(q) PROVE TypeOK'
  <2>1. quorum[q].proof \in Proofs /\ quorum[q].verdict \in Verdicts
    BY <1>4 DEF CommitFinalize, TypeOK, Decisions
  <2>2. DecideIfUndecided(quorum[q].proof, quorum[q].verdict)
    BY <1>4 DEF CommitFinalize
  <2>3. QED
    BY <1>4, <2>1, <2>2, DecideType DEF CommitFinalize, TypeOK
<1>5. QED
  BY <1>1, <1>2, <1>3, <1>4 DEF ReviewStep

LEMMA TaskType == ASSUME TypeOK, TaskStep PROVE TypeOK'
<1> USE DEF taskVars, ledgerVars, evidence, queueVars
<1>1. ASSUME NEW t \in Tasks, ExpireTask(t) PROVE TypeOK'
  BY <1>1 DEF ExpireTask, TypeOK, TaskStatuses
<1>2. ASSUME NEW t \in Tasks, UpdateTask(t) PROVE TypeOK'
  BY <1>2 DEF UpdateTask, TypeOK
<1>3. QED
  BY <1>1, <1>2 DEF TaskStep

LEMMA StepTypeOK == TypeOK /\ [Next]_vars => TypeOK'
<1> SUFFICES ASSUME TypeOK, [Next]_vars PROVE TypeOK'
  OBVIOUS
<1>1. CASE UNCHANGED vars
  BY <1>1 DEF vars, taskVars, ledgerVars, evidence, queueVars, TypeOK
<1>2. CASE Next
  BY <1>2, SubmitType, RunType, QueueType, ReviewType, TaskType DEF Next
<1>3. QED
  BY <1>1, <1>2

\* Every state the deciders, the queue and the task editor reach is well typed;
\* in particular a run that holds a proof is never taken for an idle one.
THEOREM TypeCorrect == Spec => []TypeOK
<1>1. Init => TypeOK
  BY InitTypeOK
<1>2. TypeOK /\ [Next]_vars => TypeOK'
  BY StepTypeOK
<1>3. QED
  BY <1>1, <1>2, PTL DEF Spec

-----------------------------------------------------------------------------
(* Payouts and completion slots.                                           *)

\* A step leaves payouts and the counters alone, or it is one transaction that
\* takes the slot of a proof's task and may add that proof's payout.
Pays(p, v) ==
  /\ TakeSlot(p, v)
  /\ payouts' \in {payouts, IF FinalStatus(p, v) = "APPROVED" THEN payouts \cup {p}
                                                             ELSE payouts}
  /\ UNCHANGED maxCompletions

LEMMA DecideUndecidedPays ==
  ASSUME NEW p, NEW v, DecideIfUndecided(p, v), UNCHANGED maxCompletions
  PROVE  Pays(p, v)
  BY DEF DecideIfUndecided, Pays, RecordVerdict, ledgerVars

LEMMA StepPays ==
  ASSUME TypeOK, [Next]_vars
  PROVE  \/ UNCHANGED <<payouts, completedCount>>
         \/ \E p \in Proofs, v \in Verdicts : Pays(p, v)
<1> USE DEF taskVars, ledgerVars, evidence, queueVars
<1>1. CASE UNCHANGED vars
  BY <1>1 DEF vars
<1>2. ASSUME NEW p \in Proofs, SubmitStep(p) PROVE UNCHANGED <<payouts, completedCount>>
  BY <1>2 DEF SubmitStep, SubmitProof, EnqueueVerification, EnqueueFails,
              SubmitRollback, SubmitAbandoned
<1>3. ASSUME NEW w \in Workers, RunStep(w)
      PROVE  \/ UNCHANGED <<payouts, completedCount>>
             \/ \E p \in Proofs, v \in Verdicts : Pays(p, v)
  <2>1. CASE WorkerApproves(w)
    <3>1. Job(w) \in Proofs
      BY <2>1, BusyRunHasProof DEF WorkerApproves, At
    <3>2. Pays(Job(w), "approved")
      BY <2>1 DEF WorkerApproves, Pays, RecordVerdict
    <3>3. QED
      BY <3>1, <3>2 DEF Verdicts
  <2>2. CASE WorkerRejects(w)
    BY <2>2 DEF WorkerRejects, RecordVerdict
  <2>3. CASE ~WorkerApproves(w) /\ ~WorkerRejects(w)
    BY <1>3, <2>3 DEF RunStep, ClaimProof, ResumeOrSkip, AutoVerify, StartAssignment,
       CreateVotes, RecordInconclusive, EscalateToManualReview, RunReturns, RunFails
  <2>4. QED
    BY <2>1, <2>2, <2>3
<1>4. ASSUME QueueStep PROVE UNCHANGED <<payouts, completedCount>>
  BY <1>4 DEF QueueStep, TakeJob, RunStalls, RetryFailedJob
<1>5. ASSUME ReviewStep
      PROVE  \/ UNCHANGED <<payouts, completedCount>>
             \/ \E p \in Proofs, v \in Verdicts : Pays(p, v)
  <2>1. ASSUME NEW a \in Admins, CommitReview(a)
        PROVE  \E p \in Proofs, v \in Verdicts : Pays(p, v)
    <3>1. review[a].proof \in Proofs /\ review[a].verdict \in Verdicts
      BY <2>1 DEF CommitReview, TypeOK, Decisions
    <3>2. Pays(review[a].proof, review[a].verdict)
      BY <2>1, DecideUndecidedPays DEF CommitReview
    <3>3. QED
      BY <3>1, <3>2
  <2>2. ASSUME NEW q \in Quorums, CommitFinalize(q)
        PROVE  \E p \in Proofs, v \in Verdicts : Pays(p, v)
    <3>1. quorum[q].proof \in Proofs /\ quorum[q].verdict \in Verdicts
      BY <2>2 DEF CommitFinalize, TypeOK, Decisions
    <3>2. Pays(quorum[q].proof, quorum[q].verdict)
      BY <2>2, DecideUndecidedPays DEF CommitFinalize
    <3>3. QED
      BY <3>1, <3>2
  <2>3. QED
    BY <1>5, <2>1, <2>2 DEF ReviewStep, StartReview, StartFinalize
<1>6. ASSUME TaskStep PROVE UNCHANGED <<payouts, completedCount>>
  BY <1>6 DEF TaskStep, ExpireTask, UpdateTask
<1>7. QED
  BY <1>1, <1>2, <1>3, <1>4, <1>5, <1>6 DEF Next

\* Counting: a payout added for a proof of task t adds at most one to t's
\* payouts and nothing to those of any other task.
LEMMA PayoutAdded ==
  ASSUME TypeOK, NEW p \in Proofs, NEW t \in Tasks, payouts' = payouts \cup {p}
  PROVE  /\ Cardinality(PayoutsOf(t)) \in Nat
         /\ Cardinality(PayoutsOf(t))' \in Nat
         /\ t = TaskOf[p] => Cardinality(PayoutsOf(t))' <= Cardinality(PayoutsOf(t)) + 1
         /\ t # TaskOf[p] => Cardinality(PayoutsOf(t))' = Cardinality(PayoutsOf(t))
<1>1. IsFiniteSet(PayoutsOf(t))
  BY ProofsAssumption, FS_Subset DEF PayoutsOf, TypeOK
<1>2. Cardinality(PayoutsOf(t)) \in Nat
  BY <1>1, FS_CardinalityType
<1>3. CASE t = TaskOf[p]
  <2>1. PayoutsOf(t)' = PayoutsOf(t) \cup {p}
    BY <1>3 DEF PayoutsOf
  <2>2. QED
    BY <1>1, <1>2, <1>3, <2>1, FS_AddElement
<1>4. CASE t # TaskOf[p]
  <2>1. PayoutsOf(t)' = PayoutsOf(t)
    BY <1>4 DEF PayoutsOf
  <2>2. QED
    BY <1>2, <1>4, <2>1
<1>5. QED
  BY <1>3, <1>4

\* The effect of claimCompletionSlot on the counter, when an approval gets one.
LEMMA SlotCounted ==
  ASSUME TypeOK, NEW p \in Proofs, NEW v, TakeSlot(p, v), NEW t \in Tasks
  PROVE  /\ completedCount[t] \in Nat
         /\ completedCount'[t] = IF t = TaskOf[p] /\ FinalStatus(p, v) = "APPROVED"
                                   THEN completedCount[t] + 1 ELSE completedCount[t]
  BY ProofsAssumption DEF TypeOK, TakeSlot, ClaimCompletionSlot

LEMMA StepHoldsSlots ==
  TypeOK /\ PayoutsHoldSlots /\ [Next]_vars => PayoutsHoldSlots'
<1> SUFFICES ASSUME TypeOK, PayoutsHoldSlots, [Next]_vars, NEW t \in Tasks
             PROVE  (Cardinality(PayoutsOf(t)) <= completedCount[t])'
  BY DEF PayoutsHoldSlots
<1>1. Cardinality(PayoutsOf(t)) <= completedCount[t]
  BY DEF PayoutsHoldSlots
<1>2. CASE UNCHANGED <<payouts, completedCount>>
  BY <1>1, <1>2 DEF PayoutsOf
<1>3. ASSUME NEW p \in Proofs, NEW v \in Verdicts, Pays(p, v)
      PROVE  (Cardinality(PayoutsOf(t)) <= completedCount[t])'
  <2>1. TakeSlot(p, v)
    BY <1>3 DEF Pays
  <2>2. CASE payouts' = payouts
    <3>1. PayoutsOf(t)' = PayoutsOf(t)
      BY <2>2 DEF PayoutsOf
    <3>2. Cardinality(PayoutsOf(t)) \in Nat
      BY ProofsAssumption, FS_Subset, FS_CardinalityType DEF PayoutsOf, TypeOK
    <3>3. QED
      BY <1>1, <2>1, <3>1, <3>2, SlotCounted
  <2>3. CASE payouts' = payouts \cup {p} /\ FinalStatus(p, v) = "APPROVED"
    BY <1>1, <2>1, <2>3, SlotCounted, PayoutAdded
  <2>4. QED
    BY <1>3, <2>2, <2>3 DEF Pays
<1>4. QED
  BY <1>2, <1>3, StepPays

\* No interleaving of deciders leaves a task owing more reward payouts than it
\* has counted completions (PayoutsHoldSlots of ProofVerdict).
THEOREM PayoutsAreBacked == Spec => []PayoutsHoldSlots
<1>1. Init => PayoutsHoldSlots
  <2> SUFFICES ASSUME Init, NEW t \in Tasks
               PROVE  Cardinality(PayoutsOf(t)) <= completedCount[t]
    BY DEF PayoutsHoldSlots
  <2>1. PayoutsOf(t) = {}
    BY DEF Init, PayoutsOf
  <2>2. QED
    BY <2>1, FS_EmptySet DEF Init
<1>2. QED
  BY <1>1, StepHoldsSlots, TypeCorrect, PTL DEF Spec

\* Paying never exceeds the capacity in force (PayoutWithinCapacity): the slot
\* that a new payout takes was free, and all older payouts hold slots already.
THEOREM CapacityRespected == Spec => PayoutWithinCapacity
<1>1. ASSUME TypeOK, PayoutsHoldSlots, [Next]_vars, NEW p \in payouts' \ payouts,
             maxCompletions[TaskOf[p]] # Unlimited
      PROVE  Cardinality(PayoutsOf(TaskOf[p]))' <= maxCompletions[TaskOf[p]]
  <2>1. PICK r \in Proofs, v \in Verdicts : Pays(r, v)
    BY <1>1, StepPays
  <2>2. /\ FinalStatus(r, v) = "APPROVED" /\ r = p
        /\ payouts' = payouts \cup {p} /\ TakeSlot(r, v)
    BY <1>1, <2>1 DEF Pays
  <2>3. TaskOf[p] \in Tasks
    BY <2>2, ProofsAssumption
  <2>4. completedCount[TaskOf[p]] < maxCompletions[TaskOf[p]]
    BY <1>1, <2>2 DEF FinalStatus, SlotFree
  <2>5. maxCompletions[TaskOf[p]] \in Nat
    BY <1>1, <2>3, CapacityAssumption DEF TypeOK
  <2>6. /\ completedCount[TaskOf[p]] \in Nat
        /\ Cardinality(PayoutsOf(TaskOf[p])) \in Nat
        /\ Cardinality(PayoutsOf(TaskOf[p]))' \in Nat
        /\ Cardinality(PayoutsOf(TaskOf[p]))' <= Cardinality(PayoutsOf(TaskOf[p])) + 1
    BY <1>1, <2>2, <2>3, SlotCounted, PayoutAdded
  <2>7. Cardinality(PayoutsOf(TaskOf[p])) <= completedCount[TaskOf[p]]
    BY <1>1, <2>3 DEF PayoutsHoldSlots
  <2>8. QED
    BY <2>4, <2>5, <2>6, <2>7
<1>2. TypeOK /\ PayoutsHoldSlots /\ [Next]_vars =>
        [\A p \in payouts' \ payouts :
           LET t == TaskOf[p] IN
           maxCompletions[t] # Unlimited => Cardinality(PayoutsOf(t))' <= maxCompletions[t]]_vars
  BY <1>1
<1>3. QED
  BY <1>2, TypeCorrect, PayoutsAreBacked, PTL DEF Spec, PayoutWithinCapacity

-----------------------------------------------------------------------------
(* Verdicts, notifications and payout rows.                                *)

\* What the rollback of a submission relies on: a decided proof is referenced
\* by a verification, and a proof not submitted yet has no row.
DecidedIsReferenced == \A p \in Proofs : Decided(p) => p \in verified
UnsubmittedIsAbsent == \A p \in Proofs : submitPc[p] = "start" => status[p] = "ABSENT"

\* The inductive invariant behind the properties of verdicts.
VerdictInv ==
  /\ ApprovedHasPayout
  /\ FinalIsNotified
  /\ OpenProofsOweNothing
  /\ DecidedIsReferenced
  /\ UnsubmittedIsAbsent

\* A step that stores no verdict: it moves only undecided proofs, and only to
\* statuses that are no verdict.
NoVerdictStep ==
  /\ UNCHANGED <<payouts, notices>>
  /\ verified \subseteq verified'
  /\ \A p \in Proofs : status'[p] # status[p] =>
        ~Decided(p) /\ status'[p] \in {"PENDING", "VERIFYING", "DELETED"}

VerdictStep == \E p \in Proofs, s \in FinalStatuses : RecordVerdict(p, s)

LEMMA DecideVerdict ==
  ASSUME NEW p \in Proofs, NEW v \in Verdicts, DecideIfUndecided(p, v)
  PROVE  VerdictStep \/ NoVerdictStep
<1>1. CASE Undecided(p)
  BY <1>1, FinalStatusType DEF DecideIfUndecided, VerdictStep
<1>2. CASE ~Undecided(p)
  BY <1>2 DEF DecideIfUndecided, NoVerdictStep, ledgerVars
<1>3. QED
  BY <1>1, <1>2

LEMMA SubmitVerdict ==
  ASSUME TypeOK, VerdictInv, NEW p \in Proofs, SubmitStep(p)
  PROVE  NoVerdictStep
<1> USE DEF NoVerdictStep, ledgerVars, evidence
<1>1. CASE SubmitProof(p)
  <2>1. status[p] = "ABSENT"
    BY <1>1 DEF SubmitProof, VerdictInv, UnsubmittedIsAbsent
  <2>2. QED
    BY <1>1, <2>1 DEF SubmitProof, TypeOK, Decided, FinalStatuses
<1>2. CASE SubmitRollback(p)
  <2>1. ~Decided(p)
    BY <1>2 DEF SubmitRollback, Referenced, VerdictInv, DecidedIsReferenced
  <2>2. QED
    BY <1>2, <2>1 DEF SubmitRollback, TypeOK
<1>3. CASE EnqueueVerification(p) \/ EnqueueFails(p) \/ SubmitAbandoned(p)
  BY <1>3 DEF EnqueueVerification, EnqueueFails, SubmitAbandoned
<1>4. QED
  BY <1>1, <1>2, <1>3 DEF SubmitStep

LEMMA RunVerdict ==
  ASSUME TypeOK, NEW w \in Workers, RunStep(w)
  PROVE  VerdictStep \/ NoVerdictStep
<1>1. Job(w) \in Proofs
  BY BusyRunHasProof
  DEF RunStep, ClaimProof, ResumeOrSkip, AutoVerify, WorkerApproves,
      WorkerRejects, StartAssignment, CreateVotes, RecordInconclusive,
      EscalateToManualReview, RunReturns, RunFails, At
<1> USE DEF ledgerVars, evidence
<1>2. CASE WorkerApproves(w)
  BY <1>1, <1>2, FinalStatusType DEF WorkerApproves, VerdictStep
<1>3. CASE WorkerRejects(w)
  BY <1>1, <1>3 DEF WorkerRejects, VerdictStep, FinalStatuses
<1>4. CASE ClaimProof(w)
  BY <1>1, <1>4 DEF ClaimProof, NoVerdictStep, TypeOK, Decided, FinalStatuses
<1>5. CASE EscalateToManualReview(w)
  BY <1>1, <1>5 DEF EscalateToManualReview, NoVerdictStep, TypeOK, Decided, FinalStatuses
<1>6. CASE RecordInconclusive(w)
  BY <1>6 DEF RecordInconclusive, NoVerdictStep
<1>7. CASE \/ ResumeOrSkip(w) \/ AutoVerify(w) \/ StartAssignment(w)
           \/ CreateVotes(w) \/ RunReturns(w) \/ RunFails(w)
  BY <1>7 DEF ResumeOrSkip, AutoVerify, StartAssignment, CreateVotes, RunReturns,
              RunFails, NoVerdictStep
<1>8. QED
  BY <1>2, <1>3, <1>4, <1>5, <1>6, <1>7 DEF RunStep

LEMMA OtherVerdict ==
  ASSUME TypeOK, QueueStep \/ ReviewStep \/ TaskStep \/ UNCHANGED vars
  PROVE  VerdictStep \/ NoVerdictStep
<1> USE DEF ledgerVars, evidence, NoVerdictStep
<1>1. CASE UNCHANGED vars
  BY <1>1 DEF vars
<1>2. CASE QueueStep
  BY <1>2 DEF QueueStep, TakeJob, RunStalls, RetryFailedJob
<1>3. CASE TaskStep
  BY <1>3 DEF TaskStep, ExpireTask, UpdateTask
<1>4. ASSUME NEW a \in Admins, CommitReview(a) PROVE VerdictStep \/ NoVerdictStep
  <2>1. review[a].proof \in Proofs /\ review[a].verdict \in Verdicts
    BY <1>4 DEF CommitReview, TypeOK, Decisions
  <2>2. QED
    BY <1>4, <2>1, DecideVerdict DEF CommitReview
<1>5. ASSUME NEW q \in Quorums, CommitFinalize(q) PROVE VerdictStep \/ NoVerdictStep
  <2>1. quorum[q].proof \in Proofs /\ quorum[q].verdict \in Verdicts
    BY <1>5 DEF CommitFinalize, TypeOK, Decisions
  <2>2. QED
    BY <1>5, <2>1, DecideVerdict DEF CommitFinalize
<1>6. CASE ReviewStep
  BY <1>4, <1>5, <1>6 DEF ReviewStep, StartReview, StartFinalize
<1>7. QED
  BY <1>1, <1>2, <1>3, <1>6

LEMMA StepVerdict ==
  ASSUME TypeOK, VerdictInv, [Next]_vars
  PROVE  VerdictStep \/ NoVerdictStep
  BY SubmitVerdict, RunVerdict, OtherVerdict DEF Next

\* Neither kind of step takes a verdict back.
LEMMA StepStaysDecided ==
  ASSUME TypeOK, VerdictInv, [Next]_vars, NEW p \in Proofs, Decided(p)
  PROVE  Decided(p)'
<1>1. CASE NoVerdictStep
  BY <1>1 DEF NoVerdictStep, Decided
<1>2. CASE VerdictStep
  <2>1. PICK r \in Proofs, s \in FinalStatuses : RecordVerdict(r, s)
    BY <1>2 DEF VerdictStep
  <2>2. QED
    BY <2>1 DEF RecordVerdict, Decided, TypeOK
<1>3. QED
  BY <1>1, <1>2, StepVerdict

\* A submission leaves "start" only by storing its proof, and nothing else
\* touches a proof that is not stored.
LEMMA StepUnsubmitted ==
  ASSUME TypeOK, VerdictInv, [Next]_vars
  PROVE  UnsubmittedIsAbsent'
<1> SUFFICES ASSUME NEW p \in Proofs, (submitPc[p] = "start")' PROVE (status[p] = "ABSENT")'
  BY DEF UnsubmittedIsAbsent
<1> USE DEF taskVars, ledgerVars, evidence, queueVars
<1>1. submitPc[p] = "start" => status[p] = "ABSENT"
  BY DEF VerdictInv, UnsubmittedIsAbsent
<1>2. CASE UNCHANGED vars
  BY <1>1, <1>2 DEF vars
<1>3. ASSUME NEW r \in Proofs, SubmitStep(r) PROVE (status[p] = "ABSENT")'
  BY <1>1, <1>3 DEF SubmitStep, SubmitProof, EnqueueVerification, EnqueueFails,
     SubmitRollback, SubmitAbandoned, TypeOK
<1>4. ASSUME NEW w \in Workers, RunStep(w) PROVE (status[p] = "ABSENT")'
  <2>1. submitPc' = submitPc
    BY <1>4 DEF RunStep, ClaimProof, ResumeOrSkip, AutoVerify, WorkerApproves,
       WorkerRejects, StartAssignment, CreateVotes, RecordInconclusive,
       EscalateToManualReview, RunReturns, RunFails
  <2>2. status[p] = "ABSENT"
    BY <1>1, <2>1
  <2>3. Job(w) \in Proofs
    BY <1>4, BusyRunHasProof
    DEF RunStep, ClaimProof, ResumeOrSkip, AutoVerify, WorkerApproves,
        WorkerRejects, StartAssignment, CreateVotes, RecordInconclusive,
        EscalateToManualReview, RunReturns, RunFails, At
  <2>4. CASE ClaimProof(w) \/ EscalateToManualReview(w)
    BY <2>2, <2>3, <2>4 DEF ClaimProof, EscalateToManualReview, TypeOK
  <2>5. CASE WorkerApproves(w) \/ WorkerRejects(w)
    BY <2>2, <2>3, <2>5 DEF WorkerApproves, WorkerRejects, RecordVerdict, Exists, TypeOK
  <2>6. CASE \/ ResumeOrSkip(w) \/ AutoVerify(w) \/ StartAssignment(w) \/ CreateVotes(w)
             \/ RecordInconclusive(w) \/ RunReturns(w) \/ RunFails(w)
    BY <2>2, <2>6 DEF ResumeOrSkip, AutoVerify, StartAssignment, CreateVotes,
       RecordInconclusive, RunReturns, RunFails
  <2>7. QED
    BY <1>4, <2>4, <2>5, <2>6 DEF RunStep
<1>5. CASE QueueStep
  BY <1>1, <1>5 DEF QueueStep, TakeJob, RunStalls, RetryFailedJob
<1>6. CASE TaskStep
  BY <1>1, <1>6 DEF TaskStep, ExpireTask, UpdateTask
<1>7. CASE ReviewStep
  <2>1. submitPc' = submitPc
    BY <1>7 DEF ReviewStep, StartReview, CommitReview, StartFinalize, CommitFinalize
  <2>2. \A r \in Proofs, v \in Verdicts :
          DecideIfUndecided(r, v) /\ status[p] = "ABSENT" => status'[p] = "ABSENT"
    BY DEF DecideIfUndecided, Undecided, RecordVerdict, TypeOK
  <2>3. ASSUME NEW a \in Admins, CommitReview(a) PROVE (status[p] = "ABSENT")'
    <3>1. review[a].proof \in Proofs /\ review[a].verdict \in Verdicts
      BY <2>3 DEF CommitReview, TypeOK, Decisions
    <3>2. QED
      BY <1>1, <2>1, <2>2, <2>3, <3>1 DEF CommitReview
  <2>4. ASSUME NEW q \in Quorums, CommitFinalize(q) PROVE (status[p] = "ABSENT")'
    <3>1. quorum[q].proof \in Proofs /\ quorum[q].verdict \in Verdicts
      BY <2>4 DEF CommitFinalize, TypeOK, Decisions
    <3>2. QED
      BY <1>1, <2>1, <2>2, <2>4, <3>1 DEF CommitFinalize
  <2>5. QED
    BY <1>1, <1>7, <2>3, <2>4 DEF ReviewStep, StartReview, StartFinalize
<1>8. QED
  BY <1>2, <1>3, <1>4, <1>5, <1>6, <1>7 DEF Next

LEMMA StepVerdictInv == TypeOK /\ VerdictInv /\ [Next]_vars => VerdictInv'
<1> SUFFICES ASSUME TypeOK, VerdictInv, [Next]_vars PROVE VerdictInv'
  OBVIOUS
<1>1. UnsubmittedIsAbsent'
  BY StepUnsubmitted
<1>2. CASE NoVerdictStep
  <2> SUFFICES ASSUME NEW p \in Proofs
               PROVE  /\ (status[p] = "APPROVED" => p \in payouts)'
                      /\ (Decided(p) => <<p, status[p]>> \in notices)'
                      /\ (~Decided(p) =>
                           p \notin payouts /\ \A s \in FinalStatuses : <<p, s>> \notin notices)'
                      /\ (Decided(p) => p \in verified)'
    BY <1>1 DEF VerdictInv, ApprovedHasPayout, FinalIsNotified, OpenProofsOweNothing,
                DecidedIsReferenced
  <2>1. CASE status'[p] = status[p]
    BY <1>2, <2>1 DEF NoVerdictStep, VerdictInv, ApprovedHasPayout, FinalIsNotified,
       OpenProofsOweNothing, DecidedIsReferenced, Decided
  <2>2. CASE status'[p] # status[p]
    BY <1>2, <2>2 DEF NoVerdictStep, VerdictInv, OpenProofsOweNothing, Decided, FinalStatuses
  <2>3. QED
    BY <2>1, <2>2
<1>3. CASE VerdictStep
  <2>1. PICK r \in Proofs, s \in FinalStatuses : RecordVerdict(r, s)
    BY <1>3 DEF VerdictStep
  <2>2. ApprovedHasPayout'
    BY <2>1 DEF VerdictInv, ApprovedHasPayout, RecordVerdict, TypeOK
  <2>3. FinalIsNotified'
    BY <2>1 DEF VerdictInv, FinalIsNotified, RecordVerdict, Decided, TypeOK
  <2>4. OpenProofsOweNothing'
    BY <2>1 DEF VerdictInv, OpenProofsOweNothing, RecordVerdict, Decided, TypeOK
  <2>5. DecidedIsReferenced'
    BY <2>1 DEF VerdictInv, DecidedIsReferenced, RecordVerdict, Decided, TypeOK
  <2>6. QED
    BY <1>1, <2>2, <2>3, <2>4, <2>5 DEF VerdictInv
<1>4. QED
  BY <1>2, <1>3, StepVerdict

LEMMA VerdictInvariant == Spec => []VerdictInv
<1>1. Init => VerdictInv
  BY DEF Init, VerdictInv, ApprovedHasPayout, FinalIsNotified, OpenProofsOweNothing,
         DecidedIsReferenced, UnsubmittedIsAbsent, Decided, FinalStatuses
<1>2. QED
  BY <1>1, StepVerdictInv, TypeCorrect, PTL DEF Spec

\* An approval always left its payout row behind (ApprovedHasPayout).
THEOREM ApprovalsArePaidFor == Spec => []ApprovedHasPayout
  BY VerdictInvariant, PTL DEF VerdictInv

\* The verdict a proof shows is one its submitter was notified of.
THEOREM VerdictsAreNotified == Spec => []FinalIsNotified
  BY VerdictInvariant, PTL DEF VerdictInv

\* Open, rolled back and unsubmitted proofs have neither payout nor verdict notice.
THEOREM OpenProofsAreClean == Spec => []OpenProofsOweNothing
  BY VerdictInvariant, PTL DEF VerdictInv

\* No step reopens or deletes a decided proof, whichever process takes it.
THEOREM VerdictsLast == Spec => DecidedStaysDecided
<1>1. TypeOK /\ VerdictInv /\ [Next]_vars =>
        [\A p \in Proofs : Decided(p) => Decided(p)']_vars
  BY StepStaysDecided
<1>2. QED
  BY <1>1, TypeCorrect, VerdictInvariant, PTL DEF Spec, DecidedStaysDecided

-----------------------------------------------------------------------------
(* The deciders together implement the ledger of completions.  What the    *)
(* ledger sees of a state is the fate of each proof and the proof each     *)
(* decider is at.                                                          *)

FateNow == [p \in Proofs |-> Fate(p)]
PendingNow == [d \in Deciders |-> DecisionOf(d)]

\* Of the rest the ledger sees, only a decision and the task editor change anything.
Unpaid == UNCHANGED <<maxCompletions, completedCount, payouts>>

\* A decision under way has a proof that was submitted.
CallsSubmitted ==
  /\ \A a \in Admins : review[a] # Idle => status[review[a].proof] # "ABSENT"
  /\ \A q \in Quorums : quorum[q] # Idle => status[quorum[q].proof] # "ABSENT"

LEMMA StepCallsSubmitted ==
  ASSUME TypeOK, VerdictInv, CallsSubmitted, [Next]_vars
  PROVE  CallsSubmitted'
<1>1. \A p \in Proofs : status[p] # "ABSENT" => status'[p] # "ABSENT"
  <2>1. CASE NoVerdictStep
    BY <2>1 DEF NoVerdictStep
  <2>2. CASE VerdictStep
    BY <2>2 DEF VerdictStep, RecordVerdict, TypeOK, FinalStatuses
  <2>3. QED
    BY <2>1, <2>2, StepVerdict
<1>2. ASSUME NEW a \in Admins, (review[a] # Idle)'
      PROVE  (status[review[a].proof] # "ABSENT")'
  <2>1. CASE review'[a] = review[a]
    BY <1>1, <1>2, <2>1 DEF CallsSubmitted, TypeOK, Decisions
  <2>2. CASE review'[a] # review[a]
    <3>1. PICK b \in Admins, p \in Proofs, v \in Verdicts : StartReview(b, p, v)
      <4>1. \E b \in Admins :
              CommitReview(b) \/ \E p \in Proofs, v \in Verdicts : StartReview(b, p, v)
        BY <2>2 DEF Next, vars, SubmitStep, SubmitProof, EnqueueVerification, EnqueueFails,
           SubmitRollback, SubmitAbandoned, RunStep, ClaimProof, ResumeOrSkip, AutoVerify,
           WorkerApproves, WorkerRejects, StartAssignment, CreateVotes, RecordInconclusive,
           EscalateToManualReview, RunReturns, RunFails, QueueStep, TakeJob, RunStalls,
           RetryFailedJob, ReviewStep, StartFinalize, CommitFinalize, TaskStep, ExpireTask,
           UpdateTask
      <4>2. ASSUME NEW b \in Admins, CommitReview(b) PROVE FALSE
        BY <1>2, <2>2, <4>2 DEF CommitReview, TypeOK
      <4>3. QED
        BY <4>1, <4>2
    <3>2. review'[a].proof = p /\ status[p] # "ABSENT"
      BY <2>2, <3>1 DEF StartReview, TypeOK, Undecided
    <3>3. QED
      BY <1>1, <3>2
  <2>3. QED
    BY <2>1, <2>2
<1>3. ASSUME NEW q \in Quorums, (quorum[q] # Idle)'
      PROVE  (status[quorum[q].proof] # "ABSENT")'
  <2>1. CASE quorum'[q] = quorum[q]
    BY <1>1, <1>3, <2>1 DEF CallsSubmitted, TypeOK, Decisions
  <2>2. CASE quorum'[q] # quorum[q]
    <3>1. PICK r \in Quorums, p \in Proofs, v \in Verdicts : StartFinalize(r, p, v)
      <4>1. \E r \in Quorums :
              CommitFinalize(r) \/ \E p \in Proofs, v \in Verdicts : StartFinalize(r, p, v)
        BY <2>2 DEF Next, vars, SubmitStep, SubmitProof, EnqueueVerification, EnqueueFails,
           SubmitRollback, SubmitAbandoned, RunStep, ClaimProof, ResumeOrSkip, AutoVerify,
           WorkerApproves, WorkerRejects, StartAssignment, CreateVotes, RecordInconclusive,
           EscalateToManualReview, RunReturns, RunFails, QueueStep, TakeJob, RunStalls,
           RetryFailedJob, ReviewStep, StartReview, CommitReview, TaskStep, ExpireTask,
           UpdateTask
      <4>2. ASSUME NEW r \in Quorums, CommitFinalize(r) PROVE FALSE
        BY <1>3, <2>2, <4>2 DEF CommitFinalize, TypeOK
      <4>3. QED
        BY <4>1, <4>2
    <3>2. quorum'[q].proof = p /\ status[p] # "ABSENT"
      BY <2>2, <3>1 DEF StartFinalize, TypeOK, Undecided
    <3>3. QED
      BY <1>1, <3>2
  <2>3. QED
    BY <2>1, <2>2
<1>4. QED
  BY <1>2, <1>3 DEF CallsSubmitted

\* The fate of a proof is read off its row.
LEMMA FateStays == ASSUME UNCHANGED status PROVE FateNow' = FateNow
  BY DEF FateNow, Fate, Decided

LEMMA FateCloses ==
  ASSUME TypeOK, NEW p \in Proofs, NEW s \in FinalStatuses, RecordVerdict(p, s)
  PROVE  FateNow' = [FateNow EXCEPT ![p] = "closed"]
<1> SUFFICES ASSUME NEW r \in Proofs
             PROVE  Fate(r)' = IF r = p THEN "closed" ELSE Fate(r)
  BY DEF FateNow
<1>1. status'[r] = IF r = p THEN s ELSE status[r]
  BY DEF RecordVerdict, TypeOK
<1>2. QED
  BY <1>1 DEF Fate, Decided

\* The three ways in which one decider moves and the others stay.
LEMMA RunMoves ==
  ASSUME NEW w \in Workers, UNCHANGED <<review, quorum>>,
         \A u \in Workers \ {w} : worker'[u] = worker[u]
  PROVE  /\ <<"worker", w>> \in Deciders
         /\ DecisionOf(<<"worker", w>>) = RunProof(worker[w])
         /\ PendingNow' = [PendingNow EXCEPT ![<<"worker", w>>] = RunProof(worker'[w])]
<1>1. ASSUME NEW d \in Deciders
      PROVE  DecisionOf(d)' =
               IF d = <<"worker", w>> THEN RunProof(worker'[w]) ELSE DecisionOf(d)
  BY <1>1 DEF Deciders, DecisionOf, RunProof, CallProof
<1>2. QED
  BY <1>1 DEF PendingNow, Deciders, DecisionOf

LEMMA ReviewMoves ==
  ASSUME NEW a \in Admins, UNCHANGED <<worker, quorum>>,
         \A b \in Admins \ {a} : review'[b] = review[b]
  PROVE  /\ <<"review", a>> \in Deciders
         /\ DecisionOf(<<"review", a>>) = CallProof(review[a])
         /\ PendingNow' = [PendingNow EXCEPT ![<<"review", a>>] = CallProof(review'[a])]
<1>1. ASSUME NEW d \in Deciders
      PROVE  DecisionOf(d)' =
               IF d = <<"review", a>> THEN CallProof(review'[a]) ELSE DecisionOf(d)
  BY <1>1 DEF Deciders, DecisionOf, RunProof, CallProof
<1>2. QED
  BY <1>1 DEF PendingNow, Deciders, DecisionOf

LEMMA QuorumMoves ==
  ASSUME NEW q \in Quorums, UNCHANGED <<worker, review>>,
         \A r \in Quorums \ {q} : quorum'[r] = quorum[r]
  PROVE  /\ <<"quorum", q>> \in Deciders
         /\ DecisionOf(<<"quorum", q>>) = CallProof(quorum[q])
         /\ PendingNow' = [PendingNow EXCEPT ![<<"quorum", q>>] = CallProof(quorum'[q])]
<1>1. ASSUME NEW d \in Deciders
      PROVE  DecisionOf(d)' =
               IF d = <<"quorum", q>> THEN CallProof(quorum'[q]) ELSE DecisionOf(d)
  BY <1>1 DEF Deciders, DecisionOf, RunProof, CallProof
<1>2. QED
  BY <1>1 DEF PendingNow, Deciders, DecisionOf

LEMMA PendingStays == ASSUME UNCHANGED <<worker, review, quorum>> PROVE PendingNow' = PendingNow
  BY DEF PendingNow, DecisionOf, RunProof, CallProof

\* Without a verdict, a decider begins on an open proof, drops its decision, or goes on.
LEMMA QuietOnLedger ==
  ASSUME NEW d \in Deciders, NEW x, Unpaid, FateNow' = FateNow,
         PendingNow' = [PendingNow EXCEPT ![d] = x],
         DecisionOf(d) \in Proofs \cup {NoProof},
         \/ x \in {NoProof, DecisionOf(d)}
         \/ DecisionOf(d) = NoProof /\ x \in Proofs /\ Fate(x) = "open"
  PROVE  [Ledger!Next]_(Ledger!ledger)
<1>1. CASE x = DecisionOf(d)
  <2>1. PendingNow' = PendingNow
    BY <1>1 DEF PendingNow
  <2>2. QED
    BY <2>1 DEF Ledger!ledger, Unpaid, FateNow, PendingNow
<1>2. CASE x = NoProof /\ DecisionOf(d) \in Proofs
  <2>1. Ledger!Drop(d, DecisionOf(d))
    BY <1>2 DEF Ledger!Drop, Ledger!Conclude, Unpaid, FateNow, PendingNow
  <2>2. QED
    BY <1>2, <2>1 DEF Ledger!Next
<1>3. CASE DecisionOf(d) = NoProof /\ x \in Proofs /\ Fate(x) = "open"
  <2>1. Ledger!Begin(d, x)
    BY <1>3 DEF Ledger!Begin, Unpaid, FateNow, PendingNow
  <2>2. QED
    BY <1>3, <2>1 DEF Ledger!Next
<1>4. QED
  BY <1>1, <1>2, <1>3

\* A verdict is an award or a refusal ...
LEMMA VerdictOnLedger ==
  ASSUME TypeOK, NEW d \in Deciders, NEW p \in Proofs, NEW v \in Verdicts,
         DecisionOf(d) = p, PendingNow' = [PendingNow EXCEPT ![d] = NoProof],
         Exists(p), p \in payouts => FinalStatus(p, v) # "APPROVED",
         TakeSlot(p, v), RecordVerdict(p, FinalStatus(p, v)), UNCHANGED maxCompletions
  PROVE  Ledger!Next
<1>1. FateNow' = [FateNow EXCEPT ![p] = "closed"] /\ Fate(p) # "withdrawn"
  BY FateCloses, FinalStatusType DEF Fate, Exists
<1>2. Ledger!Conclude(d, p)
  BY DEF Ledger!Conclude, PendingNow
<1>3. CASE FinalStatus(p, v) = "APPROVED"
  <2>1. Ledger!GiveAway(TaskOf[p])
    BY <1>3 DEF TakeSlot, ClaimCompletionSlot, FinalStatus, SlotFree, Ledger!GiveAway
  <2>2. p \notin payouts /\ payouts' = payouts \cup {p}
    BY <1>3 DEF RecordVerdict
  <2>3. Ledger!Award(d, p)
    BY <1>1, <1>2, <2>1, <2>2 DEF Ledger!Award, FateNow
  <2>4. QED
    BY <2>3 DEF Ledger!Next
<1>4. CASE FinalStatus(p, v) # "APPROVED"
  <2>1. Ledger!Refuse(d, p)
    BY <1>1, <1>2, <1>4 DEF Ledger!Refuse, FateNow, TakeSlot, RecordVerdict
  <2>2. QED
    BY <2>1 DEF Ledger!Next
<1>5. QED
  BY <1>3, <1>4

\* ... and a decision that finds its proof closed drops it, or wastes a slot on it.
LEMMA DecideOnLedger ==
  ASSUME TypeOK, VerdictInv, NEW d \in Deciders, NEW p \in Proofs, NEW v \in Verdicts,
         DecisionOf(d) = p, PendingNow' = [PendingNow EXCEPT ![d] = NoProof],
         status[p] # "ABSENT", DecideIfUndecided(p, v), UNCHANGED maxCompletions
  PROVE  Ledger!Next
<1>1. CASE Undecided(p)
  <2>1. Exists(p) /\ p \notin payouts
    BY <1>1 DEF Exists, Undecided, VerdictInv, OpenProofsOweNothing, Decided, FinalStatuses
  <2>2. TakeSlot(p, v) /\ RecordVerdict(p, FinalStatus(p, v))
    BY <1>1 DEF DecideIfUndecided
  <2>3. QED
    BY <2>1, <2>2, VerdictOnLedger
<1>2. CASE ~Undecided(p)
  <2>1. TakeSlot(p, v) /\ UNCHANGED <<status, payouts>>
    BY <1>2 DEF DecideIfUndecided, ledgerVars
  <2>2. Fate(p) # "open"
    BY <1>2 DEF Fate, Decided, Undecided, TypeOK, ProofStatuses
  <2>3. FateNow' = FateNow
    BY <2>1, FateStays
  <2>4. Ledger!Conclude(d, p)
    BY DEF Ledger!Conclude, PendingNow
  <2>5. CASE FinalStatus(p, v) = "APPROVED"
    <3>1. Ledger!GiveAway(TaskOf[p])
      BY <2>1, <2>5 DEF TakeSlot, ClaimCompletionSlot, FinalStatus, SlotFree, Ledger!GiveAway
    <3>2. Ledger!Waste(d, p)
      BY <2>1, <2>2, <2>3, <2>4, <3>1 DEF Ledger!Waste, FateNow
    <3>3. QED
      BY <3>2 DEF Ledger!Next
  <2>6. CASE FinalStatus(p, v) # "APPROVED"
    <3>1. Ledger!Drop(d, p)
      BY <2>1, <2>3, <2>4, <2>6 DEF Ledger!Drop, FateNow, TakeSlot
    <3>2. QED
      BY <3>1 DEF Ledger!Next
  <2>7. QED
    BY <2>5, <2>6
<1>3. QED
  BY <1>1, <1>2

\* A submission stores an open proof or withdraws one.
LEMMA SubmitOnLedger ==
  ASSUME TypeOK, VerdictInv, NEW p \in Proofs, SubmitStep(p)
  PROVE  [Ledger!Next]_(Ledger!ledger)
<1> USE DEF taskVars, ledgerVars, evidence, queueVars
<1>1. Unpaid /\ PendingNow' = PendingNow
  BY PendingStays DEF SubmitStep, SubmitProof, EnqueueVerification, EnqueueFails,
     SubmitRollback, SubmitAbandoned, Unpaid
<1>2. CASE FateNow' = FateNow
  BY <1>1, <1>2 DEF Ledger!ledger, Unpaid, FateNow, PendingNow
<1>3. CASE FateNow' # FateNow
  <2>1. ~SubmitProof(p)
    <3>1. ASSUME SubmitProof(p) PROVE FateNow' = FateNow
      <4>1. status[p] = "ABSENT" /\ status' = [status EXCEPT ![p] = "PENDING"]
        BY <3>1 DEF SubmitProof, VerdictInv, UnsubmittedIsAbsent
      <4>2. QED
        BY <4>1 DEF FateNow, Fate, Decided, FinalStatuses, TypeOK
    <3>2. QED
      BY <1>3, <3>1
  <2>2. SubmitRollback(p)
    BY <1>3, <2>1, FateStays DEF SubmitStep, EnqueueVerification, EnqueueFails, SubmitAbandoned
  <2>3. ~Decided(p) /\ status' = [status EXCEPT ![p] = "DELETED"]
    BY <2>2 DEF SubmitRollback, Referenced, VerdictInv, DecidedIsReferenced
  <2>4. FateNow' = [FateNow EXCEPT ![p] = "withdrawn"]
    BY <2>3 DEF FateNow, Fate, Decided, FinalStatuses, TypeOK
  <2>5. Fate(p) = "open"
    BY <1>3, <2>3, <2>4 DEF FateNow, Fate
  <2>6. Ledger!Withdraw(p)
    BY <1>1, <2>4, <2>5 DEF Ledger!Withdraw, Unpaid, FateNow, PendingNow
  <2>7. QED
    BY <2>6 DEF Ledger!Next
<1>4. QED
  BY <1>2, <1>3

\* A run of the processor decides from its claim on, or leaves the ledger alone.
LEMMA RunOnLedger ==
  ASSUME TypeOK, NEW w \in Workers, RunStep(w)
  PROVE  [Ledger!Next]_(Ledger!ledger)
<1> USE DEF taskVars, ledgerVars, evidence, queueVars
<1>1. /\ Job(w) \in Proofs
      /\ worker[w] \in [pc : WorkerPcs, proof : Proofs \cup {NoProof}]
  BY BusyRunHasProof
  DEF RunStep, ClaimProof, ResumeOrSkip, AutoVerify, WorkerApproves, WorkerRejects,
      StartAssignment, CreateVotes, RecordInconclusive, EscalateToManualReview, RunReturns,
      RunFails, At
<1>2. UNCHANGED <<review, quorum>> /\ \A u \in Workers \ {w} : worker'[u] = worker[u]
  BY DEF TypeOK, RunStep, ClaimProof, ResumeOrSkip, AutoVerify, WorkerApproves,
     WorkerRejects, StartAssignment, CreateVotes, RecordInconclusive,
     EscalateToManualReview, RunReturns, RunFails, Goto, Leave
<1> DEFINE d == <<"worker", w>>
<1>3. /\ d \in Deciders
      /\ DecisionOf(d) = RunProof(worker[w])
      /\ PendingNow' = [PendingNow EXCEPT ![d] = RunProof(worker'[w])]
  BY <1>2, RunMoves
<1>4. DecisionOf(d) \in Proofs \cup {NoProof}
  BY <1>1, <1>3 DEF RunProof
<1> HIDE DEF d
<1>5. \A pc : Goto(w, pc) => worker'[w].pc = pc /\ worker'[w].proof = Job(w)
  BY <1>1 DEF Goto, Job, TypeOK
<1>6. \A o : Leave(w, o) => RunProof(worker'[w]) = NoProof
  BY DEF Leave, RunProof, IdleRun, TypeOK
<1>7. CASE ClaimProof(w)
  <2>1. Unpaid /\ At(w, "claim") /\ DecisionOf(d) = NoProof
    BY <1>3, <1>7 DEF ClaimProof, Unpaid, RunProof, At
  <2>2. CASE status[Job(w)] = "PENDING"
    <3>1. status' = [status EXCEPT ![Job(w)] = "VERIFYING"] /\ RunProof(worker'[w]) = Job(w)
      BY <1>5, <1>7, <2>2 DEF ClaimProof, RunProof
    <3>2. FateNow' = FateNow
      BY <1>1, <2>2, <3>1 DEF FateNow, Fate, Decided, FinalStatuses, TypeOK
    <3>3. Fate(Job(w)) = "open"
      BY <2>2 DEF Fate, Decided, FinalStatuses
    <3>4. QED
      BY <1>1, <1>3, <1>4, <2>1, <3>1, <3>2, <3>3, QuietOnLedger
  <2>3. CASE status[Job(w)] # "PENDING"
    <3>1. FateNow' = FateNow /\ RunProof(worker'[w]) = NoProof
      BY <1>5, <1>7, <2>3, FateStays DEF ClaimProof, RunProof
    <3>2. QED
      BY <1>3, <1>4, <2>1, <3>1, QuietOnLedger
  <2>4. QED
    BY <2>2, <2>3
<1>8. CASE ResumeOrSkip(w)
  <2>1. /\ Unpaid /\ FateNow' = FateNow /\ DecisionOf(d) = NoProof
        /\ RunProof(worker'[w]) = IF CanResume(Job(w)) THEN Job(w) ELSE NoProof
    BY <1>3, <1>5, <1>8, FateStays DEF ResumeOrSkip, Unpaid, RunProof, At
  <2>2. CanResume(Job(w)) => Fate(Job(w)) = "open"
    BY DEF CanResume, Fate, Decided, FinalStatuses
  <2>3. QED
    BY <1>1, <1>3, <1>4, <2>1, <2>2, QuietOnLedger
<1>9. CASE AutoVerify(w)
  <2>1. Unpaid /\ FateNow' = FateNow /\ DecisionOf(d) = Job(w)
    BY <1>3, <1>9, FateStays DEF AutoVerify, Unpaid, RunProof, At, Job
  <2>2. RunProof(worker'[w]) \in {NoProof, Job(w)}
    BY <1>5, <1>9 DEF AutoVerify, RunProof
  <2>3. QED
    BY <1>3, <1>4, <2>1, <2>2, QuietOnLedger
<1>10. CASE WorkerApproves(w)
  <2>1. DecisionOf(d) = Job(w) /\ RunProof(worker'[w]) = NoProof
    BY <1>3, <1>5, <1>10 DEF WorkerApproves, RunProof, At, Job
  <2>2. QED
    BY <1>1, <1>3, <1>10, <2>1, VerdictOnLedger DEF WorkerApproves, Verdicts
<1>11. CASE WorkerRejects(w)
  <2>1. DecisionOf(d) = Job(w) /\ RunProof(worker'[w]) = NoProof
    BY <1>3, <1>5, <1>11 DEF WorkerRejects, RunProof, At, Job
  <2>2. FinalStatus(Job(w), "rejected") = "REJECTED"
    BY DEF FinalStatus
  <2>3. TakeSlot(Job(w), "rejected")
    BY <1>11, <2>2 DEF WorkerRejects, TakeSlot
  <2>4. QED
    BY <1>1, <1>3, <1>11, <2>1, <2>2, <2>3, VerdictOnLedger DEF WorkerRejects, Verdicts
<1>12. CASE EscalateToManualReview(w)
  <2>1. Unpaid /\ DecisionOf(d) = NoProof /\ RunProof(worker'[w]) = NoProof
    BY <1>3, <1>5, <1>12 DEF EscalateToManualReview, Unpaid, RunProof, At
  <2>2. FateNow' = FateNow
    BY <1>1, <1>12 DEF EscalateToManualReview, FateNow, Fate, Decided, FinalStatuses, TypeOK
  <2>3. QED
    BY <1>3, <1>4, <2>1, <2>2, QuietOnLedger
<1>13. CASE StartAssignment(w) \/ CreateVotes(w) \/ RecordInconclusive(w)
  <2>1. Unpaid /\ FateNow' = FateNow /\ DecisionOf(d) = NoProof
    BY <1>3, <1>13, FateStays
    DEF StartAssignment, CreateVotes, RecordInconclusive, Unpaid, RunProof, At
  <2>2. RunProof(worker'[w]) = NoProof
    BY <1>5, <1>13 DEF StartAssignment, CreateVotes, RecordInconclusive, RunProof
  <2>3. QED
    BY <1>3, <1>4, <2>1, <2>2, QuietOnLedger
<1>14. CASE RunReturns(w) \/ RunFails(w)
  <2>1. Unpaid /\ FateNow' = FateNow
    BY <1>14, FateStays DEF RunReturns, RunFails, Unpaid
  <2>2. RunProof(worker'[w]) = NoProof
    BY <1>6, <1>14 DEF RunReturns, RunFails
  <2>3. QED
    BY <1>3, <1>4, <2>1, <2>2, QuietOnLedger
<1>15. QED
  BY <1>7, <1>8, <1>9, <1>10, <1>11, <1>12, <1>13, <1>14 DEF RunStep

\* The queue may take a run's decision away, and gives it none.
LEMMA QueueOnLedger ==
  ASSUME TypeOK, QueueStep
  PROVE  [Ledger!Next]_(Ledger!ledger)
<1> USE DEF taskVars, ledgerVars, evidence, queueVars
<1>1. Unpaid /\ FateNow' = FateNow /\ UNCHANGED <<review, quorum>>
  BY FateStays DEF QueueStep, TakeJob, RunStalls, RetryFailedJob, Unpaid
<1>2. CASE UNCHANGED worker
  BY <1>1, <1>2, PendingStays DEF Ledger!ledger, Unpaid, FateNow, PendingNow
<1>3. CASE worker' # worker
  <2>1. PICK w \in Workers :
          /\ \A u \in Workers \ {w} : worker'[u] = worker[u]
          /\ RunProof(worker'[w]) = NoProof
    <3>1. ASSUME NEW w \in Workers, NEW p \in Proofs, TakeJob(w, p)
          PROVE  /\ \A u \in Workers \ {w} : worker'[u] = worker[u]
                 /\ RunProof(worker'[w]) = NoProof
      BY <3>1 DEF TakeJob, RunProof, TypeOK
    <3>2. ASSUME NEW w \in Workers, RunStalls(w)
          PROVE  /\ \A u \in Workers \ {w} : worker'[u] = worker[u]
                 /\ RunProof(worker'[w]) = NoProof
      BY <1>3, <3>2 DEF RunStalls, RunProof, IdleRun, TypeOK
    <3>3. QED
      BY <1>3, <3>1, <3>2 DEF QueueStep, RetryFailedJob
  <2> DEFINE d == <<"worker", w>>
  <2>2. /\ d \in Deciders
        /\ DecisionOf(d) = RunProof(worker[w])
        /\ PendingNow' = [PendingNow EXCEPT ![d] = NoProof]
    BY <1>1, <2>1, RunMoves
  <2>3. DecisionOf(d) \in Proofs \cup {NoProof}
    BY <2>2 DEF RunProof, TypeOK
  <2> HIDE DEF d
  <2>4. QED
    BY <1>1, <2>2, <2>3, QuietOnLedger
<1>4. QED
  BY <1>2, <1>3

\* A review or a finalization begins on an open proof and ends with its transaction.
LEMMA ReviewOnLedger ==
  ASSUME TypeOK, VerdictInv, CallsSubmitted, ReviewStep
  PROVE  [Ledger!Next]_(Ledger!ledger)
<1> USE DEF taskVars, ledgerVars, evidence, queueVars
<1>1. ASSUME NEW x \in Decisions
      PROVE  CallProof(x) = x.proof /\ x.proof \in Proofs /\ x.verdict \in Verdicts
  BY IdleAssumption DEF CallProof, Decisions
<1>2. CallProof(Idle) = NoProof
  BY DEF CallProof
<1>3. \A p \in Proofs : Undecided(p) => Fate(p) = "open"
  BY DEF Undecided, Fate, Decided, FinalStatuses
<1>4. ASSUME NEW a \in Admins, NEW p \in Proofs, NEW v \in Verdicts, StartReview(a, p, v)
      PROVE  [Ledger!Next]_(Ledger!ledger)
  <2>1. /\ Unpaid /\ FateNow' = FateNow /\ Undecided(p) /\ UNCHANGED <<worker, quorum>>
        /\ \A b \in Admins \ {a} : review'[b] = review[b]
    BY <1>4, FateStays DEF StartReview, Unpaid, TypeOK
  <2>2. review[a] = Idle /\ review'[a] = [proof |-> p, verdict |-> v]
    BY <1>4 DEF StartReview, TypeOK
  <2>3. CallProof(review'[a]) = p
    BY <1>1, <2>2 DEF Decisions
  <2>4. QED
    BY <1>2, <1>3, <2>1, <2>2, <2>3, ReviewMoves, QuietOnLedger
<1>5. ASSUME NEW a \in Admins, CommitReview(a) PROVE [Ledger!Next]_(Ledger!ledger)
  <2>1. /\ UNCHANGED <<worker, quorum, maxCompletions>>
        /\ \A b \in Admins \ {a} : review'[b] = review[b]
        /\ review[a] \in Decisions /\ review'[a] = Idle
        /\ DecideIfUndecided(review[a].proof, review[a].verdict)
    BY <1>5 DEF CommitReview, TypeOK
  <2>2. status[review[a].proof] # "ABSENT"
    BY <1>5 DEF CommitReview, CallsSubmitted
  <2>3. review[a].proof \in Proofs /\ review[a].verdict \in Verdicts
    BY <1>1, <2>1
  <2>4. /\ <<"review", a>> \in Deciders
        /\ DecisionOf(<<"review", a>>) = review[a].proof
        /\ PendingNow' = [PendingNow EXCEPT ![<<"review", a>>] = NoProof]
    BY <1>1, <1>2, <2>1, ReviewMoves
  <2>5. QED
    BY <2>1, <2>2, <2>3, <2>4, DecideOnLedger
<1>6. ASSUME NEW q \in Quorums, NEW p \in Proofs, NEW v \in Verdicts, StartFinalize(q, p, v)
      PROVE  [Ledger!Next]_(Ledger!ledger)
  <2>1. /\ Unpaid /\ FateNow' = FateNow /\ Undecided(p) /\ UNCHANGED <<worker, review>>
        /\ \A r \in Quorums \ {q} : quorum'[r] = quorum[r]
    BY <1>6, FateStays DEF StartFinalize, Unpaid, TypeOK
  <2>2. quorum[q] = Idle /\ quorum'[q] = [proof |-> p, verdict |-> v]
    BY <1>6 DEF StartFinalize, TypeOK
  <2>3. CallProof(quorum'[q]) = p
    BY <1>1, <2>2 DEF Decisions
  <2>4. QED
    BY <1>2, <1>3, <2>1, <2>2, <2>3, QuorumMoves, QuietOnLedger
<1>7. ASSUME NEW q \in Quorums, CommitFinalize(q) PROVE [Ledger!Next]_(Ledger!ledger)
  <2>1. /\ UNCHANGED <<worker, review, maxCompletions>>
        /\ \A r \in Quorums \ {q} : quorum'[r] = quorum[r]
        /\ quorum[q] \in Decisions /\ quorum'[q] = Idle
        /\ DecideIfUndecided(quorum[q].proof, quorum[q].verdict)
    BY <1>7 DEF CommitFinalize, TypeOK
  <2>2. status[quorum[q].proof] # "ABSENT"
    BY <1>7 DEF CommitFinalize, CallsSubmitted
  <2>3. quorum[q].proof \in Proofs /\ quorum[q].verdict \in Verdicts
    BY <1>1, <2>1
  <2>4. /\ <<"quorum", q>> \in Deciders
        /\ DecisionOf(<<"quorum", q>>) = quorum[q].proof
        /\ PendingNow' = [PendingNow EXCEPT ![<<"quorum", q>>] = NoProof]
    BY <1>1, <1>2, <2>1, QuorumMoves
  <2>5. QED
    BY <2>1, <2>2, <2>3, <2>4, DecideOnLedger
<1>8. QED
  BY <1>4, <1>5, <1>6, <1>7 DEF ReviewStep

\* The sweep and the task editor change no proof and no decision.
LEMMA TaskOnLedger ==
  ASSUME TypeOK, TaskStep
  PROVE  [Ledger!Next]_(Ledger!ledger)
<1> USE DEF taskVars, ledgerVars, evidence, queueVars
<1>1. UNCHANGED <<completedCount, payouts>> /\ FateNow' = FateNow /\ PendingNow' = PendingNow
  BY FateStays, PendingStays DEF TaskStep, ExpireTask, UpdateTask
<1>2. CASE maxCompletions' = maxCompletions
  BY <1>1, <1>2 DEF Ledger!ledger, FateNow, PendingNow
<1>3. CASE maxCompletions' # maxCompletions
  <2>1. PICK t \in Tasks : UpdateTask(t)
    BY <1>3 DEF TaskStep, ExpireTask
  <2>2. PICK m \in (Capacities \ {Unlimited}) \cup {maxCompletions[t]} :
          maxCompletions' = [maxCompletions EXCEPT ![t] = m]
    BY <2>1 DEF UpdateTask
  <2>3. m \in Capacities \ {Unlimited}
    BY <1>3, <2>2 DEF TypeOK
  <2>4. Ledger!SetCapacity(t)
    BY <1>1, <2>2, <2>3 DEF Ledger!SetCapacity, FateNow, PendingNow
  <2>5. QED
    BY <2>4 DEF Ledger!Next
<1>4. QED
  BY <1>2, <1>3

LEMMA StepOnLedger ==
  ASSUME TypeOK, VerdictInv, CallsSubmitted, [Next]_vars
  PROVE  [Ledger!Next]_(Ledger!ledger)
<1>1. CASE UNCHANGED vars
  <2>1. Unpaid /\ FateNow' = FateNow /\ PendingNow' = PendingNow
    BY <1>1, FateStays, PendingStays DEF vars, taskVars, ledgerVars, Unpaid
  <2>2. QED
    BY <2>1 DEF Ledger!ledger, Unpaid, FateNow, PendingNow
<1>2. QED
  BY <1>1, SubmitOnLedger, RunOnLedger, QueueOnLedger, ReviewOnLedger, TaskOnLedger DEF Next

\* However worker, admins, quorums, expiry and task editor interleave, slots and
\* payout rows behave as the ledger of completions (ImplementsLedger): a slot without a
\* payout is one that a decision begun in time and overtaken has wasted.
THEOREM DecidersKeepTheLedger == Spec => ImplementsLedger
<1>1. Init => Ledger!Init
  BY IdleAssumption DEF Init, Ledger!Init, Fate, Decided, FinalStatuses, Deciders,
     DecisionOf, RunProof, CallProof, IdleRun
<1>2. Init => CallsSubmitted
  BY DEF Init, CallsSubmitted
<1>3. TypeOK /\ VerdictInv /\ CallsSubmitted /\ [Next]_vars => CallsSubmitted'
  BY StepCallsSubmitted
<1>4. TypeOK /\ VerdictInv /\ CallsSubmitted /\ [Next]_vars => [Ledger!Next]_(Ledger!ledger)
  BY StepOnLedger
<1>5. Spec => []CallsSubmitted
  BY <1>2, <1>3, TypeCorrect, VerdictInvariant, PTL DEF Spec
<1>6. QED
  BY <1>1, <1>4, <1>5, TypeCorrect, VerdictInvariant, PTL DEF Spec, ImplementsLedger, Ledger!Spec

-----------------------------------------------------------------------------
(***************************************************************************)
(* Attendance.  A verification job that completed without losing its lock  *)
(* has left its proof attended (CompletedJobAttended of ProofVerdict): the *)
(* inductive invariant, and its proof.                                     *)
(***************************************************************************)

Attended(p) ==
  \/ Decided(p)
  \/ p \in assigned \cup marked
  \/ status[p] = "DELETED"

\* The points of the processor after its claim.
Verifying == {"verify", "approve", "reject", "assign", "create", "record", "escalate"}

\* The job of a proof and the runs that hold it.  While no lock was lost there
\* is one run for an active job and none for any other.
JobInv(p) ==
  /\ \A w \in Workers : Job(w) = p <=> lock[p] = w
  /\ jobState[p] = "active" <=> lock[p] # NoWorker
  /\ submitPc[p] \in {"start", "enqueue"} => jobState[p] = "none"
  /\ submitPc[p] = "enqueue" => status[p] # "ABSENT"
  /\ jobState[p] # "none" => status[p] # "ABSENT"
  /\ jobState[p] = "none" => attemptsMade[p] = 0
  /\ jobState[p] = "failed" => attemptsMade[p] > 0

\* VERIFYING before the first claim would be skipped: it needs a spent attempt.
ClaimInv(p) ==
  /\ jobState[p] \in {"none", "waiting"} /\ attemptsMade[p] = 0 => status[p] # "VERIFYING"
  /\ jobState[p] = "completed" => Attended(p)

\* What a run on p knows at each point of the processor.
RunInv(p) ==
  \A w \in Workers : Job(w) = p =>
    /\ worker[w].pc = "claim" /\ attemptsMade[p] = 0 => status[p] # "VERIFYING"
    /\ worker[w].pc = "resume" => /\ status[p] # "PENDING"
                                  /\ status[p] = "VERIFYING" => attemptsMade[p] > 0
    /\ worker[w].pc \in Verifying => status[p] # "PENDING"
    /\ worker[w].pc = "record" => p \in assigned \/ status[p] = "DELETED"
    /\ worker[w].pc = "return" => Attended(p)

AttendanceInv ==
  \A p \in Proofs : stalls[p] = 0 => JobInv(p) /\ ClaimInv(p) /\ RunInv(p)

-----------------------------------------------------------------------------
\* A proof whose job never stalled satisfies the three parts.
LEMMA Unstalled ==
  ASSUME AttendanceInv, NEW p \in Proofs, stalls[p] = 0
  PROVE  JobInv(p) /\ ClaimInv(p) /\ RunInv(p)
  BY DEF AttendanceInv

\* A decision leaves every other proof alone, and keeps this one off the
\* statuses the worker waits for.
LEMMA DecideStatus ==
  ASSUME TypeOK, NEW r \in Proofs, NEW v \in Verdicts, DecideIfUndecided(r, v),
         NEW p \in Proofs
  PROVE  \/ status'[p] = status[p]
         \/ Undecided(p) /\ Decided(p)'
<1>1. CASE Undecided(r)
  BY <1>1, FinalStatusType DEF DecideIfUndecided, RecordVerdict, Decided, TypeOK
<1>2. CASE ~Undecided(r)
  BY <1>2 DEF DecideIfUndecided
<1>3. QED
  BY <1>1, <1>2

\* What a step may do to a proof without touching its job or the runs on it:
\* decide it, delete it, or add votes and markers.
LEMMA Frame ==
  ASSUME TypeOK, NEW p \in Proofs, JobInv(p), ClaimInv(p), RunInv(p),
         \A w \in Workers : Job(w) = p <=> Job(w)' = p,
         \A w \in Workers : Job(w) = p => worker'[w] = worker[w],
         lock'[p] = lock[p], jobState'[p] = jobState[p], attemptsMade'[p] = attemptsMade[p],
         submitPc'[p] = submitPc[p] \/ submitPc'[p] \in {"rollback", "done"},
         status'[p] = status[p] \/ status'[p] \in FinalStatuses \cup {"DELETED"},
         Decided(p) => Decided(p)',
         p \in assigned => p \in assigned' \/ status'[p] = "DELETED",
         p \in marked => p \in marked',
         status[p] = "DELETED" => status'[p] = "DELETED"
  PROVE  (JobInv(p) /\ ClaimInv(p) /\ RunInv(p))'
<1>1. Attended(p) => Attended(p)'
  BY DEF Attended
<1>2. JobInv(p)'
  BY DEF JobInv, FinalStatuses
<1>3. ClaimInv(p)'
  BY <1>1 DEF ClaimInv, FinalStatuses
<1>4. RunInv(p)'
  <2> SUFFICES ASSUME NEW w \in Workers, Job(w) = p, worker'[w] = worker[w]
               PROVE  /\ (worker[w].pc = "claim" /\ attemptsMade[p] = 0 => status[p] # "VERIFYING")'
                      /\ (worker[w].pc = "resume" => /\ status[p] # "PENDING"
                                                     /\ status[p] = "VERIFYING" => attemptsMade[p] > 0)'
                      /\ (worker[w].pc \in Verifying => status[p] # "PENDING")'
                      /\ (worker[w].pc = "record" => p \in assigned \/ status[p] = "DELETED")'
                      /\ (worker[w].pc = "return" => Attended(p))'
    BY DEF RunInv
  <2>1. /\ worker[w].pc = "claim" /\ attemptsMade[p] = 0 => status[p] # "VERIFYING"
        /\ worker[w].pc = "resume" => /\ status[p] # "PENDING"
                                      /\ status[p] = "VERIFYING" => attemptsMade[p] > 0
        /\ worker[w].pc \in Verifying => status[p] # "PENDING"
        /\ worker[w].pc = "record" => p \in assigned \/ status[p] = "DELETED"
        /\ worker[w].pc = "return" => Attended(p)
    BY DEF RunInv
  <2>2. QED
    BY <1>1, <2>1 DEF FinalStatuses, Verifying
<1>5. QED
  BY <1>2, <1>3, <1>4

\* A step of the one run that holds p's job, to point pc.
LEMMA OwnRun ==
  ASSUME TypeOK, NEW w \in Workers, NEW p \in Proofs, Job(w) = p, JobInv(p),
         NEW pc \in WorkerPcs \ {"idle", "claim"}, Goto(w, pc),
         UNCHANGED <<jobState, attemptsMade, lock, submitPc>>,
         status'[p] # "ABSENT",
         pc = "resume" => status'[p] # "PENDING" /\ (status'[p] = "VERIFYING" => attemptsMade[p] > 0),
         pc \in Verifying => status'[p] # "PENDING",
         pc = "record" => p \in assigned' \/ status'[p] = "DELETED",
         pc = "return" => Attended(p)'
  PROVE  (JobInv(p) /\ ClaimInv(p) /\ RunInv(p))'
<1>1. /\ \A x \in Workers : Job(x)' = Job(x)
      /\ worker'[w].pc = pc
  BY DEF Goto, Job, TypeOK
<1>2. lock[p] = w /\ jobState[p] = "active"
  BY QueueAssumption DEF JobInv
<1>3. \A x \in Workers : Job(x) = p => x = w
  BY <1>2 DEF JobInv
<1>4. JobInv(p)'
  BY <1>1 DEF JobInv
<1>5. ClaimInv(p)'
  BY <1>2 DEF ClaimInv
<1>6. RunInv(p)'
  BY <1>1, <1>3 DEF RunInv
<1>7. QED
  BY <1>4, <1>5, <1>6

\* A step of a run on another proof.
LEMMA OtherRun ==
  ASSUME TypeOK, NEW w \in Workers, RunStep(w), NEW p \in Proofs, Job(w) # p,
         JobInv(p), ClaimInv(p), RunInv(p)
  PROVE  (JobInv(p) /\ ClaimInv(p) /\ RunInv(p))'
<1> USE DEF ledgerVars, evidence, queueVars
<1>1. worker[w].pc # "idle" /\ Job(w) \in Proofs
  BY BusyRunHasProof
  DEF RunStep, ClaimProof, ResumeOrSkip, AutoVerify, WorkerApproves,
      WorkerRejects, StartAssignment, CreateVotes, RecordInconclusive,
      EscalateToManualReview, RunReturns, RunFails, At
<1>2. \/ \E pc \in WorkerPcs : Goto(w, pc) /\ UNCHANGED <<jobState, attemptsMade, lock>>
      \/ \E o \in {"waiting", "completed", "failed"} : Leave(w, o)
  BY DEF RunStep, ClaimProof, ResumeOrSkip, AutoVerify, WorkerApproves,
         WorkerRejects, StartAssignment, CreateVotes, RecordInconclusive,
         EscalateToManualReview, RunReturns, RunFails, WorkerPcs
<1>3. /\ \A x \in Workers : Job(x) = p <=> Job(x)' = p
      /\ \A x \in Workers : Job(x) = p => worker'[x] = worker[x]
  <2>1. \A x \in Workers : x # w => worker'[x] = worker[x]
    BY <1>2 DEF Goto, Leave, TypeOK
  <2>2. Job(w)' \in {Job(w), NoProof}
    <3>1. CASE \E pc \in WorkerPcs : Goto(w, pc)
      BY <3>1 DEF Goto, Job, TypeOK
    <3>2. CASE \E o \in {"waiting", "completed", "failed"} : Leave(w, o)
      BY <3>2 DEF Leave, Job, IdleRun, TypeOK
    <3>3. QED
      BY <1>2, <3>1, <3>2
  <2>3. QED
    BY <2>1, <2>2, ProofsAssumption DEF Job
<1>4. lock'[p] = lock[p] /\ jobState'[p] = jobState[p]
  BY <1>1, <1>2 DEF Leave, TypeOK
<1>5. attemptsMade'[p] = attemptsMade[p] /\ submitPc' = submitPc
  BY <1>1 DEF RunStep, ClaimProof, ResumeOrSkip, AutoVerify, WorkerApproves,
         WorkerRejects, StartAssignment, CreateVotes, RecordInconclusive,
         EscalateToManualReview, RunReturns, RunFails, TypeOK
<1>6. status'[p] = status[p]
  BY <1>1 DEF RunStep, ClaimProof, ResumeOrSkip, AutoVerify, WorkerApproves,
         WorkerRejects, StartAssignment, CreateVotes, RecordInconclusive,
         EscalateToManualReview, RunReturns, RunFails, RecordVerdict, TypeOK
<1>7. (p \in assigned => p \in assigned') /\ (p \in marked => p \in marked')
  BY DEF RunStep, ClaimProof, ResumeOrSkip, AutoVerify, WorkerApproves,
         WorkerRejects, StartAssignment, CreateVotes, RecordInconclusive,
         EscalateToManualReview, RunReturns, RunFails
<1>8. QED
  BY <1>3, <1>4, <1>5, <1>6, <1>7, Frame DEF Decided

\* The steps of the run that holds p's job, one per point of the processor.
LEMMA RunAttendance ==
  ASSUME TypeOK, NEW w \in Workers, RunStep(w), NEW p \in Proofs, Job(w) = p,
         JobInv(p), ClaimInv(p), RunInv(p)
  PROVE  (JobInv(p) /\ ClaimInv(p) /\ RunInv(p))'
<1> USE DEF ledgerVars, evidence, queueVars, At
<1>1. /\ lock[p] = w /\ jobState[p] = "active" /\ status[p] # "ABSENT"
      /\ \A x \in Workers : Job(x) = p => x = w
  BY QueueAssumption DEF JobInv
<1>2. /\ worker[w].pc = "claim" /\ attemptsMade[p] = 0 => status[p] # "VERIFYING"
      /\ worker[w].pc = "resume" => /\ status[p] # "PENDING"
                                    /\ status[p] = "VERIFYING" => attemptsMade[p] > 0
      /\ worker[w].pc \in Verifying => status[p] # "PENDING"
      /\ worker[w].pc = "record" => p \in assigned \/ status[p] = "DELETED"
      /\ worker[w].pc = "return" => Attended(p)
  BY DEF RunInv
<1>3. attemptsMade[p] \in Nat /\ status[p] \in ProofStatuses
  BY DEF TypeOK
<1>4. CASE ClaimProof(w)
  <2>1. CASE status[p] = "PENDING"
    <3>1. Goto(w, "verify") /\ status'[p] = "VERIFYING"
      BY <1>4, <2>1 DEF ClaimProof, TypeOK
    <3>2. QED
      BY <1>4, <3>1, OwnRun DEF ClaimProof, WorkerPcs, Verifying
  <2>2. CASE status[p] # "PENDING"
    <3>1. Goto(w, "resume") /\ status' = status
      BY <1>4, <2>2 DEF ClaimProof
    <3>2. QED
      BY <1>1, <1>2, <1>3, <1>4, <2>2, <3>1, OwnRun DEF ClaimProof, WorkerPcs, Verifying
  <2>3. QED
    BY <2>1, <2>2
<1>5. CASE ResumeOrSkip(w)
  <2>1. status' = status /\ worker[w].pc = "resume"
    BY <1>5 DEF ResumeOrSkip
  <2>2. CASE CanResume(p)
    <3>1. Goto(w, "verify")
      BY <1>5, <2>2 DEF ResumeOrSkip
    <3>2. QED
      BY <1>1, <1>2, <1>5, <2>1, <3>1, OwnRun DEF ResumeOrSkip, WorkerPcs, Verifying
  <2>3. CASE ~CanResume(p)
    <3>1. Goto(w, "return")
      BY <1>5, <2>3 DEF ResumeOrSkip
    <3>2. status[p] \in FinalStatuses \cup {"DELETED"}
      BY <1>1, <1>2, <1>3, <2>1, <2>3 DEF CanResume, ProofStatuses
    <3>3. Attended(p)'
      BY <2>1, <3>2 DEF Attended, Decided
    <3>4. QED
      BY <1>1, <1>5, <2>1, <3>1, <3>3, OwnRun DEF ResumeOrSkip, WorkerPcs, Verifying
  <2>4. QED
    BY <2>2, <2>3
<1>6. CASE AutoVerify(w)
  <2>1. PICK pc \in {"approve", "reject", "assign"} : Goto(w, pc)
    BY <1>6 DEF AutoVerify
  <2>2. status' = status /\ status[p] # "PENDING"
    BY <1>2, <1>6 DEF AutoVerify, Verifying
  <2>3. QED
    BY <1>1, <1>6, <2>1, <2>2, OwnRun DEF AutoVerify, WorkerPcs, Verifying
<1>7. CASE WorkerApproves(w) \/ WorkerRejects(w)
  <2>1. PICK s \in FinalStatuses : RecordVerdict(p, s)
    BY <1>7, FinalStatusType DEF WorkerApproves, WorkerRejects, FinalStatuses
  <2>2. status'[p] \in FinalStatuses
    BY <2>1 DEF RecordVerdict, TypeOK
  <2>3. Goto(w, "return") /\ UNCHANGED <<jobState, attemptsMade, lock, submitPc>>
    BY <1>7 DEF WorkerApproves, WorkerRejects
  <2>4. QED
    BY <2>2, <2>3, OwnRun DEF WorkerPcs, Verifying, FinalStatuses, Attended, Decided
<1>8. CASE StartAssignment(w)
  <2>1. status' = status /\ assigned' = assigned /\ status[p] # "PENDING"
    BY <1>2, <1>8 DEF StartAssignment, Verifying
  <2>2. PICK pc \in {"escalate", "record", "create"} :
          Goto(w, pc) /\ (pc = "record" => p \in assigned)
    BY <1>8 DEF StartAssignment
  <2>3. QED
    BY <1>1, <1>8, <2>1, <2>2, OwnRun DEF StartAssignment, WorkerPcs, Verifying
<1>9. CASE CreateVotes(w)
  <2>1. status' = status /\ status[p] # "PENDING"
    BY <1>2, <1>9 DEF CreateVotes, Verifying
  <2>2. PICK pc \in {"escalate", "record"} :
          Goto(w, pc) /\ (pc = "record" => p \in assigned')
    BY <1>9 DEF CreateVotes
  <2>3. QED
    BY <1>1, <1>9, <2>1, <2>2, OwnRun DEF CreateVotes, WorkerPcs, Verifying
<1>10. CASE RecordInconclusive(w)
  <2>1. p \in assigned /\ Goto(w, "return") /\ status' = status /\ assigned' = assigned
    BY <1>2, <1>10 DEF RecordInconclusive, Exists
  <2>2. Attended(p)'
    BY <2>1 DEF Attended
  <2>3. QED
    BY <1>1, <1>10, <2>1, <2>2, OwnRun DEF RecordInconclusive, WorkerPcs, Verifying
<1>11. CASE EscalateToManualReview(w)
  <2>1. Goto(w, "return") /\ status[p] # "PENDING"
    BY <1>2, <1>11 DEF EscalateToManualReview, Verifying
  <2>2. CASE status[p] = "VERIFYING"
    <3>1. p \in marked' /\ status'[p] = "PENDING"
      BY <1>11, <2>2 DEF EscalateToManualReview, TypeOK
    <3>2. QED
      BY <1>11, <2>1, <3>1, OwnRun DEF EscalateToManualReview, WorkerPcs, Verifying, Attended
  <2>3. CASE status[p] # "VERIFYING"
    <3>1. status' = status /\ status[p] \in FinalStatuses \cup {"DELETED"}
      BY <1>1, <1>3, <1>11, <2>1, <2>3 DEF EscalateToManualReview, ProofStatuses
    <3>2. Attended(p)'
      BY <3>1 DEF Attended, Decided
    <3>3. QED
      BY <1>1, <1>11, <2>1, <3>1, <3>2, OwnRun
      DEF EscalateToManualReview, WorkerPcs, Verifying
  <2>4. QED
    BY <2>2, <2>3
<1>12. ASSUME NEW o \in {"waiting", "completed", "failed"}, Leave(w, o),
              UNCHANGED <<status, assigned, marked, submitPc>>,
              attemptsMade'[p] \in Nat,
              o = "completed" => Attended(p),
              o # "completed" => attemptsMade'[p] > 0
       PROVE  (JobInv(p) /\ ClaimInv(p) /\ RunInv(p))'
  <2>1. /\ jobState'[p] = o /\ lock'[p] = NoWorker
        /\ worker' = [worker EXCEPT ![w] = IdleRun]
    BY <1>1, <1>12 DEF Leave, TypeOK
  <2>2. \A x \in Workers : Job(x)' # p
    BY <1>1, <2>1, ProofsAssumption DEF Job, IdleRun, TypeOK
  <2>3. Attended(p)' <=> Attended(p)
    BY <1>12 DEF Attended, Decided
  <2>4. submitPc[p] \notin {"start", "enqueue"}
    BY <1>1 DEF JobInv
  <2>5. QED
    BY <1>1, <1>12, <2>1, <2>2, <2>3, <2>4, QueueAssumption DEF JobInv, ClaimInv, RunInv
<1>13. CASE RunReturns(w)
  BY <1>2, <1>3, <1>12, <1>13 DEF RunReturns
<1>14. CASE RunFails(w)
  <2>1. PICK o \in {"waiting", "failed"} : Leave(w, o)
    BY <1>14 DEF RunFails
  <2>2. attemptsMade'[p] = attemptsMade[p] + 1
    BY <1>1, <1>14 DEF RunFails, TypeOK
  <2>3. QED
    BY <1>3, <1>12, <1>14, <2>1, <2>2 DEF RunFails
<1>15. QED
  BY <1>4, <1>5, <1>6, <1>7, <1>8, <1>9, <1>10, <1>11, <1>13, <1>14 DEF RunStep

LEMMA QueueAttendance ==
  ASSUME TypeOK, AttendanceInv, QueueStep
  PROVE  AttendanceInv'
<1> SUFFICES ASSUME NEW p \in Proofs, (stalls[p] = 0)'
             PROVE  (JobInv(p) /\ ClaimInv(p) /\ RunInv(p))'
  BY DEF AttendanceInv
<1> USE DEF taskVars, ledgerVars, evidence
<1>1. ASSUME NEW w \in Workers, NEW r \in Proofs, TakeJob(w, r)
      PROVE  (JobInv(p) /\ ClaimInv(p) /\ RunInv(p))'
  <2>1. JobInv(p) /\ ClaimInv(p) /\ RunInv(p)
    BY <1>1, Unstalled DEF TakeJob
  <2>2. Job(w) = NoProof
    BY <1>1 DEF TakeJob, At, Job, TypeOK
  <2>3. CASE p # r
    <3>1. /\ \A x \in Workers : Job(x) = p <=> Job(x)' = p
          /\ \A x \in Workers : Job(x) = p => worker'[x] = worker[x]
      BY <1>1, <2>2, <2>3, ProofsAssumption DEF TakeJob, Job, TypeOK
    <3>2. lock'[p] = lock[p] /\ jobState'[p] = jobState[p]
      BY <1>1, <2>3 DEF TakeJob, TypeOK
    <3>3. QED
      BY <1>1, <2>1, <3>1, <3>2, Frame DEF TakeJob, Decided
  <2>4. CASE p = r
    <3>1. \A x \in Workers : Job(x) # p
      BY <1>1, <2>1, <2>4, QueueAssumption DEF TakeJob, JobInv
    <3>2. /\ jobState'[p] = "active" /\ lock'[p] = w
          /\ \A x \in Workers : Job(x)' = p <=> x = w
          /\ worker'[w].pc = "claim"
      BY <1>1, <2>4, <3>1 DEF TakeJob, Job, TypeOK
    <3>3. jobState[p] = "waiting" /\ UNCHANGED <<status, attemptsMade, submitPc>>
      BY <1>1, <2>4 DEF TakeJob
    <3>4. JobInv(p)'
      BY <2>1, <3>2, <3>3, QueueAssumption DEF JobInv
    <3>5. ClaimInv(p)'
      BY <3>2 DEF ClaimInv
    <3>6. RunInv(p)'
      BY <2>1, <3>2, <3>3 DEF RunInv, ClaimInv, Verifying
    <3>7. QED
      BY <3>4, <3>5, <3>6
  <2>5. QED
    BY <2>3, <2>4
<1>2. ASSUME NEW w \in Workers, RunStalls(w)
      PROVE  (JobInv(p) /\ ClaimInv(p) /\ RunInv(p))'
  <2>1. Job(w) \in Proofs
    BY <1>2, BusyRunHasProof DEF RunStalls
  <2>2. p # Job(w) /\ stalls[p] = 0
    BY <1>2, <2>1 DEF RunStalls, TypeOK
  <2>3. JobInv(p) /\ ClaimInv(p) /\ RunInv(p)
    BY <2>2, Unstalled
  <2>4. /\ \A x \in Workers : Job(x) = p <=> Job(x)' = p
        /\ \A x \in Workers : Job(x) = p => worker'[x] = worker[x]
    BY <1>2, <2>2, ProofsAssumption DEF RunStalls, Job, IdleRun, TypeOK
  <2>5. lock'[p] = lock[p] /\ jobState'[p] = jobState[p]
    BY <1>2, <2>1, <2>2 DEF RunStalls, TypeOK
  <2>6. QED
    BY <1>2, <2>3, <2>4, <2>5, Frame DEF RunStalls, Decided
<1>3. ASSUME NEW r \in Proofs, RetryFailedJob(r)
      PROVE  (JobInv(p) /\ ClaimInv(p) /\ RunInv(p))'
  <2>1. JobInv(p) /\ ClaimInv(p) /\ RunInv(p)
    BY <1>3, Unstalled DEF RetryFailedJob
  <2>2. CASE p # r
    <3>1. jobState'[p] = jobState[p]
      BY <1>3, <2>2 DEF RetryFailedJob, TypeOK
    <3>2. QED
      BY <1>3, <2>1, <3>1, Frame DEF RetryFailedJob, Decided, Job
  <2>3. CASE p = r
    <3>1. /\ jobState[p] = "failed" /\ jobState'[p] = "waiting"
          /\ UNCHANGED <<status, attemptsMade, submitPc, lock, worker, assigned, marked>>
      BY <1>3, <2>3 DEF RetryFailedJob, TypeOK
    <3>2. attemptsMade[p] > 0 /\ attemptsMade[p] \in Nat
      BY <2>1, <3>1 DEF JobInv, TypeOK
    <3>3. QED
      BY <2>1, <3>1, <3>2 DEF JobInv, ClaimInv, RunInv, Job, Attended, Decided
  <2>4. QED
    BY <2>2, <2>3
<1>4. QED
  BY <1>1, <1>2, <1>3 DEF QueueStep

LEMMA SubmitAttendance ==
  ASSUME TypeOK, VerdictInv, AttendanceInv, NEW r \in Proofs, SubmitStep(r)
  PROVE  AttendanceInv'
<1> SUFFICES ASSUME NEW p \in Proofs, (stalls[p] = 0)'
             PROVE  (JobInv(p) /\ ClaimInv(p) /\ RunInv(p))'
  BY DEF AttendanceInv
<1> USE DEF taskVars, ledgerVars, evidence, queueVars
<1>1. stalls[p] = 0 /\ UNCHANGED <<worker, lock, attemptsMade>>
  BY DEF SubmitStep, SubmitProof, EnqueueVerification, EnqueueFails, SubmitRollback,
         SubmitAbandoned
<1>2. JobInv(p) /\ ClaimInv(p) /\ RunInv(p)
  BY <1>1, Unstalled
<1>3. CASE p # r
  <2>1. /\ jobState'[p] = jobState[p] /\ status'[p] = status[p]
        /\ submitPc'[p] = submitPc[p]
        /\ p \in assigned => p \in assigned'
        /\ marked' = marked
    BY <1>3 DEF SubmitStep, SubmitProof, EnqueueVerification, EnqueueFails,
       SubmitRollback, SubmitAbandoned, TypeOK
  <2>2. QED
    BY <1>1, <1>2, <2>1, Frame DEF Decided, Job
<1>4. CASE p = r /\ (SubmitProof(p) \/ EnqueueVerification(p))
  <2>1. jobState[p] = "none"
    BY <1>2, <1>4 DEF JobInv, SubmitProof, EnqueueVerification
  <2>2. \A w \in Workers : Job(w) # p
    BY <1>2, <2>1, QueueAssumption DEF JobInv
  <2>3. CASE SubmitProof(p)
    <3>1. /\ status'[p] = "PENDING" /\ submitPc'[p] = "enqueue" /\ jobState' = jobState
      BY <2>3 DEF SubmitProof, TypeOK
    <3>2. QED
      BY <1>1, <1>2, <2>1, <2>2, <3>1 DEF JobInv, ClaimInv, RunInv, Job
  <2>4. CASE EnqueueVerification(p)
    <3>1. /\ submitPc[p] = "enqueue" /\ submitPc'[p] \in {"done", "rollback"}
          /\ jobState'[p] = "waiting" /\ status' = status
      BY <2>4 DEF EnqueueVerification, TypeOK
    <3>2. QED
      BY <1>1, <1>2, <2>1, <2>2, <3>1 DEF JobInv, ClaimInv, RunInv, Job
  <2>5. QED
    BY <1>4, <2>3, <2>4
<1>5. CASE p = r /\ (EnqueueFails(p) \/ SubmitRollback(p) \/ SubmitAbandoned(p))
  <2>1. /\ jobState' = jobState /\ marked' = marked
        /\ submitPc'[p] \in {"rollback", "done"}
        /\ \/ status' = status /\ assigned' = assigned
           \/ ~Referenced(p) /\ status'[p] = "DELETED"
    BY <1>5 DEF EnqueueFails, SubmitRollback, SubmitAbandoned, TypeOK
  <2>2. Decided(p) => Referenced(p)
    BY DEF VerdictInv, DecidedIsReferenced, Referenced
  <2>3. QED
    BY <1>1, <1>2, <2>1, <2>2, Frame DEF Decided, Job
<1>6. QED
  BY <1>3, <1>4, <1>5 DEF SubmitStep

LEMMA OtherAttendance ==
  ASSUME TypeOK, AttendanceInv, ReviewStep \/ TaskStep \/ UNCHANGED vars
  PROVE  AttendanceInv'
<1> SUFFICES ASSUME NEW p \in Proofs, (stalls[p] = 0)'
             PROVE  (JobInv(p) /\ ClaimInv(p) /\ RunInv(p))'
  BY DEF AttendanceInv
<1> USE DEF taskVars, ledgerVars, evidence, queueVars
<1>1. UNCHANGED <<queueVars, submitPc, worker, assigned, marked>>
  BY DEF ReviewStep, StartReview, CommitReview, StartFinalize, CommitFinalize,
         TaskStep, ExpireTask, UpdateTask, vars
<1>2. JobInv(p) /\ ClaimInv(p) /\ RunInv(p)
  BY <1>1, Unstalled
<1>3. status'[p] = status[p] \/ (Undecided(p) /\ Decided(p)')
  <2>1. ASSUME NEW a \in Admins, CommitReview(a)
        PROVE  status'[p] = status[p] \/ (Undecided(p) /\ Decided(p)')
    <3>1. review[a].proof \in Proofs /\ review[a].verdict \in Verdicts
      BY <2>1 DEF CommitReview, TypeOK, Decisions
    <3>2. QED
      BY <2>1, <3>1, DecideStatus DEF CommitReview
  <2>2. ASSUME NEW q \in Quorums, CommitFinalize(q)
        PROVE  status'[p] = status[p] \/ (Undecided(p) /\ Decided(p)')
    <3>1. quorum[q].proof \in Proofs /\ quorum[q].verdict \in Verdicts
      BY <2>2 DEF CommitFinalize, TypeOK, Decisions
    <3>2. QED
      BY <2>2, <3>1, DecideStatus DEF CommitFinalize
  <2>3. QED
    BY <2>1, <2>2 DEF ReviewStep, StartReview, StartFinalize, TaskStep, ExpireTask,
       UpdateTask, vars
<1>4. QED
  BY <1>1, <1>2, <1>3, Frame DEF Decided, Undecided, Job

LEMMA StepAttendance ==
  TypeOK /\ VerdictInv /\ AttendanceInv /\ [Next]_vars => AttendanceInv'
<1> SUFFICES ASSUME TypeOK, VerdictInv, AttendanceInv, [Next]_vars PROVE AttendanceInv'
  OBVIOUS
<1>1. ASSUME NEW w \in Workers, RunStep(w) PROVE AttendanceInv'
  <2> SUFFICES ASSUME NEW p \in Proofs, (stalls[p] = 0)'
               PROVE  (JobInv(p) /\ ClaimInv(p) /\ RunInv(p))'
    BY DEF AttendanceInv
  <2>1. stalls[p] = 0
    BY <1>1 DEF RunStep, ClaimProof, ResumeOrSkip, AutoVerify, WorkerApproves,
       WorkerRejects, StartAssignment, CreateVotes, RecordInconclusive,
       EscalateToManualReview, RunReturns, RunFails, queueVars
  <2>2. QED
    BY <1>1, <2>1, Unstalled, RunAttendance, OtherRun
<1>2. QED
  BY <1>1, SubmitAttendance, QueueAttendance, OtherAttendance DEF Next

\* Whatever fails, is retried or races it, a verification job that completed
\* and never lost its lock leaves its proof decided, assigned to validators,
\* marked for manual review or rolled back (CompletedJobAttended).
THEOREM CompletedJobsAttend == Spec => []CompletedJobAttended
<1>1. Init => AttendanceInv
  BY QueueAssumption, ProofsAssumption
  DEF Init, AttendanceInv, JobInv, ClaimInv, RunInv, Job, IdleRun
<1>2. AttendanceInv => CompletedJobAttended
  BY DEF AttendanceInv, ClaimInv, Attended, CompletedJobAttended
<1>3. QED
  BY <1>1, <1>2, StepAttendance, TypeCorrect, VerdictInvariant, PTL DEF Spec

-----------------------------------------------------------------------------
(* What JobsSettle rests on: no job under way is left to itself.           *)

\* A job that is active has a run with its lock, also when earlier runs of it
\* stalled and go on, failed, or were retried by hand.
ActiveJobHasRun ==
  \A p \in Proofs : jobState[p] = "active" =>
    \E w \in Workers : lock[p] = w /\ Job(w) = p /\ ~At(w, "idle")

\* Holding a job's lock, and being at work on it.
Holds(w, p) == lock[p] = w /\ Job(w) = p /\ ~At(w, "idle")

LEMMA LeaveHolds ==
  ASSUME TypeOK, ActiveJobHasRun, NEW w \in Workers, ~At(w, "idle"),
         NEW outcome \in {"waiting", "completed", "failed"}, Leave(w, outcome)
  PROVE  ActiveJobHasRun'
<1> SUFFICES ASSUME NEW p \in Proofs, jobState'[p] = "active"
             PROVE  \E v \in Workers : Holds(v, p)'
  BY DEF ActiveJobHasRun, Holds
<1>1. Job(w) \in Proofs
  BY BusyRunHasProof DEF At
<1>2. jobState[p] = "active" /\ lock[p] # w /\ lock'[p] = lock[p]
  BY <1>1 DEF Leave, TypeOK, ActiveJobHasRun
<1>3. PICK v \in Workers : Holds(v, p)
  BY <1>2 DEF ActiveJobHasRun, Holds
<1>4. v # w /\ worker'[v] = worker[v]
  BY <1>2, <1>3 DEF Holds, Leave, TypeOK
<1>5. QED
  BY <1>2, <1>3, <1>4 DEF Holds, Job, At

\* A run that goes on with its job keeps it.
LEMMA OnwardHolds ==
  ASSUME TypeOK, ActiveJobHasRun, NEW w \in Workers, NEW pc, pc # "idle", Goto(w, pc),
         UNCHANGED queueVars
  PROVE  ActiveJobHasRun'
  BY DEF TypeOK, ActiveJobHasRun, Goto, Job, At, queueVars

LEMMA RunHolds ==
  ASSUME TypeOK, ActiveJobHasRun, NEW w \in Workers, RunStep(w)
  PROVE  ActiveJobHasRun'
<1>1. CASE RunReturns(w)
  BY <1>1, LeaveHolds DEF RunReturns, At
<1>2. CASE RunFails(w)
  BY <1>2, LeaveHolds DEF RunFails, At
<1>3. CASE ~RunReturns(w) /\ ~RunFails(w)
  <2>1. \E pc \in WorkerPcs \ {"idle"} : Goto(w, pc) /\ UNCHANGED queueVars
    BY <1>3 DEF RunStep, ClaimProof, ResumeOrSkip, AutoVerify, WorkerApproves, WorkerRejects,
       StartAssignment, CreateVotes, RecordInconclusive, EscalateToManualReview, WorkerPcs
  <2>2. QED
    BY <2>1, OnwardHolds
<1>4. QED
  BY <1>1, <1>2, <1>3

LEMMA QueueHolds ==
  ASSUME TypeOK, ActiveJobHasRun, QueueStep
  PROVE  ActiveJobHasRun'
<1> SUFFICES ASSUME NEW p \in Proofs, jobState'[p] = "active"
             PROVE  \E v \in Workers : Holds(v, p)'
  BY DEF ActiveJobHasRun, Holds
<1>1. ASSUME NEW w \in Workers, NEW q \in Proofs, TakeJob(w, q)
      PROVE  \E v \in Workers : Holds(v, p)'
  <2>1. CASE p = q
    BY <1>1, <2>1 DEF TakeJob, TypeOK, Holds, Job, At
  <2>2. CASE p # q
    <3>1. jobState[p] = "active" /\ lock'[p] = lock[p]
      BY <1>1, <2>2 DEF TakeJob, TypeOK
    <3>2. PICK v \in Workers : Holds(v, p)
      BY <3>1 DEF ActiveJobHasRun, Holds
    <3>3. worker'[v] = worker[v]
      BY <1>1, <3>2 DEF TakeJob, Holds, At, TypeOK
    <3>4. QED
      BY <3>1, <3>2, <3>3 DEF Holds, Job, At
  <2>3. QED
    BY <2>1, <2>2
<1>2. ASSUME NEW w \in Workers, RunStalls(w)
      PROVE  \E v \in Workers : Holds(v, p)'
  <2>1. Job(w) \in Proofs
    BY <1>2, BusyRunHasProof DEF RunStalls
  <2>2. jobState[p] = "active" /\ lock'[p] = lock[p] /\ p # Job(w)
    BY <1>2, <2>1 DEF RunStalls, TypeOK
  <2>3. PICK v \in Workers : Holds(v, p)
    BY <2>2 DEF ActiveJobHasRun, Holds
  <2>4. v # w /\ worker'[v] = worker[v]
    BY <1>2, <2>2, <2>3 DEF Holds, RunStalls, TypeOK
  <2>5. QED
    BY <2>2, <2>3, <2>4 DEF Holds, Job, At
<1>3. ASSUME NEW q \in Proofs, RetryFailedJob(q)
      PROVE  \E v \in Workers : Holds(v, p)'
  BY <1>3 DEF RetryFailedJob, TypeOK, ActiveJobHasRun, Holds, Job, At
<1>4. QED
  BY <1>1, <1>2, <1>3 DEF QueueStep

LEMMA StepHolds ==
  ASSUME TypeOK, ActiveJobHasRun, [Next]_vars
  PROVE  ActiveJobHasRun'
<1>1. ASSUME NEW q \in Proofs, SubmitStep(q) PROVE ActiveJobHasRun'
  <2>1. UNCHANGED <<worker, lock>>
    BY <1>1 DEF SubmitStep, SubmitProof, EnqueueVerification, EnqueueFails, SubmitRollback,
       SubmitAbandoned, queueVars
  <2>2. \A p \in Proofs : jobState'[p] = "active" => jobState[p] = "active"
    BY <1>1 DEF SubmitStep, SubmitProof, EnqueueVerification, EnqueueFails, SubmitRollback,
       SubmitAbandoned, queueVars, TypeOK
  <2>3. QED
    BY <2>1, <2>2 DEF ActiveJobHasRun, Job, At
<1>2. CASE ReviewStep \/ TaskStep \/ UNCHANGED vars
  <2>1. UNCHANGED <<worker, lock, jobState>>
    BY <1>2 DEF ReviewStep, StartReview, CommitReview, StartFinalize, CommitFinalize,
       TaskStep, ExpireTask, UpdateTask, vars, queueVars
  <2>2. QED
    BY <2>1 DEF ActiveJobHasRun, Job, At
<1>3. QED
  BY <1>1, <1>2, RunHolds, QueueHolds DEF Next

\* ActiveJobHasRun, for any number of runs, attempts and stalls: a job is never
\* active with nobody to end its attempt.
THEOREM ActiveJobsAreHeld == Spec => []ActiveJobHasRun
<1>1. Init => ActiveJobHasRun
  BY DEF Init, ActiveJobHasRun
<1>2. QED
  BY <1>1, StepHolds, TypeCorrect, PTL DEF Spec
=============================================================================
