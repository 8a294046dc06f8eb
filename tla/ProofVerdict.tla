---------------------------- MODULE ProofVerdict ----------------------------
(***************************************************************************)
(* How a submitted proof gets its verdict, and what a verdict does.        *)
(*                                                                         *)
(* Four kinds of process decide proofs over one Postgres database: the     *)
(* BullMQ verification worker, admins reviewing over HTTP, the validator   *)
(* quorum, and (indirectly, by closing a task) the expiry sweep and the    *)
(* admin task editor.  An approval takes a completion slot of the task,    *)
(* and writes the verdict, a notification and a reward payout row in one   *)
(* transaction.                                                            *)
(*                                                                         *)
(* A transaction is one action when all it reads, it reads from rows it    *)
(* has locked; a read made outside the transaction, or a plain SELECT      *)
(* inside it (the isolation level is Read Committed), is an action of its  *)
(* own, so that other processes may commit between the two.                *)
(***************************************************************************)
EXTENDS Naturals, FiniteSets

CONSTANTS
  Proofs,        \* one submission request, and the proof row it creates
  Tasks,         \* the tasks proofs are submitted for
  TaskOf,        \* the task of each proof
  Workers,       \* concurrent runs of the verification worker's processor
  Admins,        \* review requests of admins that may be in flight at once
  Quorums,       \* resolveQuorum calls that may be in flight at once
  Capacities,    \* the values max_completions takes
  Unlimited,     \* max_completions IS NULL
  MaxAttempts,   \* the attempts option of a verification job
  StallBound,    \* bound: how often a job may lose its lock
  MadeBound,     \* bound: attempts after which a failed job is not retried by hand
  NoProof, NoWorker, Idle

ASSUME ProofsAssumption ==
  /\ IsFiniteSet(Proofs)
  /\ TaskOf \in [Proofs -> Tasks]
  /\ NoProof \notin Proofs

ASSUME CapacityAssumption ==
  /\ Capacities \subseteq (Nat \ {0}) \cup {Unlimited}
  /\ Unlimited \notin Nat

ASSUME QueueAssumption ==
  /\ MaxAttempts \in Nat \ {0}
  /\ StallBound \in Nat
  /\ MadeBound \in Nat
  /\ NoWorker \notin Workers

TaskStatuses == {"ACTIVE", "COMPLETED", "EXPIRED"}
Verdicts     == {"approved", "rejected"}
FinalStatuses == {"APPROVED", "REJECTED"}

\* ProofStatus, with the two ways in which there is no row.
ProofStatuses == {"ABSENT", "DELETED", "PENDING", "VERIFYING"} \cup FinalStatuses

\* A review or quorum call between its read and its transaction.
Decisions == [proof : Proofs, verdict : Verdicts]

ASSUME IdleAssumption == Idle \notin Decisions

WorkerPcs == {"idle", "claim", "resume", "verify", "approve", "reject",
              "assign", "create", "record", "escalate", "return"}

\* BullMQ's maxStalledCount, which the code leaves at its default.
MaxStalledCount == 1

VARIABLES
  taskStatus,     \* tasks.status
  maxCompletions, \* tasks.max_completions
  completedCount, \* tasks.completed_count
  status,         \* proofs.status
  payouts,        \* proofs with a reward_payouts row (proof_id is unique)
  notices,        \* notification rows written with a verdict
  verified,       \* proofs with a verifications row
  marked,         \* proofs with the manual-review marker
  assigned,       \* proofs with validator_votes rows
  submitPc,       \* where the submission request of a proof is
  jobState,       \* the BullMQ job whose id is the proof's
  attemptsMade,   \* attempts of that job that threw
  stalls,         \* how often that job lost its lock
  lock,           \* the run that holds the job's lock
  worker,         \* local state of each run of the processor
  review,         \* local state of each admin review request
  quorum          \* local state of each resolveQuorum call

taskVars   == <<taskStatus, maxCompletions, completedCount>>
ledgerVars == <<payouts, notices>>
evidence   == <<verified, marked, assigned>>
queueVars  == <<jobState, attemptsMade, stalls, lock>>
vars == <<taskVars, status, ledgerVars, evidence, submitPc, queueVars,
          worker, review, quorum>>

IdleRun == [pc |-> "idle", proof |-> NoProof]

TypeOK ==
  /\ taskStatus \in [Tasks -> TaskStatuses]
  /\ maxCompletions \in [Tasks -> Capacities]
  /\ completedCount \in [Tasks -> Nat]
  /\ status \in [Proofs -> ProofStatuses]
  /\ payouts \subseteq Proofs
  /\ notices \subseteq Proofs \X FinalStatuses
  /\ verified \subseteq Proofs
  /\ marked \subseteq Proofs
  /\ assigned \subseteq Proofs
  /\ submitPc \in [Proofs -> {"start", "enqueue", "rollback", "done"}]
  /\ jobState \in [Proofs -> {"none", "waiting", "active", "completed", "failed"}]
  /\ attemptsMade \in [Proofs -> Nat]
  /\ stalls \in [Proofs -> Nat]
  /\ lock \in [Proofs -> Workers \cup {NoWorker}]
  /\ worker \in [Workers -> [pc : WorkerPcs, proof : Proofs \cup {NoProof}]]
  /\ \A w \in Workers : worker[w].pc = "idle" <=> worker[w].proof = NoProof
  /\ review \in [Admins -> Decisions \cup {Idle}]
  /\ quorum \in [Quorums -> Decisions \cup {Idle}]

Init ==
  /\ taskStatus = [t \in Tasks |-> "ACTIVE"]
  /\ maxCompletions \in [Tasks -> Capacities]
  /\ completedCount = [t \in Tasks |-> 0]
  /\ status = [p \in Proofs |-> "ABSENT"]
  /\ payouts = {} /\ notices = {}
  /\ verified = {} /\ marked = {} /\ assigned = {}
  /\ submitPc = [p \in Proofs |-> "start"]
  /\ jobState = [p \in Proofs |-> "none"]
  /\ attemptsMade = [p \in Proofs |-> 0]
  /\ stalls = [p \in Proofs |-> 0]
  /\ lock = [p \in Proofs |-> NoWorker]
  /\ worker = [w \in Workers |-> IdleRun]
  /\ review = [a \in Admins |-> Idle]
  /\ quorum = [q \in Quorums |-> Idle]

-----------------------------------------------------------------------------
(* Slots and verdicts: the statements every deciding transaction shares.   *)

Exists(p)    == status[p] \notin {"ABSENT", "DELETED"}
Undecided(p) == status[p] \in {"PENDING", "VERIFYING"}
Decided(p)   == status[p] \in FinalStatuses

\* Mutant: one completion too many fits.
SlotFreeOffByOne(t) ==
  /\ taskStatus[t] = "ACTIVE"
  /\ maxCompletions[t] # Unlimited => completedCount[t] <= maxCompletions[t]

\* The WHERE clause of claimCompletionSlot, which is also the test of
\* checkSubmissionEligibility.
SlotFree(t) ==
  /\ taskStatus[t] = "ACTIVE"
  /\ maxCompletions[t] # Unlimited => completedCount[t] < maxCompletions[t]

LastSlot(t) ==
  /\ maxCompletions[t] # Unlimited
  /\ completedCount[t] + 1 >= maxCompletions[t]

ClaimCompletionSlot(t) ==
  /\ completedCount' = [completedCount EXCEPT ![t] = @ + 1]
  /\ taskStatus' = [taskStatus EXCEPT ![t] = IF LastSlot(t) THEN "COMPLETED" ELSE @]

\* The status a verdict ends in: an approval needs a slot.
FinalStatus(p, verdict) ==
  IF verdict = "approved" /\ SlotFree(TaskOf[p]) THEN "APPROVED" ELSE "REJECTED"

\* Mutant: the slot is only taken for a proof that is still undecided.
TakeSlotIfUndecided(p, verdict) ==
  IF FinalStatus(p, verdict) = "APPROVED" /\ Undecided(p)
    THEN ClaimCompletionSlot(TaskOf[p])
    ELSE UNCHANGED <<completedCount, taskStatus>>

\* The slot is taken before the proof row is touched.
TakeSlot(p, verdict) ==
  IF FinalStatus(p, verdict) = "APPROVED"
    THEN ClaimCompletionSlot(TaskOf[p])
    ELSE UNCHANGED <<completedCount, taskStatus>>

\* Mutant: only the first verdict of a proof creates its payout.
RecordVerdictFirstPays(p, s) ==
  /\ status' = [status EXCEPT ![p] = s]
  /\ verified' = verified \cup {p}
  /\ notices' = notices \cup {<<p, s>>}
  /\ payouts' = IF s = "APPROVED" /\ p \notin verified THEN payouts \cup {p} ELSE payouts

\* Mutant: only the first verdict of a proof is notified.
RecordVerdictFirstNotifies(p, s) ==
  /\ status' = [status EXCEPT ![p] = s]
  /\ verified' = verified \cup {p}
  /\ notices' = IF p \in verified THEN notices ELSE notices \cup {<<p, s>>}
  /\ payouts' = IF s = "APPROVED" THEN payouts \cup {p} ELSE payouts

\* proof.update, verification.create, notifyProofStatus, rewardPayout.create.
RecordVerdict(p, s) ==
  /\ status' = [status EXCEPT ![p] = s]
  /\ verified' = verified \cup {p}
  /\ notices' = notices \cup {<<p, s>>}
  /\ payouts' = IF s = "APPROVED" THEN payouts \cup {p} ELSE payouts

\* The transaction of reviewProof and of finalizeProof: the proof row is
\* updated only while undecided, and `if (count === 0) return null` commits.
DecideIfUndecided(p, verdict) ==
  /\ TakeSlot(p, verdict)
  /\ IF Undecided(p)
       THEN RecordVerdict(p, FinalStatus(p, verdict))
       ELSE UNCHANGED <<status, verified, ledgerVars>>

-----------------------------------------------------------------------------
(* Submission: commit the proof, enqueue its job, roll back on failure.    *)

SubmitProof(p) ==
  /\ submitPc[p] = "start"
  /\ SlotFree(TaskOf[p])
  /\ status' = [status EXCEPT ![p] = "PENDING"]
  /\ submitPc' = [submitPc EXCEPT ![p] = "enqueue"]
  /\ UNCHANGED <<taskVars, ledgerVars, evidence, queueVars, worker, review, quorum>>

\* The job is added; a lost reply still sends the request to its rollback.
EnqueueVerification(p) ==
  /\ submitPc[p] = "enqueue"
  /\ jobState' = [jobState EXCEPT ![p] = "waiting"]
  /\ \E pc \in {"done", "rollback"} : submitPc' = [submitPc EXCEPT ![p] = pc]
  /\ UNCHANGED <<taskVars, status, ledgerVars, evidence, attemptsMade, stalls,
                 lock, worker, review, quorum>>

EnqueueFails(p) ==
  /\ submitPc[p] = "enqueue"
  /\ submitPc' = [submitPc EXCEPT ![p] = "rollback"]
  /\ UNCHANGED <<taskVars, status, ledgerVars, evidence, queueVars, worker,
                 review, quorum>>

\* Mutant: verifications are deleted with their proof.
ReferencedByPayout(p) == p \in payouts

\* Foreign keys keep a proof that has verifications or a payout; votes cascade.
Referenced(p) == p \in verified \cup payouts

SubmitRollback(p) ==
  /\ submitPc[p] = "rollback"
  /\ ~Referenced(p)
  /\ status' = [status EXCEPT ![p] = "DELETED"]
  /\ assigned' = assigned \ {p}
  /\ submitPc' = [submitPc EXCEPT ![p] = "done"]
  /\ UNCHANGED <<taskVars, ledgerVars, verified, marked, queueVars, worker,
                 review, quorum>>

\* The process dies before the enqueue, or the rollback itself fails.
SubmitAbandoned(p) ==
  /\ submitPc[p] \in {"enqueue", "rollback"}
  /\ submitPc' = [submitPc EXCEPT ![p] = "done"]
  /\ UNCHANGED <<taskVars, status, ledgerVars, evidence, queueVars, worker,
                 review, quorum>>

-----------------------------------------------------------------------------
(* The verification job and the worker's processor.                        *)

At(w, pc) == worker[w].pc = pc
Job(w)    == worker[w].proof
Goto(w, pc) == worker' = [worker EXCEPT ![w].pc = pc]

\* BullMQ hands a waiting job to an idle run, which takes its lock.
TakeJob(w, p) ==
  /\ At(w, "idle")
  /\ jobState[p] = "waiting"
  /\ jobState' = [jobState EXCEPT ![p] = "active"]
  /\ lock' = [lock EXCEPT ![p] = w]
  /\ worker' = [worker EXCEPT ![w] = [pc |-> "claim", proof |-> p]]
  /\ UNCHANGED <<taskVars, status, ledgerVars, evidence, submitPc, attemptsMade,
                 stalls, review, quorum>>

\* updateMany PENDING -> VERIFYING.
ClaimProof(w) ==
  /\ At(w, "claim")
  /\ IF status[Job(w)] = "PENDING"
       THEN /\ status' = [status EXCEPT ![Job(w)] = "VERIFYING"]
            /\ Goto(w, "verify")
       ELSE /\ UNCHANGED status
            /\ Goto(w, "resume")
  /\ UNCHANGED <<taskVars, ledgerVars, evidence, submitPc, queueVars, review, quorum>>

\* Mutant: the second attempt is not taken for a resumed one.
CanResumeLater(p) == status[p] = "VERIFYING" /\ attemptsMade[p] > 1

CanResume(p) == status[p] = "VERIFYING" /\ attemptsMade[p] > 0

\* Nothing was claimed: an earlier attempt is resumed, anything else skipped.
ResumeOrSkip(w) ==
  /\ At(w, "resume")
  /\ Goto(w, IF CanResume(Job(w)) THEN "verify" ELSE "return")
  /\ UNCHANGED <<taskVars, status, ledgerVars, evidence, submitPc, queueVars,
                 review, quorum>>

\* autoVerify reaches any verdict; it throws on a missing proof (RunFails).
AutoVerify(w) ==
  /\ At(w, "verify")
  /\ Exists(Job(w))
  /\ \E pc \in {"approve", "reject", "assign"} : Goto(w, pc)
  /\ UNCHANGED <<taskVars, status, ledgerVars, evidence, submitPc, queueVars,
                 review, quorum>>

\* The approving transaction updates the proof whatever its status is by now;
\* a second payout row for the proof would abort it (RunFails).
WorkerApproves(w) ==
  LET p == Job(w) IN
  /\ At(w, "approve")
  /\ Exists(p)
  /\ p \in payouts => FinalStatus(p, "approved") # "APPROVED"
  /\ TakeSlot(p, "approved")
  /\ RecordVerdict(p, FinalStatus(p, "approved"))
  /\ Goto(w, "return")
  /\ UNCHANGED <<maxCompletions, marked, assigned, submitPc, queueVars, review, quorum>>

WorkerRejects(w) ==
  /\ At(w, "reject")
  /\ Exists(Job(w))
  /\ RecordVerdict(Job(w), "REJECTED")
  /\ Goto(w, "return")
  /\ UNCHANGED <<taskVars, marked, assigned, submitPc, queueVars, review, quorum>>

\* assignValidators up to its count of existing votes.
StartAssignment(w) ==
  LET p == Job(w) IN
  /\ At(w, "assign")
  /\ Exists(p)
  /\ Goto(w, IF Decided(p) THEN "escalate"
             ELSE IF p \in assigned THEN "record" ELSE "create")
  /\ UNCHANGED <<taskVars, status, ledgerVars, evidence, submitPc, queueVars,
                 review, quorum>>

\* There may be validators to assign, or none.
CreateVotes(w) ==
  /\ At(w, "create")
  /\ \/ /\ Exists(Job(w))
        /\ assigned' = assigned \cup {Job(w)}
        /\ Goto(w, "record")
     \/ /\ UNCHANGED assigned
        /\ Goto(w, "escalate")
  /\ UNCHANGED <<taskVars, status, ledgerVars, verified, marked, submitPc,
                 queueVars, review, quorum>>

\* The inconclusive verification row of a proof that has validators.
RecordInconclusive(w) ==
  /\ At(w, "record")
  /\ Exists(Job(w))
  /\ verified' = verified \cup {Job(w)}
  /\ Goto(w, "return")
  /\ UNCHANGED <<taskVars, status, ledgerVars, marked, assigned, submitPc,
                 queueVars, review, quorum>>

\* Mutant: the escalation is not restricted to proofs under verification.
EscalateAnyStatus(w) ==
  LET p == Job(w) IN
  /\ At(w, "escalate")
  /\ Exists(p)
  /\ status' = [status EXCEPT ![p] = "PENDING"]
  /\ verified' = verified \cup {p}
  /\ marked' = marked \cup {p}
  /\ Goto(w, "return")
  /\ UNCHANGED <<taskVars, ledgerVars, assigned, submitPc, queueVars, review, quorum>>

EscalateToManualReview(w) ==
  LET p == Job(w) IN
  /\ At(w, "escalate")
  /\ IF status[p] = "VERIFYING"
       THEN /\ status' = [status EXCEPT ![p] = "PENDING"]
            /\ verified' = verified \cup {p}
            /\ marked' = marked \cup {p}
       ELSE UNCHANGED <<status, verified, marked>>
  /\ Goto(w, "return")
  /\ UNCHANGED <<taskVars, ledgerVars, assigned, submitPc, queueVars, review, quorum>>

\* A run reports its outcome; BullMQ ignores it when the lock is gone.
Leave(w, outcome) ==
  LET p == Job(w) IN
  /\ worker' = [worker EXCEPT ![w] = IdleRun]
  /\ IF lock[p] = w
       THEN /\ jobState' = [jobState EXCEPT ![p] = outcome]
            /\ lock' = [lock EXCEPT ![p] = NoWorker]
       ELSE UNCHANGED <<jobState, lock>>

RunReturns(w) ==
  /\ At(w, "return")
  /\ Leave(w, "completed")
  /\ UNCHANGED <<taskVars, status, ledgerVars, evidence, submitPc, attemptsMade,
                 stalls, review, quorum>>

\* Mutant: a failed attempt is retried without being counted.
RunFailsUncounted(w) ==
  /\ worker[w].pc \notin {"idle", "return"}
  /\ Leave(w, "waiting")
  /\ UNCHANGED <<taskVars, status, ledgerVars, evidence, submitPc, attemptsMade,
                 stalls, review, quorum>>

\* Any statement of the processor may throw: the attempt is spent.
RunFails(w) ==
  LET p == Job(w) IN
  /\ worker[w].pc \notin {"idle", "return"}
  /\ Leave(w, IF attemptsMade[p] + 1 < MaxAttempts THEN "waiting" ELSE "failed")
  /\ attemptsMade' = IF lock[p] = w
                       THEN [attemptsMade EXCEPT ![p] = @ + 1] ELSE attemptsMade
  /\ UNCHANGED <<taskVars, status, ledgerVars, evidence, submitPc, stalls,
                 review, quorum>>

\* A run loses its lock: its process died, or it only stalled and goes on.
\* attemptsMade does not count this delivery.
RunStalls(w) ==
  LET p == Job(w) IN
  /\ worker[w].pc # "idle"
  /\ lock[p] = w
  /\ stalls[p] < StallBound
  /\ stalls' = [stalls EXCEPT ![p] = @ + 1]
  /\ lock' = [lock EXCEPT ![p] = NoWorker]
  /\ jobState' = [jobState EXCEPT ![p] =
                    IF stalls[p] < MaxStalledCount THEN "waiting" ELSE "failed"]
  /\ \/ worker' = [worker EXCEPT ![w] = IdleRun]
     \/ UNCHANGED worker
  /\ UNCHANGED <<taskVars, status, ledgerVars, evidence, submitPc, attemptsMade,
                 review, quorum>>

\* POST /admin/queues/:queue/jobs/:jobId/retry.
RetryFailedJob(p) ==
  /\ jobState[p] = "failed"
  /\ attemptsMade[p] < MadeBound
  /\ jobState' = [jobState EXCEPT ![p] = "waiting"]
  /\ UNCHANGED <<taskVars, status, ledgerVars, evidence, submitPc, attemptsMade,
                 stalls, lock, worker, review, quorum>>

-----------------------------------------------------------------------------
(* Admin review and validator quorum.                                      *)

\* reviewProof reads the proof before its transaction.
StartReview(a, p, verdict) ==
  /\ review[a] = Idle
  /\ Undecided(p)
  /\ review' = [review EXCEPT ![a] = [proof |-> p, verdict |-> verdict]]
  /\ UNCHANGED <<taskVars, status, ledgerVars, evidence, submitPc, queueVars,
                 worker, quorum>>

CommitReview(a) ==
  /\ review[a] # Idle
  /\ DecideIfUndecided(review[a].proof, review[a].verdict)
  /\ review' = [review EXCEPT ![a] = Idle]
  /\ UNCHANGED <<maxCompletions, marked, assigned, submitPc, queueVars, worker, quorum>>

\* Enough validators agree, and finalizeProof has read the proof row without
\* locking it.  Which verdict has the votes is ValidatorQuorum's concern.
StartFinalize(q, p, verdict) ==
  /\ quorum[q] = Idle
  /\ p \in assigned
  /\ Undecided(p)
  /\ quorum' = [quorum EXCEPT ![q] = [proof |-> p, verdict |-> verdict]]
  /\ UNCHANGED <<taskVars, status, ledgerVars, evidence, submitPc, queueVars,
                 worker, review>>

CommitFinalize(q) ==
  /\ quorum[q] # Idle
  /\ DecideIfUndecided(quorum[q].proof, quorum[q].verdict)
  /\ quorum' = [quorum EXCEPT ![q] = Idle]
  /\ UNCHANGED <<maxCompletions, marked, assigned, submitPc, queueVars, worker, review>>

-----------------------------------------------------------------------------
(* Tasks: the expiry sweep and the admin's PATCH.                          *)

ExpireTask(t) ==
  /\ taskStatus[t] = "ACTIVE"
  /\ taskStatus' = [taskStatus EXCEPT ![t] = "EXPIRED"]
  /\ UNCHANGED <<maxCompletions, completedCount, status, ledgerVars, evidence,
                 submitPc, queueVars, worker, review, quorum>>

\* Any status and any positive capacity; never back to unlimited.
UpdateTask(t) ==
  /\ \E s \in TaskStatuses : taskStatus' = [taskStatus EXCEPT ![t] = s]
  /\ \E m \in (Capacities \ {Unlimited}) \cup {maxCompletions[t]} :
        maxCompletions' = [maxCompletions EXCEPT ![t] = m]
  /\ UNCHANGED <<completedCount, status, ledgerVars, evidence, submitPc,
                 queueVars, worker, review, quorum>>

-----------------------------------------------------------------------------
SubmitStep(p) ==
  \/ SubmitProof(p) \/ EnqueueVerification(p) \/ EnqueueFails(p)
  \/ SubmitRollback(p) \/ SubmitAbandoned(p)

\* The processor's own steps.
RunStep(w) ==
  \/ ClaimProof(w) \/ ResumeOrSkip(w) \/ AutoVerify(w)
  \/ WorkerApproves(w) \/ WorkerRejects(w)
  \/ StartAssignment(w) \/ CreateVotes(w) \/ RecordInconclusive(w)
  \/ EscalateToManualReview(w) \/ RunReturns(w) \/ RunFails(w)

QueueStep ==
  \/ \E w \in Workers, p \in Proofs : TakeJob(w, p)
  \/ \E w \in Workers : RunStalls(w)
  \/ \E p \in Proofs : RetryFailedJob(p)

ReviewStep ==
  \/ \E a \in Admins, p \in Proofs, v \in Verdicts : StartReview(a, p, v)
  \/ \E a \in Admins : CommitReview(a)
  \/ \E q \in Quorums, p \in Proofs, v \in Verdicts : StartFinalize(q, p, v)
  \/ \E q \in Quorums : CommitFinalize(q)

TaskStep == \E t \in Tasks : ExpireTask(t) \/ UpdateTask(t)

Next ==
  \/ \E p \in Proofs : SubmitStep(p)
  \/ \E w \in Workers : RunStep(w)
  \/ QueueStep
  \/ ReviewStep
  \/ TaskStep

Spec == Init /\ [][Next]_vars

\* A running processor proceeds or throws, and an idle one takes a job.
Fairness ==
  /\ \A w \in Workers : WF_vars(RunStep(w))
  /\ \A p \in Proofs : WF_vars(\E w \in Workers : TakeJob(w, p))

FairSpec == Spec /\ Fairness

-----------------------------------------------------------------------------
(* Properties.                                                             *)

PayoutsOf(t) == {p \in payouts : TaskOf[p] = t}

\* Every reward payout row stands for a completion slot its task gave away:
\* whichever of worker, admin and quorum approve, and however they race, a
\* task never owes more rewards than it has counted completions.
PayoutsHoldSlots == \A t \in Tasks : Cardinality(PayoutsOf(t)) <= completedCount[t]

\* An approval is never stored without its payout row, which the schema calls
\* the recoverable trace of a crash between approval and payout.
ApprovedHasPayout == \A p \in Proofs : status[p] = "APPROVED" => p \in payouts

\* The submitter has been sent the verdict the proof row now shows, even when
\* one decider overwrote another's.
FinalIsNotified == \A p \in Proofs : Decided(p) => <<p, status[p]>> \in notices

\* A proof that is still open, rolled back or not yet stored owes nothing:
\* no payout row and no verdict notification exist for it.
OpenProofsOweNothing ==
  \A p \in Proofs : ~Decided(p) =>
    p \notin payouts /\ \A s \in FinalStatuses : <<p, s>> \notin notices

\* A job that completed without ever losing its lock leaves its proof in
\* somebody's hands: decided, before the validators, on the admins' list of
\* manual reviews, or rolled back.
CompletedJobAttended ==
  \A p \in Proofs : jobState[p] = "completed" /\ stalls[p] = 0 =>
    \/ Decided(p)
    \/ p \in assigned \cup marked
    \/ status[p] = "DELETED"

\* No step reopens or deletes a decided proof: not the submission's rollback,
\* not a second delivery of the job, not a late escalation.
DecidedStaysDecided == [][\A p \in Proofs : Decided(p) => Decided(p)']_vars

\* A step that adds a payout leaves the task within the capacity in force at
\* that moment, also after an admin changed the capacity or reopened the task.
PayoutWithinCapacity ==
  [][\A p \in payouts' \ payouts :
       LET t == TaskOf[p] IN
       maxCompletions[t] # Unlimited => Cardinality(PayoutsOf(t))' <= maxCompletions[t]]_vars

\* Every job handed to the queue ends its attempts, whatever throws.
JobsSettle ==
  \A p \in Proofs : jobState[p] = "waiting" ~> jobState[p] \in {"completed", "failed"}

\* "proof already has a final verdict" (proofController.ts:377): what reviewProof
\* answers to a second verdict, promised for every way a verdict is reached.
FinalVerdictStands == [][\A p \in Proofs : Decided(p) => status'[p] = status[p]]_vars

\* "once that many proofs are approved the task is auto-marked COMPLETED" (README.md:287):
\* the slot that completes a task is the last of as many approvals as the task allows.
CompletedWhenFull ==
  [][\A t \in Tasks :
       completedCount'[t] > completedCount[t] /\ taskStatus'[t] = "COMPLETED" =>
         Cardinality(PayoutsOf(t))' >= maxCompletions[t]]_vars

\* Whoever may take a slot; a run of the processor decides from its claim on.
Deciders == ({"worker"} \X Workers) \cup ({"review"} \X Admins) \cup ({"quorum"} \X Quorums)

CallProof(call) == IF call = Idle THEN NoProof ELSE call.proof
RunProof(run) == IF run.pc \in {"verify", "approve", "reject"} THEN run.proof ELSE NoProof

DecisionOf(d) ==
  IF d[1] = "worker" THEN RunProof(worker[d[2]])
  ELSE IF d[1] = "review" THEN CallProof(review[d[2]]) ELSE CallProof(quorum[d[2]])

Fate(p) ==
  IF Decided(p) THEN "closed" ELSE IF status[p] = "DELETED" THEN "withdrawn" ELSE "open"

\* The contract with a task's sponsor that all deciders together keep: slots are
\* given away below the capacity of the moment and one at a time, and a payout row is
\* only ever created together with a slot, once per proof, and never withdrawn.  A
\* slot is lost without a payout (reviewProof and finalizeProof commit it when their
\* updateMany finds no open proof) only to a decision that was begun while its proof
\* was open and was overtaken, one slot for each such decision.
Ledger == INSTANCE CompletionLedger
  WITH capacity <- maxCompletions, given <- completedCount, awarded <- payouts,
       fate <- [p \in Proofs |-> Fate(p)],
       pending <- [d \in Deciders |-> DecisionOf(d)]

ImplementsLedger == Ledger!Spec
=============================================================================
