---------------------------- MODULE RewardPayout ----------------------------
(***************************************************************************)
(* The reward payout pipeline: rows of reward_payouts written by approvals *)
(* (see ProofVerdict), sweepers that enqueue them and reclaim stale ones,  *)
(* the BullMQ queue that drops an add whose job id it still keeps, the     *)
(* reward worker, and the Stellar network, where a payment once submitted  *)
(* cannot be taken back.                                                   *)
(*                                                                         *)
(* Sweepers run on an interval that does not wait for the previous drain,  *)
(* and in every instance of the service, so several may be under way.      *)
(***************************************************************************)
EXTENDS Naturals, FiniteSets

CONSTANTS
  Payouts,       \* rows of reward_payouts, one per approved proof
  Workers,       \* concurrent runs of the reward worker's processor
  Sweepers,      \* drains that may be under way at once
  CreatedAt,     \* created_at of each row
  BatchSize,     \* rows a drain takes at once
  SlowPayouts,   \* bound: rows that may outlive STALE_PROCESSING_MS unpaid
  Contested,     \* bound: rows whose proof may lose its approval
  MaxAttempts,   \* DEFAULT_PAYOUT_MAX_ATTEMPTS
  ReclaimBound,  \* bound: reclaims of one row
  FaultBound,    \* bound: runs and drains that a database error or a crash ends
  NoPayout, NoWorker

ASSUME PayoutAssumption ==
  /\ SlowPayouts \subseteq Payouts
  /\ CreatedAt \in [Payouts -> Nat]
  /\ BatchSize \in Nat \ {0}
  /\ NoPayout \notin Payouts
  /\ IsFiniteSet(Workers)
  /\ NoWorker \notin Workers

ASSUME BoundAssumption ==
  /\ MaxAttempts \in Nat \ {0}
  /\ ReclaimBound \in Nat
  /\ FaultBound \in Nat

RowStatuses == {"PENDING", "PROCESSING", "PAID", "FAILED"}
RunPcs == {"idle", "claim", "check", "refuse", "pay", "record", "fail", "return"}
SweepPcs == {"idle", "pending", "enqueue", "error", "stale"}

VARIABLES
  status,    \* reward_payouts.status
  attempts,  \* reward_payouts.attempts
  due,       \* next_attempt_at has passed
  old,       \* created_at lies more than STALE_PROCESSING_MS back
  approved,  \* payouts whose proof is APPROVED
  rewarded,  \* payouts whose proof has rewarded_at set
  jobState,  \* the BullMQ job whose id is the payout's
  lock,      \* the run that holds that job's lock
  run,       \* local state of each run of the processor
  sweeper,   \* local state of each drain
  seen,      \* the attempts each drain read
  payments,  \* payments the Stellar network accepted
  reclaims,  \* how often a row was reset to PENDING
  faults     \* faults spent

rowVars   == <<status, attempts, due, old>>
proofVars == <<approved, rewarded>>
queueVars == <<jobState, lock>>
drainVars == <<sweeper, seen>>
vars == <<rowVars, proofVars, queueVars, run, drainVars, payments, reclaims, faults>>

IdleRun   == [pc |-> "idle", payout |-> NoPayout]
IdleDrain == [pc |-> "idle", todo |-> {}, row |-> NoPayout]
NothingSeen == [p \in Payouts |-> 0]

TypeOK ==
  /\ status \in [Payouts -> RowStatuses]
  /\ attempts \in [Payouts -> Nat]
  /\ due \subseteq Payouts
  /\ old \subseteq Payouts
  /\ approved \subseteq Payouts
  /\ rewarded \subseteq Payouts
  /\ jobState \in [Payouts -> {"none", "waiting", "active", "completed", "failed"}]
  /\ lock \in [Payouts -> Workers \cup {NoWorker}]
  /\ run \in [Workers -> [pc : RunPcs, payout : Payouts \cup {NoPayout}]]
  /\ \A w \in Workers : run[w].pc = "idle" <=> run[w].payout = NoPayout
  /\ sweeper \in [Sweepers -> [pc : SweepPcs, todo : SUBSET Payouts,
                               row : Payouts \cup {NoPayout}]]
  /\ \A s \in Sweepers : sweeper[s].pc \in {"enqueue", "error"} <=> sweeper[s].row # NoPayout
  /\ seen \in [Sweepers -> [Payouts -> Nat]]
  /\ payments \in [Payouts -> Nat]
  /\ reclaims \in [Payouts -> Nat]
  /\ faults \in Nat

Init ==
  /\ status = [p \in Payouts |-> "PENDING"]
  /\ attempts = [p \in Payouts |-> 0]
  /\ due = Payouts
  /\ old = {}
  /\ approved = Payouts
  /\ rewarded = {}
  /\ jobState = [p \in Payouts |-> "none"]
  /\ lock = [p \in Payouts |-> NoWorker]
  /\ run = [w \in Workers |-> IdleRun]
  /\ sweeper = [s \in Sweepers |-> IdleDrain]
  /\ seen = [s \in Sweepers |-> NothingSeen]
  /\ payments = [p \in Payouts |-> 0]
  /\ reclaims = [p \in Payouts |-> 0]
  /\ faults = 0

-----------------------------------------------------------------------------
(* drainRewardPayouts: PENDING rows into the queue, then stale rows back.  *)

DrainAt(s, pc) == sweeper[s].pc = pc

\* What findMany with take may return of the rows that match: all of them, or as
\* many as fit in a batch.
Batches(rows) ==
  {batch \in SUBSET rows :
     /\ Cardinality(batch) <= BatchSize
     /\ batch # rows => Cardinality(batch) = BatchSize}

\* No row of rest is older than p: orderBy createdAt asc.
IsOldest(p, rest) == \A q \in rest : CreatedAt[p] <= CreatedAt[q]

\* The drain holds the rows of the batch as they were when it read them.
Hold(s, pc, batch) ==
  /\ sweeper' = [sweeper EXCEPT ![s] = [pc |-> pc, todo |-> batch, row |-> NoPayout]]
  /\ seen' = [seen EXCEPT ![s] = [p \in Payouts |-> IF p \in batch THEN attempts[p] ELSE 0]]

Waiting == {p \in due : status[p] = "PENDING"}

\* findMany of the PENDING rows that are due, the oldest first.
ReadPending(s) ==
  /\ DrainAt(s, "idle")
  /\ \E batch \in Batches(Waiting) :
       /\ \A p \in batch : IsOldest(p, Waiting \ batch)
       /\ Hold(s, "pending", batch)
  /\ UNCHANGED <<rowVars, proofVars, queueVars, run, payments, reclaims, faults>>

\* The conditional update PENDING -> PENDING, which changes nothing.
ClaimRow(s, p) ==
  /\ DrainAt(s, "pending")
  /\ p \in sweeper[s].todo
  /\ IsOldest(p, sweeper[s].todo)
  /\ sweeper' = [sweeper EXCEPT ![s] =
       [pc   |-> IF status[p] = "PENDING" THEN "enqueue" ELSE "pending",
        row  |-> IF status[p] = "PENDING" THEN p ELSE NoPayout,
        todo |-> @.todo \ {p}]]
  /\ UNCHANGED <<rowVars, proofVars, queueVars, run, seen, payments, reclaims, faults>>

\* queue.add with the payout's id: a no-op while a job of that id is kept,
\* also a completed or failed one.
AddJob(p) ==
  jobState' = [jobState EXCEPT ![p] = IF @ = "none" THEN "waiting" ELSE @]

\* The loop over the batch goes on.
NextRow(s) ==
  sweeper' = [sweeper EXCEPT ![s] =
    [pc |-> "pending", todo |-> @.todo, row |-> NoPayout]]

Enqueue(s) ==
  /\ DrainAt(s, "enqueue")
  /\ AddJob(sweeper[s].row)
  /\ NextRow(s)
  /\ UNCHANGED <<rowVars, proofVars, lock, run, seen, payments, reclaims, faults>>

\* The add throws, before or after Redis carried it out.
EnqueueThrows(s) ==
  /\ DrainAt(s, "enqueue")
  /\ AddJob(sweeper[s].row) \/ UNCHANGED jobState
  /\ sweeper' = [sweeper EXCEPT ![s].pc = "error"]
  /\ UNCHANGED <<rowVars, proofVars, lock, run, seen, payments, reclaims, faults>>

\* Mutant: a failed enqueue backs off without being counted.
RecordEnqueueErrorUncounted(s) ==
  LET p == sweeper[s].row IN
  /\ DrainAt(s, "error")
  /\ due' = due \ {p}
  /\ NextRow(s)
  /\ UNCHANGED <<status, attempts, old, proofVars, queueVars, run, seen, payments,
                 reclaims, faults>>

\* Counts from the attempts read with the batch, and writes unconditionally.
RecordEnqueueError(s) ==
  LET p == sweeper[s].row
      made == seen[s][p] + 1
  IN
  /\ DrainAt(s, "error")
  /\ attempts' = [attempts EXCEPT ![p] = made]
  /\ IF made >= MaxAttempts
       THEN status' = [status EXCEPT ![p] = "FAILED"] /\ UNCHANGED due
       ELSE due' = due \ {p} /\ UNCHANGED status
  /\ NextRow(s)
  /\ UNCHANGED <<old, proofVars, queueVars, run, seen, payments, reclaims, faults>>

\* Mutant: a row that has used up its attempts is not read any more.
StaleWithAttemptsLeft(p) ==
  status[p] = "PROCESSING" /\ p \in old /\ attempts[p] < MaxAttempts

\* PROCESSING rows whose created_at, not updated_at, is old.
Stale(p) == status[p] = "PROCESSING" /\ p \in old

ReadStale(s) ==
  /\ DrainAt(s, "pending")
  /\ sweeper[s].todo = {}
  /\ \E batch \in Batches({p \in Payouts : Stale(p)}) : Hold(s, "stale", batch)
  /\ UNCHANGED <<rowVars, proofVars, queueVars, run, payments, reclaims, faults>>

\* Unconditional as well: the row may have been PAID since it was read.
ReclaimRow(s, p) ==
  /\ DrainAt(s, "stale")
  /\ p \in sweeper[s].todo
  /\ IF seen[s][p] >= MaxAttempts
       THEN /\ status' = [status EXCEPT ![p] = "FAILED"]
            /\ UNCHANGED <<attempts, due, reclaims>>
       ELSE /\ reclaims[p] < ReclaimBound
            /\ status' = [status EXCEPT ![p] = "PENDING"]
            /\ attempts' = [attempts EXCEPT ![p] = seen[s][p] + 1]
            /\ due' = due \cup {p}
            /\ reclaims' = [reclaims EXCEPT ![p] = @ + 1]
  /\ sweeper' = [sweeper EXCEPT ![s].todo = @ \ {p}]
  /\ UNCHANGED <<old, proofVars, queueVars, run, seen, payments, faults>>

EndDrain(s) ==
  /\ DrainAt(s, "stale")
  /\ sweeper[s].todo = {}
  /\ Hold(s, "idle", {})
  /\ UNCHANGED <<rowVars, proofVars, queueVars, run, payments, reclaims, faults>>

\* A statement outside the try throws, or the process dies: the rest of the
\* batch is left to a later drain.
DrainThrows(s) ==
  /\ ~DrainAt(s, "idle")
  /\ faults < FaultBound
  /\ faults' = faults + 1
  /\ Hold(s, "idle", {})
  /\ UNCHANGED <<rowVars, proofVars, queueVars, run, payments, reclaims>>

-----------------------------------------------------------------------------
(* The reward worker.                                                      *)

RunAt(w, pc) == run[w].pc = pc
Row(w) == run[w].payout
Goto(w, pc) == run' = [run EXCEPT ![w].pc = pc]

TakeJob(w, p) ==
  /\ RunAt(w, "idle")
  /\ jobState[p] = "waiting"
  /\ jobState' = [jobState EXCEPT ![p] = "active"]
  /\ lock' = [lock EXCEPT ![p] = w]
  /\ run' = [run EXCEPT ![w] = [pc |-> "claim", payout |-> p]]
  /\ UNCHANGED <<rowVars, proofVars, drainVars, payments, reclaims, faults>>

\* Mutant: a row another run left PROCESSING is taken over.
ClaimPayoutInProgress(w) ==
  /\ RunAt(w, "claim")
  /\ IF status[Row(w)] \in {"PENDING", "PROCESSING"}
       THEN /\ status' = [status EXCEPT ![Row(w)] = "PROCESSING"]
            /\ Goto(w, "check")
       ELSE UNCHANGED status /\ Goto(w, "return")
  /\ UNCHANGED <<attempts, due, old, proofVars, queueVars, drainVars, payments,
                 reclaims, faults>>

\* updateMany PENDING -> PROCESSING, or skip.
ClaimPayout(w) ==
  /\ RunAt(w, "claim")
  /\ IF status[Row(w)] = "PENDING"
       THEN /\ status' = [status EXCEPT ![Row(w)] = "PROCESSING"]
            /\ Goto(w, "check")
       ELSE UNCHANGED status /\ Goto(w, "return")
  /\ UNCHANGED <<attempts, due, old, proofVars, queueVars, drainVars, payments,
                 reclaims, faults>>

CheckProof(w) ==
  /\ RunAt(w, "check")
  /\ Goto(w, IF Row(w) \in approved THEN "pay" ELSE "refuse")
  /\ UNCHANGED <<rowVars, proofVars, queueVars, drainVars, payments, reclaims, faults>>

Pay(p) == payments' = [payments EXCEPT ![p] = @ + 1]

\* submitReward returns: the network has the payment.  An oracle key is configured;
\* without one submitReward pays nothing and returns the hash of a mock transaction.
PaySucceeds(w) ==
  /\ RunAt(w, "pay")
  /\ Pay(Row(w))
  /\ Goto(w, "record")
  /\ UNCHANGED <<rowVars, proofVars, queueVars, drainVars, reclaims, faults>>

\* Mutant: a payment that throws is recorded as paid.
PayThrowsUnnoticed(w) ==
  /\ RunAt(w, "pay")
  /\ Pay(Row(w)) \/ UNCHANGED payments
  /\ Goto(w, "record")
  /\ UNCHANGED <<rowVars, proofVars, queueVars, drainVars, reclaims, faults>>

\* submitReward throws, before the payment or, on a timeout, after it.
PayThrows(w) ==
  /\ RunAt(w, "pay")
  /\ Pay(Row(w)) \/ UNCHANGED payments
  /\ Goto(w, "fail")
  /\ UNCHANGED <<rowVars, proofVars, queueVars, drainVars, reclaims, faults>>

RecordPaid(w) ==
  /\ RunAt(w, "record")
  /\ status' = [status EXCEPT ![Row(w)] = "PAID"]
  /\ rewarded' = rewarded \cup {Row(w)}
  /\ Goto(w, "return")
  /\ UNCHANGED <<attempts, due, old, approved, queueVars, drainVars, payments,
                 reclaims, faults>>

\* BullMQ keeps the finished job; it ignores a run whose lock is gone.
Leave(w, outcome) ==
  LET p == Row(w) IN
  /\ run' = [run EXCEPT ![w] = IdleRun]
  /\ IF lock[p] = w
       THEN /\ jobState' = [jobState EXCEPT ![p] = outcome]
            /\ lock' = [lock EXCEPT ![p] = NoWorker]
       ELSE UNCHANGED queueVars

\* The proof is no longer approved: the row fails, then the processor throws.
RecordRefusal(w) ==
  /\ RunAt(w, "refuse")
  /\ status' = [status EXCEPT ![Row(w)] = "FAILED"]
  /\ Leave(w, "failed")
  /\ UNCHANGED <<attempts, due, old, proofVars, drainVars, payments, reclaims, faults>>

RecordFailure(w) ==
  /\ RunAt(w, "fail")
  /\ status' = [status EXCEPT ![Row(w)] = "FAILED"]
  /\ attempts' = [attempts EXCEPT ![Row(w)] = @ + 1]
  /\ Leave(w, "failed")
  /\ UNCHANGED <<due, old, proofVars, drainVars, payments, reclaims, faults>>

RunReturns(w) ==
  /\ RunAt(w, "return")
  /\ Leave(w, "completed")
  /\ UNCHANGED <<rowVars, proofVars, drainVars, payments, reclaims, faults>>

\* A database error outside the try around submitReward leaves the row as it is;
\* the job has one attempt.
RunThrows(w) ==
  /\ run[w].pc \in {"claim", "check", "refuse", "record", "fail"}
  /\ faults < FaultBound
  /\ faults' = faults + 1
  /\ Leave(w, "failed")
  /\ UNCHANGED <<rowVars, proofVars, drainVars, payments, reclaims>>

\* The run's process dies, or stalls and goes on without its lock; the job is
\* delivered again or, if it had stalled before (maxStalledCount), failed.
RunStalls(w) ==
  LET p == Row(w) IN
  /\ run[w].pc # "idle"
  /\ lock[p] = w
  /\ faults < FaultBound
  /\ faults' = faults + 1
  /\ \E outcome \in {"waiting", "failed"} : jobState' = [jobState EXCEPT ![p] = outcome]
  /\ lock' = [lock EXCEPT ![p] = NoWorker]
  /\ \/ run' = [run EXCEPT ![w] = IdleRun]
     \/ UNCHANGED run
  /\ UNCHANGED <<rowVars, proofVars, drainVars, payments, reclaims>>

-----------------------------------------------------------------------------
(* The environment: time, retention, the retry endpoint, later verdicts.   *)

BecomeDue(p) ==
  /\ p \notin due
  /\ due' = due \cup {p}
  /\ UNCHANGED <<status, attempts, old, proofVars, queueVars, run, drainVars,
                 payments, reclaims, faults>>

GrowOld(p) ==
  /\ p \in SlowPayouts \ old
  /\ old' = old \cup {p}
  /\ UNCHANGED <<status, attempts, due, proofVars, queueVars, run, drainVars,
                 payments, reclaims, faults>>

\* removeOnComplete and removeOnFail make room for the id again.
EvictJob(p) ==
  /\ jobState[p] \in {"completed", "failed"}
  /\ jobState' = [jobState EXCEPT ![p] = "none"]
  /\ UNCHANGED <<rowVars, proofVars, lock, run, drainVars, payments, reclaims, faults>>

RetryFailedJob(p) ==
  /\ jobState[p] = "failed"
  /\ jobState' = [jobState EXCEPT ![p] = "waiting"]
  /\ UNCHANGED <<rowVars, proofVars, lock, run, drainVars, payments, reclaims, faults>>

\* A verification run overwrote the approval (ProofVerdict).
LoseApproval(p) ==
  /\ p \in approved \cap Contested
  /\ approved' = approved \ {p}
  /\ UNCHANGED <<rowVars, rewarded, queueVars, run, drainVars, payments, reclaims, faults>>

-----------------------------------------------------------------------------
DrainStep(s) ==
  \/ ReadPending(s) \/ Enqueue(s) \/ EnqueueThrows(s) \/ RecordEnqueueError(s)
  \/ ReadStale(s) \/ EndDrain(s)
  \/ \E p \in Payouts : ClaimRow(s, p) \/ ReclaimRow(s, p)

RunStep(w) ==
  \/ ClaimPayout(w) \/ CheckProof(w) \/ PaySucceeds(w) \/ PayThrows(w)
  \/ RecordPaid(w) \/ RecordRefusal(w) \/ RecordFailure(w) \/ RunReturns(w)

FaultStep ==
  \/ \E w \in Workers : RunThrows(w) \/ RunStalls(w)
  \/ \E s \in Sweepers : DrainThrows(s)

TimeStep == \E p \in Payouts : BecomeDue(p) \/ GrowOld(p)

OperatorStep ==
  \E p \in Payouts : EvictJob(p) \/ RetryFailedJob(p) \/ LoseApproval(p)

Next ==
  \/ \E s \in Sweepers : DrainStep(s)
  \/ \E w \in Workers, p \in Payouts : TakeJob(w, p)
  \/ \E w \in Workers : RunStep(w)
  \/ FaultStep
  \/ TimeStep
  \/ OperatorStep

Spec == Init /\ [][Next]_vars

\* The sweep timer fires again, the worker polls its queue, a run proceeds, and
\* a backoff ends, and time passes.  Eviction and manual retries are not promised.
Fairness ==
  /\ \A s \in Sweepers : WF_vars(DrainStep(s))
  /\ \A p \in Payouts : WF_vars(\E w \in Workers : TakeJob(w, p))
  /\ \A w \in Workers : WF_vars(RunStep(w))
  /\ \A p \in Payouts : WF_vars(BecomeDue(p)) /\ WF_vars(GrowOld(p))

FairSpec == Spec /\ Fairness

-----------------------------------------------------------------------------
(* Properties.                                                             *)

\* Runs between their claim of the row and their payment.
Payers(p) == {w \in Workers : Row(w) = p /\ run[w].pc \in {"check", "pay"}}

\* Every payment on the network, and every run on its way to one, is paid for
\* by a claim of the row of its own: one for the approval and one more for each
\* time a sweeper reset the row.  Redelivery, stalls, duplicate enqueues and
\* retries by hand add none.
PaymentsAreClaimed ==
  \A p \in Payouts : payments[p] + Cardinality(Payers(p)) <= 1 + reclaims[p]

\* A row that says PAID, or a proof that says it was rewarded, had its payment.
PaidWasSent ==
  \A p \in Payouts : status[p] = "PAID" \/ p \in rewarded => payments[p] > 0

\* "Guarantees at-most-once payout per proof" (schema.prisma:186).
AtMostOncePayout == \A p \in Payouts : payments[p] <= 1

\* A row whose job id a finished job still takes: every enqueue of it is a no-op.
Blocked(p) == status[p] = "PENDING" /\ jobState[p] \in {"completed", "failed"}

\* A full batch of such rows, none of them younger than p.
Crowded(p) ==
  Cardinality({q \in Payouts \ {p} : Blocked(q) /\ CreatedAt[q] <= CreatedAt[p]}) >= BatchSize

\* Whatever throws, dies or stalls, and however many drains overlap, a row that
\* the sweeper may find stale is paid or fails in the end.  Two things alone can
\* keep it waiting: its job id is taken by a finished job that the queue still
\* keeps, or older rows in that state fill every batch.
RowsSettle ==
  \A p \in SlowPayouts :
    []<>(status[p] \in {"PAID", "FAILED"} \/ Blocked(p) \/ Crowded(p))

\* "Also reclaims stale PROCESSING rows (worker crashed between claim and
\* completion)" (rewardPayoutSweeper.ts:29): no crash, stall or database error
\* leaves a row claimed for ever.
ClaimsEnd == \A p \in SlowPayouts : status[p] = "PROCESSING" ~> status[p] # "PROCESSING"

\* The contract with the treasury that workers, drains and operators together
\* keep: no payment leaves without a grant of its own, the approval's or a
\* reclaim's, and rewarded_at follows a payment.
Ledger == INSTANCE PaymentLedger
  WITH granted <- [p \in Payouts |-> 1 + reclaims[p]], sent <- payments, settled <- rewarded

ImplementsLedger == Ledger!Spec
=============================================================================
