------------------------- MODULE NotificationOutbox -------------------------
(***************************************************************************)
(* The notification pipeline: outbox rows written with a verdict, drains   *)
(* that claim them and enqueue their dispatch, the queue, and the worker   *)
(* that posts a notification to its user's webhook.                        *)
(*                                                                         *)
(* Drains run on an interval and in every instance of the service, without *)
(* waiting for each other.  A row stands for its notification as well:     *)
(* each notification has one.                                              *)
(***************************************************************************)
EXTENDS Naturals, FiniteSets

CONSTANTS
  Rows,         \* rows of notification_outbox
  CreatedAt,    \* created_at of each row
  BatchSize,    \* rows a drain takes at once
  Sweepers,     \* drains that may be under way at once
  Workers,      \* concurrent runs of the dispatch worker's processor
  MaxAttempts,  \* DEFAULT_OUTBOX_MAX_ATTEMPTS
  JobAttempts,  \* the attempts option of a dispatch job
  FaultBound,   \* bound: database errors, crashes and stalls
  NoRow, NoWorker

ASSUME RowsAssumption ==
  /\ NoRow \notin Rows
  /\ CreatedAt \in [Rows -> Nat]
  /\ BatchSize \in Nat \ {0}
  /\ NoWorker \notin Workers
  /\ IsFiniteSet(Sweepers)

ASSUME AttemptsAssumption ==
  /\ MaxAttempts \in Nat \ {0}
  /\ JobAttempts \in Nat \ {0}
  /\ FaultBound \in Nat

RowStatuses == {"PENDING", "PROCESSING", "SENT", "DEAD_LETTER"}
DrainPcs    == {"idle", "claim", "enqueue", "sent", "error"}
OwnerPcs    == {"enqueue", "sent", "error"}
RunPcs      == {"idle", "read", "send", "acknowledge", "record", "return"}
JobStates   == {"none", "waiting", "active", "completed", "failed"}

VARIABLES
  status,        \* notification_outbox.status
  attempts,      \* notification_outbox.attempts
  due,           \* next_attempt_at has passed
  delivered,     \* notifications with delivered_at set
  drain,         \* local state of each drain
  seen,          \* the attempts each drain read with its batch
  jobState,      \* the BullMQ job whose id is the row's
  attemptsMade,  \* attempts of that job that threw
  lock,          \* the run that holds that job's lock
  run,           \* local state of each run of the processor
  added,         \* rows whose job the queue has taken
  overlapped,    \* rows with a run that stalled and went on without its lock
  faults

rowVars   == <<status, attempts, due>>
drainVars == <<drain, seen>>
queueVars == <<jobState, attemptsMade, lock>>
vars == <<rowVars, delivered, drainVars, queueVars, run, added, overlapped, faults>>

IdleDrain == [pc |-> "idle", todo |-> {}, row |-> NoRow]
IdleRun   == [pc |-> "idle", row |-> NoRow]

TypeOK ==
  /\ status \in [Rows -> RowStatuses]
  /\ attempts \in [Rows -> Nat]
  /\ due \subseteq Rows
  /\ delivered \subseteq Rows
  /\ drain \in [Sweepers -> [pc : DrainPcs, todo : SUBSET Rows, row : Rows \cup {NoRow}]]
  /\ \A s \in Sweepers : drain[s].pc \in OwnerPcs <=> drain[s].row # NoRow
  /\ seen \in [Sweepers -> [Rows -> Nat]]
  /\ jobState \in [Rows -> JobStates]
  /\ attemptsMade \in [Rows -> Nat]
  /\ lock \in [Rows -> Workers \cup {NoWorker}]
  /\ run \in [Workers -> [pc : RunPcs, row : Rows \cup {NoRow}]]
  /\ \A w \in Workers : run[w].pc = "idle" <=> run[w].row = NoRow
  /\ added \subseteq Rows
  /\ overlapped \subseteq Rows
  /\ faults \in Nat

Init ==
  /\ status = [n \in Rows |-> "PENDING"]
  /\ attempts = [n \in Rows |-> 0]
  /\ due = Rows
  /\ delivered = {}
  /\ drain = [s \in Sweepers |-> IdleDrain]
  /\ seen = [s \in Sweepers |-> [n \in Rows |-> 0]]
  /\ jobState = [n \in Rows |-> "none"]
  /\ attemptsMade = [n \in Rows |-> 0]
  /\ lock = [n \in Rows |-> NoWorker]
  /\ run = [w \in Workers |-> IdleRun]
  /\ added = {}
  /\ overlapped = {}
  /\ faults = 0

Fault == faults < FaultBound /\ faults' = faults + 1

-----------------------------------------------------------------------------
(* drainNotificationOutbox.                                                *)

DrainAt(s, pc) == drain[s].pc = pc

Pending == {n \in due : status[n] = "PENDING"}

\* What findMany may return: all the rows, or as many of the oldest as fit.
Batches ==
  {batch \in SUBSET Pending :
     /\ Cardinality(batch) <= BatchSize
     /\ batch # Pending => Cardinality(batch) = BatchSize
     /\ \A n \in batch, m \in Pending \ batch : CreatedAt[n] <= CreatedAt[m]}

ReadBatch(s) ==
  /\ DrainAt(s, "idle")
  /\ \E batch \in Batches :
       drain' = [drain EXCEPT ![s] = [pc |-> "claim", todo |-> batch, row |-> NoRow]]
  /\ seen' = [seen EXCEPT ![s] = attempts]
  /\ UNCHANGED <<rowVars, delivered, queueVars, run, added, overlapped, faults>>

\* Mutant: the claim does not look at the row's status.
ClaimRowUnguarded(s, n) ==
  /\ DrainAt(s, "claim")
  /\ n \in drain[s].todo
  /\ \A m \in drain[s].todo : CreatedAt[n] <= CreatedAt[m]
  /\ status' = [status EXCEPT ![n] = "PROCESSING"]
  /\ drain' = [drain EXCEPT ![s] = [pc |-> "enqueue", row |-> n, todo |-> @.todo \ {n}]]
  /\ UNCHANGED <<attempts, due, delivered, seen, queueVars, run, added, overlapped, faults>>

\* The conditional update PENDING -> PROCESSING, which does not ask again
\* whether the row is due.
ClaimRow(s, n) ==
  /\ DrainAt(s, "claim")
  /\ n \in drain[s].todo
  /\ \A m \in drain[s].todo : CreatedAt[n] <= CreatedAt[m]
  /\ \/ /\ status[n] = "PENDING"
        /\ status' = [status EXCEPT ![n] = "PROCESSING"]
        /\ drain' = [drain EXCEPT ![s] =
                       [pc |-> "enqueue", row |-> n, todo |-> @.todo \ {n}]]
     \/ /\ status[n] # "PENDING"
        /\ UNCHANGED status
        /\ drain' = [drain EXCEPT ![s].todo = @ \ {n}]
  /\ UNCHANGED <<attempts, due, delivered, seen, queueVars, run, added, overlapped, faults>>

\* queue.add with the row's id: a no-op while a job of that id is kept.
AddJob(n) ==
  /\ jobState' = [jobState EXCEPT ![n] = IF @ = "none" THEN "waiting" ELSE @]
  /\ attemptsMade' = [attemptsMade EXCEPT ![n] = IF jobState[n] = "none" THEN 0 ELSE @]
  /\ added' = added \cup {n}

Enqueue(s) ==
  /\ DrainAt(s, "enqueue")
  /\ AddJob(drain[s].row)
  /\ drain' = [drain EXCEPT ![s].pc = "sent"]
  /\ UNCHANGED <<rowVars, delivered, seen, lock, run, overlapped, faults>>

\* Mutant: a failed enqueue is not noticed.
EnqueueThrowsUnnoticed(s) ==
  /\ DrainAt(s, "enqueue")
  /\ AddJob(drain[s].row) \/ UNCHANGED <<jobState, attemptsMade, added>>
  /\ drain' = [drain EXCEPT ![s].pc = "sent"]
  /\ UNCHANGED <<rowVars, delivered, seen, lock, run, overlapped, faults>>

\* The add throws, before or after Redis carried it out.
EnqueueThrows(s) ==
  /\ DrainAt(s, "enqueue")
  /\ AddJob(drain[s].row) \/ UNCHANGED <<jobState, attemptsMade, added>>
  /\ drain' = [drain EXCEPT ![s].pc = "error"]
  /\ UNCHANGED <<rowVars, delivered, seen, lock, run, overlapped, faults>>

NextRow(s) ==
  drain' = [drain EXCEPT ![s] = [pc |-> "claim", todo |-> @.todo, row |-> NoRow]]

RecordSent(s) ==
  LET n == drain[s].row IN
  /\ DrainAt(s, "sent")
  /\ status' = [status EXCEPT ![n] = "SENT"]
  /\ attempts' = [attempts EXCEPT ![n] = seen[s][n] + 1]
  /\ NextRow(s)
  /\ UNCHANGED <<due, delivered, seen, queueVars, run, added, overlapped, faults>>

\* The update to SENT is inside the try: when it throws, the job is added and
\* the row is treated as if it were not.
RecordSentThrows(s) ==
  /\ DrainAt(s, "sent")
  /\ Fault
  /\ drain' = [drain EXCEPT ![s].pc = "error"]
  /\ UNCHANGED <<rowVars, delivered, seen, queueVars, run, added, overlapped>>

\* Mutant: the attempt is not counted.
RecordErrorUncounted(s) ==
  LET n == drain[s].row IN
  /\ DrainAt(s, "error")
  /\ status' = [status EXCEPT ![n] = "PENDING"]
  /\ due' = due \ {n}
  /\ NextRow(s)
  /\ UNCHANGED <<attempts, delivered, seen, queueVars, run, added, overlapped, faults>>

\* The count goes on from the attempts read with the batch.
RecordError(s) ==
  LET n == drain[s].row
      made == seen[s][n] + 1
  IN
  /\ DrainAt(s, "error")
  /\ attempts' = [attempts EXCEPT ![n] = made]
  /\ IF made >= MaxAttempts
       THEN status' = [status EXCEPT ![n] = "DEAD_LETTER"] /\ UNCHANGED due
       ELSE status' = [status EXCEPT ![n] = "PENDING"] /\ due' = due \ {n}
  /\ NextRow(s)
  /\ UNCHANGED <<delivered, seen, queueVars, run, added, overlapped, faults>>

EndDrain(s) ==
  /\ DrainAt(s, "claim")
  /\ drain[s].todo = {}
  /\ drain' = [drain EXCEPT ![s] = IdleDrain]
  /\ UNCHANGED <<rowVars, delivered, seen, queueVars, run, added, overlapped, faults>>

\* A statement outside the try throws, or the process dies: a claimed row stays
\* PROCESSING.
DrainDies(s) ==
  /\ ~DrainAt(s, "idle")
  /\ Fault
  /\ drain' = [drain EXCEPT ![s] = IdleDrain]
  /\ UNCHANGED <<rowVars, delivered, seen, queueVars, run, added, overlapped>>

BecomeDue(n) ==
  /\ n \notin due
  /\ due' = due \cup {n}
  /\ UNCHANGED <<status, attempts, delivered, drainVars, queueVars, run, added, overlapped, faults>>

-----------------------------------------------------------------------------
(* The dispatch job and dispatchNotification.                              *)

RunAt(w, pc) == run[w].pc = pc
Goto(w, pc)  == run' = [run EXCEPT ![w].pc = pc]

TakeJob(w, n) ==
  /\ RunAt(w, "idle")
  /\ jobState[n] = "waiting"
  /\ jobState' = [jobState EXCEPT ![n] = "active"]
  /\ lock' = [lock EXCEPT ![n] = w]
  /\ run' = [run EXCEPT ![w] = [pc |-> "read", row |-> n]]
  /\ UNCHANGED <<rowVars, delivered, drainVars, attemptsMade, added, overlapped, faults>>

\* Mutant: a notification that was delivered is sent again.
ReadNotificationAgain(w) ==
  /\ RunAt(w, "read")
  /\ Goto(w, "send")
  /\ UNCHANGED <<rowVars, delivered, drainVars, queueVars, added, overlapped, faults>>

ReadNotification(w) ==
  /\ RunAt(w, "read")
  /\ Goto(w, IF run[w].row \in delivered THEN "return" ELSE "send")
  /\ UNCHANGED <<rowVars, delivered, drainVars, queueVars, added, overlapped, faults>>

\* The webhook answers, or does not in time; neither throws.  A user without a
\* webhook is always reached.
SendWebhook(w) ==
  /\ RunAt(w, "send")
  /\ \E pc \in {"acknowledge", "record"} : Goto(w, pc)
  /\ UNCHANGED <<rowVars, delivered, drainVars, queueVars, added, overlapped, faults>>

\* delivered_at := now.
AcknowledgeDelivery(w) ==
  /\ RunAt(w, "acknowledge")
  /\ delivered' = delivered \cup {run[w].row}
  /\ Goto(w, "return")
  /\ UNCHANGED <<rowVars, drainVars, queueVars, added, overlapped, faults>>

\* delivered_at := null and the error, also over an earlier delivery.
RecordDeliveryError(w) ==
  /\ RunAt(w, "record")
  /\ delivered' = delivered \ {run[w].row}
  /\ Goto(w, "return")
  /\ UNCHANGED <<rowVars, drainVars, queueVars, added, overlapped, faults>>

\* BullMQ ignores the outcome of a run whose lock is gone.
Leave(w, outcome) ==
  LET n == run[w].row IN
  /\ run' = [run EXCEPT ![w] = IdleRun]
  /\ IF lock[n] = w
       THEN /\ jobState' = [jobState EXCEPT ![n] = outcome]
            /\ lock' = [lock EXCEPT ![n] = NoWorker]
       ELSE UNCHANGED <<jobState, lock>>

RunReturns(w) ==
  /\ RunAt(w, "return")
  /\ Leave(w, "completed")
  /\ UNCHANGED <<rowVars, delivered, drainVars, attemptsMade, added, overlapped, faults>>

\* A database statement of the processor throws: the job's attempt is spent.
RunThrows(w) ==
  LET n == run[w].row IN
  /\ run[w].pc \in {"read", "acknowledge", "record"}
  /\ Fault
  /\ Leave(w, IF attemptsMade[n] + 1 < JobAttempts THEN "waiting" ELSE "failed")
  /\ attemptsMade' = IF lock[n] = w
                       THEN [attemptsMade EXCEPT ![n] = @ + 1] ELSE attemptsMade
  /\ UNCHANGED <<rowVars, delivered, drainVars, added, overlapped>>

\* The run's process dies, or stalls and goes on without its lock; the job is
\* delivered again or, if it had stalled before, failed.
RunStalls(w) ==
  LET n == run[w].row IN
  /\ ~RunAt(w, "idle")
  /\ lock[n] = w
  /\ Fault
  /\ \E outcome \in {"waiting", "failed"} : jobState' = [jobState EXCEPT ![n] = outcome]
  /\ lock' = [lock EXCEPT ![n] = NoWorker]
  /\ \/ run' = [run EXCEPT ![w] = IdleRun] /\ UNCHANGED overlapped
     \/ overlapped' = overlapped \cup {n} /\ UNCHANGED run
  /\ UNCHANGED <<rowVars, delivered, drainVars, attemptsMade, added>>

\* removeOnComplete and removeOnFail make room for the id again.
EvictJob(n) ==
  /\ jobState[n] \in {"completed", "failed"}
  /\ jobState' = [jobState EXCEPT ![n] = "none"]
  /\ UNCHANGED <<rowVars, delivered, drainVars, attemptsMade, lock, run, added, overlapped, faults>>

RetryFailedJob(n) ==
  /\ jobState[n] = "failed"
  /\ jobState' = [jobState EXCEPT ![n] = "waiting"]
  /\ UNCHANGED <<rowVars, delivered, drainVars, attemptsMade, lock, run, added, overlapped, faults>>

-----------------------------------------------------------------------------
DrainStep(s) ==
  \/ ReadBatch(s) \/ Enqueue(s) \/ EnqueueThrows(s)
  \/ RecordSent(s) \/ RecordError(s) \/ EndDrain(s)
  \/ \E n \in Rows : ClaimRow(s, n)

RunStep(w) ==
  \/ ReadNotification(w) \/ SendWebhook(w)
  \/ AcknowledgeDelivery(w) \/ RecordDeliveryError(w) \/ RunReturns(w)

FaultStep ==
  \/ \E s \in Sweepers : RecordSentThrows(s) \/ DrainDies(s)
  \/ \E w \in Workers : RunThrows(w) \/ RunStalls(w)

Next ==
  \/ \E s \in Sweepers : DrainStep(s)
  \/ \E w \in Workers, n \in Rows : TakeJob(w, n)
  \/ \E w \in Workers : RunStep(w)
  \/ \E n \in Rows : BecomeDue(n) \/ EvictJob(n) \/ RetryFailedJob(n)
  \/ FaultStep

Spec == Init /\ [][Next]_vars

\* The sweep timer fires again, the worker polls its queue, a run proceeds, and
\* a backoff ends.
Fairness ==
  /\ \A s \in Sweepers : WF_vars(DrainStep(s))
  /\ \A n \in Rows : WF_vars(\E w \in Workers : TakeJob(w, n))
  /\ \A w \in Workers : WF_vars(RunStep(w))
  /\ \A n \in Rows : WF_vars(BecomeDue(n))

FairSpec == Spec /\ Fairness

-----------------------------------------------------------------------------
(* Properties.                                                             *)

Owners(n) == {s \in Sweepers : drain[s].row = n}

\* "If two drain calls race for the same row, only one claim succeeds"
\* (notificationOutboxService.ts:33): a row has at most one drain at work on it,
\* and while it has one no other can claim it, through every retry.
OneDrainPerRow ==
  \A n \in Rows :
    /\ \A s, t \in Owners(n) : s = t
    /\ Owners(n) # {} => status[n] = "PROCESSING"

\* A row is SENT only when the queue has taken its job, whichever of several
\* drains and failed attempts wrote it last.
SentWasEnqueued == \A n \in Rows : status[n] = "SENT" => n \in added

\* A claimed row that no drain is at work on: nothing reads PROCESSING rows.
Orphaned(n) == status[n] = "PROCESSING" /\ Owners(n) = {}

\* "Once max attempts are exceeded the row is moved to DEAD_LETTER"
\* (schema.prisma:253): a row is sent or dead-lettered in the end, whatever throws
\* and although drains count on from stale reads.  The one thing that can keep it
\* is the end of the drain that had claimed it.
RowsSettle ==
  \A n \in Rows : <>[](status[n] \in {"SENT", "DEAD_LETTER"} \/ Orphaned(n))

\* delivered_at is cleared again (notificationDispatchService.ts:108) only where a
\* run of the row's job stalled and went on beside the one that replaced it.
\* Added again by a drain, evicted, retried by hand or after a throw or a crash,
\* the job runs again and finds the delivery.
DeliveryStands == [][\A n \in delivered \ delivered' : n \in overlapped]_vars
=============================================================================
