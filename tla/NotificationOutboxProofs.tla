---------------------- MODULE NotificationOutboxProofs ----------------------
(* Proofs about the notification outbox, for any number of rows, drains,   *)
(* runs, attempts and faults.                                              *)
EXTENDS NotificationOutbox, TLAPS

-----------------------------------------------------------------------------
(* Type correctness.                                                       *)

LEMMA InitTypeOK == Init => TypeOK
  BY DEF Init, TypeOK, RowStatuses, DrainPcs, OwnerPcs, RunPcs, JobStates, IdleDrain, IdleRun

\* The row of a drain that owns one, and of a run under way.
LEMMA OwnedRow ==
  ASSUME TypeOK
  PROVE  /\ \A s \in Sweepers : drain[s].pc \in OwnerPcs => drain[s].row \in Rows
         /\ \A w \in Workers : run[w].pc # "idle" => run[w].row \in Rows
  BY DEF TypeOK

LEMMA AddJobType ==
  ASSUME TypeOK, NEW n \in Rows, AddJob(n)
  PROVE  /\ jobState' \in [Rows -> JobStates]
         /\ attemptsMade' \in [Rows -> Nat]
         /\ added' \subseteq Rows
  BY DEF TypeOK, AddJob, JobStates

\* The part of TypeOK about the drains, and the part about the runs.
DrainsOK ==
  /\ drain \in [Sweepers -> [pc : DrainPcs, todo : SUBSET Rows, row : Rows \cup {NoRow}]]
  /\ \A s \in Sweepers : drain[s].pc \in OwnerPcs <=> drain[s].row # NoRow

RunsOK ==
  /\ run \in [Workers -> [pc : RunPcs, row : Rows \cup {NoRow}]]
  /\ \A w \in Workers : run[w].pc = "idle" <=> run[w].row = NoRow

LEMMA PartsOfTypeOK == TypeOK => DrainsOK /\ RunsOK
  BY DEF TypeOK, DrainsOK, RunsOK

\* What a drain may do to its own state.
LEMMA DrainStateType ==
  ASSUME DrainsOK, NEW s \in Sweepers, NEW d,
         d \in [pc : DrainPcs, todo : SUBSET Rows, row : Rows \cup {NoRow}],
         d.pc \in OwnerPcs <=> d.row # NoRow,
         drain' = [drain EXCEPT ![s] = d]
  PROVE  DrainsOK'
  BY DEF DrainsOK

LEMMA DrainPcType ==
  ASSUME DrainsOK, NEW s \in Sweepers, NEW pc \in OwnerPcs, drain[s].pc \in OwnerPcs,
         drain' = [drain EXCEPT ![s].pc = pc]
  PROVE  DrainsOK'
<1>1. pc \in DrainPcs
  BY DEF OwnerPcs, DrainPcs
<1>2. QED
  BY <1>1 DEF DrainsOK

LEMMA NextRowType ==
  ASSUME DrainsOK, NEW s \in Sweepers, NextRow(s)
  PROVE  DrainsOK'
<1> DEFINE d == [pc |-> "claim", todo |-> drain[s].todo, row |-> NoRow]
<1>1. d \in [pc : DrainPcs, todo : SUBSET Rows, row : Rows \cup {NoRow}]
  BY DEF DrainsOK, DrainPcs
<1>2. drain' = [drain EXCEPT ![s] = d]
  BY DEF NextRow
<1>3. d.pc \notin OwnerPcs /\ d.row = NoRow
  BY DEF OwnerPcs
<1> HIDE DEF d
<1>4. QED
  BY <1>1, <1>2, <1>3, DrainStateType

LEMMA ClaimRowType ==
  ASSUME TypeOK, NEW s \in Sweepers, NEW n \in Rows, ClaimRow(s, n)
  PROVE  DrainsOK' /\ status' \in [Rows -> RowStatuses]
<1>1. DrainsOK
  BY PartsOfTypeOK
<1>2. status' \in [Rows -> RowStatuses]
  BY DEF ClaimRow, TypeOK, RowStatuses
<1>3. CASE drain' = [drain EXCEPT ![s] =
                       [pc |-> "enqueue", row |-> n, todo |-> @.todo \ {n}]]
  <2> DEFINE d == [pc |-> "enqueue", row |-> n, todo |-> drain[s].todo \ {n}]
  <2>1. d \in [pc : DrainPcs, todo : SUBSET Rows, row : Rows \cup {NoRow}]
    BY <1>1 DEF DrainsOK, DrainPcs
  <2>2. d.pc \in OwnerPcs /\ d.row # NoRow
    BY RowsAssumption DEF OwnerPcs
  <2>3. drain' = [drain EXCEPT ![s] = d]
    BY <1>3
  <2> HIDE DEF d
  <2>4. DrainsOK'
    BY <1>1, <2>1, <2>2, <2>3, DrainStateType
  <2>5. QED
    BY <1>2, <2>4
<1>4. CASE drain' = [drain EXCEPT ![s].todo = @ \ {n}]
  BY <1>1, <1>2, <1>4 DEF DrainsOK
<1>5. QED
  BY <1>3, <1>4 DEF ClaimRow

LEMMA DrainTypeOK ==
  ASSUME TypeOK, NEW s \in Sweepers,
         DrainStep(s) \/ RecordSentThrows(s) \/ DrainDies(s)
  PROVE  TypeOK'
<1> USE DEF rowVars, drainVars, queueVars
<1>0. DrainsOK
  BY PartsOfTypeOK
<1>1. CASE ReadBatch(s)
  <2>1. PICK batch \in SUBSET Rows :
          drain' = [drain EXCEPT ![s] = [pc |-> "claim", todo |-> batch, row |-> NoRow]]
    BY <1>1 DEF ReadBatch, Batches, Pending, TypeOK
  <2> DEFINE d == [pc |-> "claim", todo |-> batch, row |-> NoRow]
  <2>2. d \in [pc : DrainPcs, todo : SUBSET Rows, row : Rows \cup {NoRow}]
    BY DEF DrainPcs
  <2>3. d.pc \notin OwnerPcs /\ d.row = NoRow /\ drain' = [drain EXCEPT ![s] = d]
    BY <2>1 DEF OwnerPcs
  <2> HIDE DEF d
  <2>4. DrainsOK'
    BY <1>0, <2>2, <2>3, DrainStateType
  <2>5. seen' \in [Sweepers -> [Rows -> Nat]]
    BY <1>1 DEF ReadBatch, TypeOK
  <2>6. QED
    BY <1>1, <2>4, <2>5 DEF ReadBatch, TypeOK, DrainsOK
<1>2. ASSUME NEW n \in Rows, ClaimRow(s, n) PROVE TypeOK'
  <2>1. DrainsOK' /\ status' \in [Rows -> RowStatuses]
    BY <1>2, ClaimRowType
  <2>2. UNCHANGED <<attempts, due, delivered, seen, queueVars, run, added, overlapped, faults>>
    BY <1>2 DEF ClaimRow
  <2>3. QED
    BY <2>1, <2>2 DEF TypeOK, DrainsOK
<1>3. CASE Enqueue(s) \/ EnqueueThrows(s)
  <2>1. drain[s].row \in Rows /\ drain[s].pc \in OwnerPcs
    BY <1>3, OwnedRow DEF Enqueue, EnqueueThrows, DrainAt, OwnerPcs
  <2>2. AddJob(drain[s].row) \/ UNCHANGED <<jobState, attemptsMade, added>>
    BY <1>3 DEF Enqueue, EnqueueThrows
  <2>3. /\ jobState' \in [Rows -> JobStates] /\ attemptsMade' \in [Rows -> Nat]
        /\ added' \subseteq Rows
    BY <2>1, <2>2, AddJobType DEF TypeOK
  <2>4. DrainsOK'
    <3>1. PICK pc \in OwnerPcs : drain' = [drain EXCEPT ![s].pc = pc]
      BY <1>3 DEF Enqueue, EnqueueThrows, OwnerPcs
    <3>2. QED
      BY <1>0, <2>1, <3>1, DrainPcType
  <2>5. UNCHANGED <<rowVars, delivered, seen, lock, run, overlapped, faults>>
    BY <1>3 DEF Enqueue, EnqueueThrows
  <2>6. QED
    BY <2>3, <2>4, <2>5 DEF TypeOK, DrainsOK
<1>4. CASE RecordSent(s) \/ RecordError(s)
  <2>1. drain[s].row \in Rows
    BY <1>4, OwnedRow DEF RecordSent, RecordError, DrainAt, OwnerPcs
  <2>2. seen[s][drain[s].row] + 1 \in Nat
    BY <2>1 DEF TypeOK
  <2>3. /\ status' \in [Rows -> RowStatuses] /\ attempts' \in [Rows -> Nat]
        /\ due' \subseteq Rows
    <3>1. CASE RecordSent(s)
      BY <2>2, <3>1 DEF RecordSent, TypeOK, RowStatuses
    <3>2. CASE RecordError(s)
      <4>1. attempts' \in [Rows -> Nat]
        BY <2>2, <3>2 DEF RecordError, TypeOK
      <4>2. status' \in [Rows -> RowStatuses] /\ due' \subseteq Rows
        BY <3>2 DEF RecordError, TypeOK, RowStatuses
      <4>3. QED
        BY <4>1, <4>2
    <3>3. QED
      BY <1>4, <3>1, <3>2
  <2>4. DrainsOK'
    BY <1>0, <1>4, NextRowType DEF RecordSent, RecordError
  <2>5. UNCHANGED <<delivered, seen, queueVars, run, added, overlapped, faults>>
    BY <1>4 DEF RecordSent, RecordError
  <2>6. QED
    BY <2>3, <2>4, <2>5 DEF TypeOK, DrainsOK
<1>5. CASE EndDrain(s) \/ DrainDies(s)
  <2>1. /\ IdleDrain \in [pc : DrainPcs, todo : SUBSET Rows, row : Rows \cup {NoRow}]
        /\ IdleDrain.pc \notin OwnerPcs /\ IdleDrain.row = NoRow
    BY DEF IdleDrain, DrainPcs, OwnerPcs
  <2>2. drain' = [drain EXCEPT ![s] = IdleDrain]
    BY <1>5 DEF EndDrain, DrainDies
  <2>3. DrainsOK'
    BY <1>0, <2>1, <2>2, DrainStateType
  <2>4. faults' \in Nat
    BY <1>5 DEF EndDrain, DrainDies, Fault, TypeOK
  <2>5. UNCHANGED <<rowVars, delivered, seen, queueVars, run, added, overlapped>>
    BY <1>5 DEF EndDrain, DrainDies
  <2>6. QED
    BY <2>3, <2>4, <2>5 DEF TypeOK, DrainsOK
<1>6. CASE RecordSentThrows(s)
  <2>1. DrainsOK'
    <3>1. /\ "error" \in OwnerPcs /\ drain[s].pc \in OwnerPcs
          /\ drain' = [drain EXCEPT ![s].pc = "error"]
      BY <1>6 DEF RecordSentThrows, DrainAt, OwnerPcs
    <3>2. QED
      BY <1>0, <3>1, DrainPcType
  <2>2. /\ faults' \in Nat
        /\ UNCHANGED <<rowVars, delivered, seen, queueVars, run, added, overlapped>>
    BY <1>6 DEF RecordSentThrows, Fault, TypeOK
  <2>3. QED
    BY <2>1, <2>2 DEF TypeOK, DrainsOK
<1>7. QED
  BY <1>1, <1>2, <1>3, <1>4, <1>5, <1>6 DEF DrainStep

\* A run under way goes on with its row.
LEMMA GotoType ==
  ASSUME RunsOK, NEW w \in Workers, run[w].pc # "idle",
         NEW pc \in RunPcs \ {"idle"}, Goto(w, pc)
  PROVE  RunsOK'
  BY DEF RunsOK, Goto

LEMMA LeaveType ==
  ASSUME TypeOK, NEW w \in Workers, run[w].pc # "idle",
         NEW outcome \in JobStates, Leave(w, outcome)
  PROVE  /\ RunsOK'
         /\ jobState' \in [Rows -> JobStates]
         /\ lock' \in [Rows -> Workers \cup {NoWorker}]
<1>1. run[w].row \in Rows
  BY OwnedRow
<1>2. RunsOK'
  BY DEF TypeOK, RunsOK, Leave, IdleRun, RunPcs
<1>3. /\ jobState' \in [Rows -> JobStates]
      /\ lock' \in [Rows -> Workers \cup {NoWorker}]
  BY <1>1 DEF TypeOK, Leave
<1>4. QED
  BY <1>2, <1>3

LEMMA RunTypeOK ==
  ASSUME TypeOK, NEW w \in Workers, RunStep(w) \/ RunThrows(w) \/ RunStalls(w)
  PROVE  TypeOK'
<1> USE DEF rowVars, drainVars, queueVars
<1>0. RunsOK /\ run[w].pc # "idle" /\ run[w].row \in Rows
  <2>1. run[w].pc # "idle"
    BY DEF RunStep, ReadNotification, SendWebhook, AcknowledgeDelivery, RecordDeliveryError,
       RunReturns, RunThrows, RunStalls, RunAt
  <2>2. QED
    BY <2>1, OwnedRow, PartsOfTypeOK
<1>1. CASE ReadNotification(w) \/ SendWebhook(w)
  <2>1. PICK pc \in RunPcs \ {"idle"} : Goto(w, pc)
    BY <1>1 DEF ReadNotification, SendWebhook, RunPcs
  <2>2. RunsOK'
    BY <1>0, <2>1, GotoType
  <2>3. QED
    BY <1>1, <2>2 DEF ReadNotification, SendWebhook, TypeOK, RunsOK
<1>2. CASE AcknowledgeDelivery(w) \/ RecordDeliveryError(w)
  <2>1. "return" \in RunPcs \ {"idle"} /\ Goto(w, "return")
    BY <1>2 DEF AcknowledgeDelivery, RecordDeliveryError, RunPcs
  <2>2. RunsOK'
    BY <1>0, <2>1, GotoType
  <2>3. delivered' \subseteq Rows
    BY <1>0, <1>2 DEF AcknowledgeDelivery, RecordDeliveryError, TypeOK
  <2>4. QED
    BY <1>2, <2>2, <2>3 DEF AcknowledgeDelivery, RecordDeliveryError, TypeOK, RunsOK
<1>3. CASE RunReturns(w)
  <2>1. "completed" \in JobStates /\ Leave(w, "completed")
    BY <1>3 DEF RunReturns, JobStates
  <2>2. /\ RunsOK' /\ jobState' \in [Rows -> JobStates]
        /\ lock' \in [Rows -> Workers \cup {NoWorker}]
    BY <1>0, <2>1, LeaveType
  <2>3. QED
    BY <1>3, <2>2 DEF RunReturns, TypeOK, RunsOK
<1>4. CASE RunThrows(w)
  <2>1. PICK outcome \in JobStates : Leave(w, outcome)
    BY <1>4 DEF RunThrows, JobStates
  <2>2. /\ RunsOK' /\ jobState' \in [Rows -> JobStates]
        /\ lock' \in [Rows -> Workers \cup {NoWorker}]
    BY <1>0, <2>1, LeaveType
  <2>3. attemptsMade' \in [Rows -> Nat] /\ faults' \in Nat
    BY <1>0, <1>4 DEF RunThrows, Fault, TypeOK
  <2>4. UNCHANGED <<rowVars, delivered, drainVars, added, overlapped>>
    BY <1>4 DEF RunThrows
  <2>5. QED
    BY <2>2, <2>3, <2>4 DEF TypeOK, RunsOK
<1>5. CASE RunStalls(w)
  <2>1. RunsOK'
    BY <1>0, <1>5 DEF RunStalls, IdleRun, RunsOK, RunPcs
  <2>2. /\ jobState' \in [Rows -> JobStates]
        /\ lock' \in [Rows -> Workers \cup {NoWorker}] /\ faults' \in Nat
        /\ overlapped' \subseteq Rows
    BY <1>0, <1>5 DEF RunStalls, Fault, TypeOK, JobStates
  <2>3. UNCHANGED <<rowVars, delivered, drainVars, attemptsMade, added>>
    BY <1>5 DEF RunStalls
  <2>4. QED
    BY <2>1, <2>2, <2>3 DEF TypeOK, RunsOK
<1>6. QED
  BY <1>1, <1>2, <1>3, <1>4, <1>5 DEF RunStep

LEMMA StepTypeOK == TypeOK /\ [Next]_vars => TypeOK'
<1> SUFFICES ASSUME TypeOK, [Next]_vars PROVE TypeOK'
  OBVIOUS
<1> USE DEF rowVars, drainVars, queueVars
<1>1. CASE UNCHANGED vars
  BY <1>1 DEF vars, TypeOK
<1>2. ASSUME NEW w \in Workers, NEW n \in Rows, TakeJob(w, n) PROVE TypeOK'
  <2>1. RunsOK'
    BY <1>2, RowsAssumption DEF TakeJob, TypeOK, RunsOK, RunPcs
  <2>2. jobState' \in [Rows -> JobStates] /\ lock' \in [Rows -> Workers \cup {NoWorker}]
    BY <1>2 DEF TakeJob, TypeOK, JobStates
  <2>3. QED
    BY <1>2, <2>1, <2>2 DEF TakeJob, TypeOK, RunsOK
<1>3. ASSUME NEW n \in Rows, BecomeDue(n) \/ EvictJob(n) \/ RetryFailedJob(n) PROVE TypeOK'
  BY <1>3 DEF BecomeDue, EvictJob, RetryFailedJob, TypeOK, JobStates
<1>4. QED
  BY <1>1, <1>2, <1>3, DrainTypeOK, RunTypeOK DEF Next, FaultStep

\* The outbox, the queue, every drain and every run stay well typed.
THEOREM TypeCorrect == Spec => []TypeOK
  BY InitTypeOK, StepTypeOK, PTL DEF Spec

-----------------------------------------------------------------------------
(* A row has one drain at work on it, and what was sent was enqueued.      *)

\* OneDrainPerRow, drain by drain.
OwnersInv ==
  /\ \A s \in Sweepers : drain[s].row # NoRow => status[drain[s].row] = "PROCESSING"
  /\ \A s, t \in Sweepers : drain[s].row # NoRow /\ drain[s].row = drain[t].row => s = t

\* A drain about to record SENT has seen its enqueue return.
SentInv ==
  /\ SentWasEnqueued
  /\ \A s \in Sweepers : drain[s].pc = "sent" => drain[s].row \in added

LEMMA InitOwners == Init => OwnersInv /\ SentInv
  BY RowsAssumption DEF Init, OwnersInv, SentInv, SentWasEnqueued, IdleDrain

\* What any step of another part of the pipeline leaves alone.
LEMMA OthersLeaveDrains ==
  ASSUME TypeOK, [Next]_vars,
         ~ \E s \in Sweepers : DrainStep(s) \/ RecordSentThrows(s) \/ DrainDies(s)
  PROVE  UNCHANGED <<status, drain, added>>
<1> USE DEF rowVars, drainVars, queueVars
<1>1. ASSUME NEW w \in Workers, RunStep(w) \/ RunThrows(w) \/ RunStalls(w)
      PROVE  UNCHANGED <<status, drain, added>>
  BY <1>1 DEF RunStep, ReadNotification, SendWebhook, AcknowledgeDelivery,
     RecordDeliveryError, RunReturns, RunThrows, RunStalls
<1>2. ASSUME NEW n \in Rows,
             \/ BecomeDue(n) \/ EvictJob(n) \/ RetryFailedJob(n)
             \/ \E w \in Workers : TakeJob(w, n)
      PROVE  UNCHANGED <<status, drain, added>>
  BY <1>2 DEF BecomeDue, EvictJob, RetryFailedJob, TakeJob
<1>3. QED
  BY <1>1, <1>2 DEF Next, FaultStep, vars

LEMMA StepOwners ==
  ASSUME TypeOK, OwnersInv, [Next]_vars
  PROVE  OwnersInv'
<1> USE DEF rowVars, drainVars, queueVars
<1>1. CASE UNCHANGED <<status, drain, added>>
  BY <1>1 DEF OwnersInv
<1>2. ASSUME NEW s \in Sweepers, NEW n \in Rows, ClaimRow(s, n) PROVE OwnersInv'
  <2>1. CASE status[n] = "PENDING"
    <3>1. \A t \in Sweepers : drain[t].row # n
      BY <2>1, RowsAssumption DEF OwnersInv
    <3>2. /\ status' = [status EXCEPT ![n] = "PROCESSING"]
          /\ drain'[s].row = n
          /\ \A t \in Sweepers \ {s} : drain'[t] = drain[t]
      BY <1>2, <2>1 DEF ClaimRow, TypeOK
    <3>3. /\ status'[n] = "PROCESSING"
          /\ \A m \in Rows : status[m] = "PROCESSING" => status'[m] = "PROCESSING"
          /\ \A t \in Sweepers : drain[t].row \in Rows \cup {NoRow}
      BY <3>2 DEF TypeOK
    <3>4. \A t \in Sweepers : drain'[t].row # NoRow => status'[drain'[t].row] = "PROCESSING"
      BY <3>2, <3>3 DEF OwnersInv
    <3>5. \A t, u \in Sweepers :
            drain'[t].row # NoRow /\ drain'[t].row = drain'[u].row => t = u
      BY <3>1, <3>2 DEF OwnersInv
    <3>6. QED
      BY <3>4, <3>5 DEF OwnersInv
  <2>2. CASE status[n] # "PENDING"
    <3>1. status' = status /\ drain' = [drain EXCEPT ![s].todo = @ \ {n}]
      BY <1>2, <2>2 DEF ClaimRow
    <3>2. \A t \in Sweepers : drain'[t].row = drain[t].row
      BY <3>1 DEF TypeOK
    <3>3. QED
      BY <3>1, <3>2 DEF OwnersInv
  <2>3. QED
    BY <2>1, <2>2
<1>3. ASSUME NEW s \in Sweepers, RecordSent(s) \/ RecordError(s) PROVE OwnersInv'
  <2> DEFINE n == drain[s].row
  <2>1. n \in Rows
    BY <1>3, OwnedRow DEF RecordSent, RecordError, DrainAt, OwnerPcs
  <2>2. \A m \in Rows \ {n} : status'[m] = status[m]
    BY <1>3, <2>1 DEF RecordSent, RecordError, TypeOK
  <2>3. drain'[s].row = NoRow /\ \A t \in Sweepers \ {s} : drain'[t] = drain[t]
    BY <1>3 DEF RecordSent, RecordError, NextRow, TypeOK
  <2>4. \A t \in Sweepers \ {s} : drain[t].row # n
    BY <2>1, RowsAssumption DEF OwnersInv
  <2>5. \A t \in Sweepers : drain[t].row \in Rows \cup {NoRow}
    BY DEF TypeOK
  <2> HIDE DEF n
  <2>6. \A t \in Sweepers : drain'[t].row # NoRow => status'[drain'[t].row] = "PROCESSING"
    BY <2>2, <2>3, <2>4, <2>5 DEF OwnersInv
  <2>7. QED
    BY <2>3, <2>6 DEF OwnersInv
<1>4. ASSUME NEW s \in Sweepers,
             \/ ReadBatch(s) \/ Enqueue(s) \/ EnqueueThrows(s) \/ EndDrain(s)
             \/ RecordSentThrows(s) \/ DrainDies(s)
      PROVE  OwnersInv'
  <2>1. status' = status
    BY <1>4 DEF ReadBatch, Enqueue, EnqueueThrows, EndDrain, RecordSentThrows, DrainDies
  <2>2. \A t \in Sweepers : drain'[t].row \in {drain[t].row, NoRow}
    <3>1. CASE Enqueue(s) \/ EnqueueThrows(s) \/ RecordSentThrows(s)
      <4>1. \E pc \in DrainPcs : drain' = [drain EXCEPT ![s].pc = pc]
        BY <3>1 DEF Enqueue, EnqueueThrows, RecordSentThrows, DrainPcs
      <4>2. QED
        BY <4>1 DEF TypeOK
    <3>2. CASE ReadBatch(s) \/ EndDrain(s) \/ DrainDies(s)
      <4>1. drain \in [Sweepers -> [pc : DrainPcs, todo : SUBSET Rows, row : Rows \cup {NoRow}]]
        BY DEF TypeOK
      <4>2. CASE ReadBatch(s)
        BY <4>1, <4>2 DEF ReadBatch
      <4>3. CASE EndDrain(s) \/ DrainDies(s)
        BY <4>1, <4>3 DEF EndDrain, DrainDies, IdleDrain
      <4>4. QED
        BY <3>2, <4>2, <4>3
    <3>3. QED
      BY <1>4, <3>1, <3>2
  <2>3. QED
    BY <2>1, <2>2 DEF OwnersInv
<1>5. QED
  BY <1>1, <1>2, <1>3, <1>4, OthersLeaveDrains DEF DrainStep

LEMMA OwnersInvariant == Spec => []OwnersInv
<1>1. Init => OwnersInv
  BY InitOwners
<1>2. TypeOK /\ OwnersInv /\ [Next]_vars => OwnersInv'
  BY StepOwners
<1>3. QED
  BY <1>1, <1>2, TypeCorrect, PTL DEF Spec

\* No two drains are ever at work on a row, through claims, failed enqueues,
\* retries and drains that die.
THEOREM DrainsExclude == Spec => []OneDrainPerRow
<1>1. OwnersInv => OneDrainPerRow
  BY RowsAssumption DEF OwnersInv, OneDrainPerRow, Owners
<1>2. QED
  BY <1>1, OwnersInvariant, PTL

LEMMA StepSent ==
  ASSUME TypeOK, SentInv, [Next]_vars
  PROVE  SentInv'
<1> USE DEF rowVars, drainVars, queueVars
<1>1. CASE UNCHANGED <<status, drain, added>>
  BY <1>1 DEF SentInv, SentWasEnqueued
<1>2. ASSUME NEW s \in Sweepers, RecordSent(s) PROVE SentInv'
  <2>1. drain[s].row \in added
    BY <1>2 DEF RecordSent, DrainAt, SentInv
  <2>2. QED
    BY <1>2, <2>1 DEF RecordSent, NextRow, DrainAt, SentInv, SentWasEnqueued, TypeOK
<1>3. ASSUME NEW s \in Sweepers, Enqueue(s) \/ EnqueueThrows(s) PROVE SentInv'
  <2>1. status' = status /\ added \subseteq added'
    BY <1>3 DEF Enqueue, EnqueueThrows, AddJob
  <2>2. \A t \in Sweepers \ {s} : drain'[t] = drain[t]
    BY <1>3 DEF Enqueue, EnqueueThrows, TypeOK
  <2>3. drain'[s].pc = "sent" => drain'[s].row \in added'
    BY <1>3 DEF Enqueue, EnqueueThrows, AddJob, TypeOK
  <2>4. QED
    BY <2>1, <2>2, <2>3 DEF SentInv, SentWasEnqueued
<1>4. ASSUME NEW s \in Sweepers,
             \/ ReadBatch(s) \/ RecordError(s) \/ EndDrain(s)
             \/ RecordSentThrows(s) \/ DrainDies(s) \/ \E n \in Rows : ClaimRow(s, n)
      PROVE  SentInv'
  <2>1. added' = added
    BY <1>4 DEF ReadBatch, RecordError, EndDrain, RecordSentThrows, DrainDies, ClaimRow
  <2>2. \A n \in Rows : status'[n] = "SENT" => status[n] = "SENT"
    <3>1. CASE RecordError(s)
      BY <3>1 DEF RecordError, TypeOK
    <3>2. CASE ~RecordError(s)
      BY <1>4, <3>2 DEF ReadBatch, EndDrain, RecordSentThrows, DrainDies, ClaimRow, TypeOK
    <3>3. QED
      BY <3>1, <3>2
  <2>3. /\ drain'[s].pc # "sent"
        /\ \A t \in Sweepers \ {s} : drain'[t] = drain[t]
    <3>1. CASE ReadBatch(s) \/ RecordError(s) \/ EndDrain(s)
      BY <3>1 DEF ReadBatch, RecordError, NextRow, EndDrain, IdleDrain, TypeOK
    <3>2. CASE RecordSentThrows(s) \/ DrainDies(s)
      BY <3>2 DEF RecordSentThrows, DrainDies, IdleDrain, TypeOK
    <3>3. ASSUME NEW n \in Rows, ClaimRow(s, n)
          PROVE  /\ drain'[s].pc # "sent"
                 /\ \A t \in Sweepers \ {s} : drain'[t] = drain[t]
      BY <3>3 DEF ClaimRow, DrainAt, TypeOK
    <3>4. QED
      BY <1>4, <3>1, <3>2, <3>3
  <2>4. QED
    BY <2>1, <2>2, <2>3 DEF SentInv, SentWasEnqueued
<1>5. QED
  BY <1>1, <1>2, <1>3, <1>4, OthersLeaveDrains DEF DrainStep

\* A row recorded as SENT has had its dispatch job taken by the queue.
THEOREM SentRowsWereEnqueued == Spec => []SentWasEnqueued
<1>1. Init => SentInv
  BY InitOwners
<1>2. TypeOK /\ SentInv /\ [Next]_vars => SentInv'
  BY StepSent
<1>3. SentInv => SentWasEnqueued
  BY DEF SentInv
<1>4. QED
  BY <1>1, <1>2, <1>3, TypeCorrect, PTL DEF Spec
-----------------------------------------------------------------------------
(* A delivery stands.                                                      *)

\* As long as no run of a row's job outlived its lock, a run holds the lock of its
\* job, so that no two have one notification, and a run about to send, or to
\* record what became of it, has found it undelivered.
LoneRun(n) ==
  n \notin overlapped =>
    /\ jobState[n] # "active" => lock[n] = NoWorker
    /\ \A w \in Workers : run[w].row = n => lock[n] = w
    /\ \A w \in Workers :
         run[w].row = n /\ run[w].pc \in {"send", "acknowledge", "record"} => n \notin delivered

DeliveryInv == \A n \in Rows : LoneRun(n)

LEMMA GotoMoves ==
  ASSUME TypeOK, NEW w \in Workers, NEW pc, Goto(w, pc), NEW v \in Workers
  PROVE  /\ run'[v].row = run[v].row
         /\ run'[v].pc = IF v = w THEN pc ELSE run[v].pc
  BY DEF TypeOK, Goto

\* A run that leaves gives up the lock if it held it, and nobody takes it.
LEMMA LeaveKeepsLone ==
  ASSUME TypeOK, NEW n \in Rows, LoneRun(n), NEW w \in Workers, run[w].row \in Rows,
         NEW outcome, Leave(w, outcome), UNCHANGED <<delivered, overlapped>>
  PROVE  LoneRun(n)'
<1>1. /\ run'[w].row = NoRow /\ \A v \in Workers \ {w} : run'[v] = run[v]
      /\ NoRow # n
  BY RowsAssumption DEF Leave, IdleRun, TypeOK
<1>2. CASE run[w].row # n
  <2>1. jobState'[n] = jobState[n] /\ lock'[n] = lock[n]
    BY <1>2 DEF Leave, TypeOK
  <2>2. QED
    BY <1>1, <2>1 DEF LoneRun
<1>3. CASE run[w].row = n
  <2>1. n \notin overlapped => lock[n] = w
    BY <1>3 DEF LoneRun
  <2>2. n \notin overlapped => \A v \in Workers : run'[v].row # n
    BY <1>1, <2>1 DEF LoneRun
  <2>3. n \notin overlapped => lock'[n] = NoWorker
    BY <1>3, <2>1 DEF Leave, TypeOK
  <2>4. QED
    BY <2>2, <2>3 DEF LoneRun
<1>4. QED
  BY <1>2, <1>3

LEMMA RunKeepsLone ==
  ASSUME TypeOK, NEW n \in Rows, LoneRun(n), NEW w \in Workers,
         RunStep(w) \/ RunThrows(w) \/ RunStalls(w)
  PROVE  LoneRun(n)'
<1> USE DEF queueVars
<1>0. run[w].pc # "idle" /\ run[w].row \in Rows
  BY OwnedRow DEF RunStep, ReadNotification, SendWebhook, AcknowledgeDelivery,
     RecordDeliveryError, RunReturns, RunThrows, RunStalls, RunAt
<1>1. CASE ReadNotification(w) \/ SendWebhook(w)
  <2>1. /\ UNCHANGED <<delivered, jobState, lock, overlapped>>
        /\ \E pc \in {"return", "send", "acknowledge", "record"} :
             /\ Goto(w, pc)
             /\ n \notin overlapped /\ run[w].row = n /\ pc # "return" => n \notin delivered
    BY <1>1 DEF ReadNotification, SendWebhook, RunAt, LoneRun
  <2>2. \A v \in Workers :
          /\ run'[v].row = run[v].row
          /\ n \notin overlapped /\ run[v].row = n
               /\ run'[v].pc \in {"send", "acknowledge", "record"} => n \notin delivered
    BY <2>1, GotoMoves DEF LoneRun
  <2>3. QED
    BY <2>1, <2>2 DEF LoneRun
<1>2. CASE AcknowledgeDelivery(w) \/ RecordDeliveryError(w)
  <2>1. /\ UNCHANGED <<jobState, lock, overlapped>>
        /\ Goto(w, "return")
        /\ delivered' \subseteq delivered \cup {run[w].row}
    BY <1>2 DEF AcknowledgeDelivery, RecordDeliveryError
  <2>2. \A v \in Workers :
          /\ run'[v].row = run[v].row
          /\ n \notin overlapped /\ run[v].row = n
               /\ run'[v].pc \in {"send", "acknowledge", "record"} => n \notin delivered'
    BY <2>1, GotoMoves DEF LoneRun
  <2>3. QED
    BY <2>1, <2>2 DEF LoneRun
<1>3. CASE RunReturns(w) \/ RunThrows(w)
  <2>1. \E outcome : Leave(w, outcome)
    BY <1>3 DEF RunReturns, RunThrows
  <2>2. UNCHANGED <<delivered, overlapped>>
    BY <1>3 DEF RunReturns, RunThrows
  <2>3. QED
    BY <1>0, <2>1, <2>2, LeaveKeepsLone
<1>4. CASE RunStalls(w)
  <2>1. CASE run[w].row # n
    <3>1. /\ delivered' = delivered /\ jobState'[n] = jobState[n] /\ lock'[n] = lock[n]
          /\ n \notin overlapped' => n \notin overlapped
          /\ \A v \in Workers : run'[v] = run[v] \/ run'[v].row = NoRow
      BY <1>4, <2>1 DEF RunStalls, TypeOK, IdleRun
    <3>2. QED
      BY <3>1, RowsAssumption DEF LoneRun
  <2>2. CASE run[w].row = n /\ n \notin overlapped'
    <3>1. /\ delivered' = delivered /\ lock'[n] = NoWorker /\ n \notin overlapped
          /\ run' = [run EXCEPT ![w] = IdleRun]
      BY <1>4, <2>2 DEF RunStalls, TypeOK
    <3>2. \A v \in Workers : run'[v].row # n
      BY <2>2, <3>1, RowsAssumption DEF LoneRun, TypeOK, IdleRun
    <3>3. QED
      BY <3>1, <3>2 DEF LoneRun
  <2>3. QED
    BY <2>1, <2>2 DEF LoneRun
<1>5. QED
  BY <1>1, <1>2, <1>3, <1>4 DEF RunStep

LEMMA StepDelivery ==
  ASSUME TypeOK, DeliveryInv, [Next]_vars
  PROVE  DeliveryInv'
<1> SUFFICES ASSUME NEW n \in Rows, LoneRun(n)
             PROVE  LoneRun(n)'
  BY DEF DeliveryInv
<1> USE DEF queueVars
<1>1. CASE UNCHANGED <<delivered, jobState, lock, run, overlapped>>
  BY <1>1 DEF LoneRun
<1>2. ASSUME NEW s \in Sweepers, DrainStep(s) \/ RecordSentThrows(s) \/ DrainDies(s)
      PROVE  LoneRun(n)'
  <2>1. UNCHANGED <<delivered, lock, run, overlapped>>
    BY <1>2 DEF DrainStep, ReadBatch, ClaimRow, Enqueue, EnqueueThrows, RecordSent, RecordError,
       EndDrain, RecordSentThrows, DrainDies
  <2>2. jobState'[n] # "active" => jobState[n] # "active"
    <3>1. CASE Enqueue(s) \/ EnqueueThrows(s)
      BY <3>1 DEF Enqueue, EnqueueThrows, AddJob, TypeOK
    <3>2. CASE ~(Enqueue(s) \/ EnqueueThrows(s))
      BY <1>2, <3>2 DEF DrainStep, ReadBatch, ClaimRow, RecordSent, RecordError, EndDrain,
         RecordSentThrows, DrainDies
    <3>3. QED
      BY <3>1, <3>2
  <2>3. QED
    BY <2>1, <2>2 DEF LoneRun
<1>3. ASSUME NEW w \in Workers, NEW m \in Rows, TakeJob(w, m)
      PROVE  LoneRun(n)'
  <2>1. /\ UNCHANGED <<delivered, overlapped>>
        /\ jobState[m] = "waiting" /\ jobState'[m] = "active" /\ lock'[m] = w
        /\ n # m => jobState'[n] = jobState[n] /\ lock'[n] = lock[n]
        /\ run'[w] = [pc |-> "read", row |-> m]
        /\ \A v \in Workers \ {w} : run'[v] = run[v]
    BY <1>3 DEF TakeJob, TypeOK
  <2>2. n = m /\ n \notin overlapped => \A v \in Workers : run[v].row # n
    BY <2>1, RowsAssumption DEF LoneRun
  <2>3. QED
    BY <2>1, <2>2 DEF LoneRun
<1>4. ASSUME NEW w \in Workers, RunStep(w) \/ RunThrows(w) \/ RunStalls(w)
      PROVE  LoneRun(n)'
  BY <1>4, RunKeepsLone
<1>5. ASSUME NEW m \in Rows, BecomeDue(m) \/ EvictJob(m) \/ RetryFailedJob(m)
      PROVE  LoneRun(n)'
  <2>1. /\ UNCHANGED <<delivered, lock, run, overlapped>>
        /\ jobState'[n] # "active" => jobState[n] # "active"
    BY <1>5 DEF BecomeDue, EvictJob, RetryFailedJob, TypeOK
  <2>2. QED
    BY <2>1 DEF LoneRun
<1>6. QED
  BY <1>1, <1>2, <1>3, <1>4, <1>5 DEF Next, FaultStep, vars

\* DeliveryStands: whatever throws or dies, delivered_at is cleared only for a
\* notification with a run that went on without its lock.
THEOREM DeliveriesStand == Spec => DeliveryStands
<1>1. Init => DeliveryInv
  BY RowsAssumption DEF Init, DeliveryInv, LoneRun, IdleRun
<1>2. TypeOK /\ DeliveryInv /\ [Next]_vars
        => [\A n \in delivered \ delivered' : n \in overlapped]_vars
  <2> SUFFICES ASSUME TypeOK, DeliveryInv, [Next]_vars, NEW n \in delivered \ delivered'
               PROVE  n \in overlapped
    OBVIOUS
  <2>1. ASSUME NEW w \in Workers, RecordDeliveryError(w)
        PROVE  n \in overlapped
    BY <2>1 DEF RecordDeliveryError, RunAt, DeliveryInv, LoneRun, TypeOK
  <2>2. \E w \in Workers : RecordDeliveryError(w)
    BY DEF Next, vars, DrainStep, ReadBatch, Enqueue, EnqueueThrows, RecordSent, RecordError,
       EndDrain, ClaimRow, TakeJob, RunStep, ReadNotification, SendWebhook, AcknowledgeDelivery,
       RunReturns, BecomeDue, EvictJob, RetryFailedJob, FaultStep, RecordSentThrows,
       DrainDies, RunThrows, RunStalls
  <2>3. QED
    BY <2>1, <2>2
<1>3. QED
  BY <1>1, <1>2, StepDelivery, TypeCorrect, PTL DEF Spec, DeliveryStands

-----------------------------------------------------------------------------
(* What RowsSettle rests on: no claimed row is left to itself.             *)

\* The count of faults never comes back to zero.
LEMMA FaultsLast ==
  ASSUME TypeOK, [Next]_vars, faults' = 0
  PROVE  faults = 0 /\ ~FaultStep
<1>1. ~FaultStep
  BY DEF FaultStep, RecordSentThrows, DrainDies, RunThrows, RunStalls, Fault, TypeOK
<1>2. QED
  BY <1>1 DEF Next, vars, DrainStep, ReadBatch, Enqueue, EnqueueThrows, RecordSent, RecordError,
     EndDrain, ClaimRow, TakeJob, RunStep, ReadNotification, SendWebhook, AcknowledgeDelivery,
     RecordDeliveryError, RunReturns, BecomeDue, EvictJob, RetryFailedJob

\* Until a statement throws or a process dies, a row that was claimed has a
\* drain that will record what became of it.
ClaimedRowHasDrain ==
  faults = 0 => \A n \in Rows : status[n] = "PROCESSING" => Owners(n) # {}

\* The step of one drain, from one row to the next.
LEMMA OwnersStay ==
  ASSUME NEW n \in Rows, NEW s \in Sweepers, Owners(n) # {},
         \A t \in Sweepers \ {s} : drain'[t] = drain[t],
         drain[s].row = n => drain'[s].row = n
  PROVE  Owners(n)' # {}
  BY DEF Owners

LEMMA StepHasDrain ==
  ASSUME TypeOK, ClaimedRowHasDrain, [Next]_vars
  PROVE  ClaimedRowHasDrain'
<1> SUFFICES ASSUME faults' = 0, NEW n \in Rows, status'[n] = "PROCESSING"
             PROVE  Owners(n)' # {}
  BY DEF ClaimedRowHasDrain
<1> USE DEF rowVars, drainVars, queueVars
<1>1. faults = 0 /\ ~FaultStep
  BY FaultsLast
<1>2. status[n] = "PROCESSING" => Owners(n) # {}
  BY <1>1 DEF ClaimedRowHasDrain
<1>3. CASE UNCHANGED <<status, drain, added>>
  BY <1>2, <1>3 DEF Owners
<1>4. ASSUME NEW s \in Sweepers, DrainStep(s) PROVE Owners(n)' # {}
  <2>1. drain[s] \in [pc : DrainPcs, todo : SUBSET Rows, row : Rows \cup {NoRow}]
    BY DEF TypeOK
  <2>2. \A t \in Sweepers \ {s} : drain'[t] = drain[t]
    BY <1>4 DEF DrainStep, ReadBatch, ClaimRow, Enqueue, EnqueueThrows, RecordSent, RecordError,
       NextRow, EndDrain, TypeOK
  <2>3. CASE ReadBatch(s) \/ EndDrain(s)
    <3>1. drain[s].row = NoRow /\ status' = status
      BY <2>3 DEF ReadBatch, EndDrain, DrainAt, OwnerPcs, TypeOK
    <3>2. QED
      BY <1>2, <2>2, <3>1, OwnersStay, RowsAssumption
  <2>4. CASE Enqueue(s) \/ EnqueueThrows(s)
    <3>1. drain'[s].row = drain[s].row /\ status' = status
      BY <2>1, <2>4 DEF Enqueue, EnqueueThrows, TypeOK
    <3>2. QED
      BY <1>2, <2>2, <3>1, OwnersStay
  <2>5. CASE RecordSent(s) \/ RecordError(s)
    <3>1. drain[s].row \in Rows
      BY <2>5, OwnedRow DEF RecordSent, RecordError, DrainAt, OwnerPcs
    <3>2. drain[s].row # n /\ status'[n] = status[n]
      BY <2>5, <3>1 DEF RecordSent, RecordError, TypeOK
    <3>3. QED
      BY <1>2, <2>2, <3>2, OwnersStay
  <2>6. ASSUME NEW m \in Rows, ClaimRow(s, m) PROVE Owners(n)' # {}
    <3>1. drain[s].row = NoRow
      BY <2>6 DEF ClaimRow, DrainAt, OwnerPcs, TypeOK
    <3>2. CASE n = m /\ status[n] = "PENDING"
      <4>1. drain'[s].row = n
        BY <2>6, <3>2 DEF ClaimRow, TypeOK
      <4>2. QED
        BY <4>1 DEF Owners
    <3>3. CASE ~(n = m /\ status[n] = "PENDING")
      <4>1. status'[n] = status[n]
        BY <2>6, <3>3 DEF ClaimRow, TypeOK
      <4>2. QED
        BY <1>2, <2>2, <3>1, <4>1, OwnersStay, RowsAssumption
    <3>4. QED
      BY <3>2, <3>3
  <2>7. QED
    BY <1>4, <2>3, <2>4, <2>5, <2>6 DEF DrainStep
<1>5. QED
  BY <1>1, <1>3, <1>4, OthersLeaveDrains DEF FaultStep

\* ClaimedRowHasDrain, for any number of drains and rows: only a fault leaves
\* a row PROCESSING.
THEOREM ClaimsAreCarriedThrough == Spec => []ClaimedRowHasDrain
<1>1. Init => ClaimedRowHasDrain
  BY DEF Init, ClaimedRowHasDrain
<1>2. QED
  BY <1>1, StepHasDrain, TypeCorrect, PTL DEF Spec
=============================================================================
