------------------------- MODULE RewardPayoutProofs -------------------------
(***************************************************************************)
(* Theorems about RewardPayout, for every set of rows, runs and drains and *)
(* every number of reclaims and faults.                                    *)
(***************************************************************************)
EXTENDS RewardPayout, FiniteSetTheorems, TLAPS

-----------------------------------------------------------------------------
(* Type correctness.                                                       *)

\* A run that is not idle works on a row.
LEMMA BusyRunHasRow ==
  ASSUME TypeOK, NEW w \in Workers, run[w].pc # "idle"
  PROVE  Row(w) \in Payouts
  BY DEF TypeOK, Row

LEMMA GotoType ==
  ASSUME TypeOK, NEW w \in Workers, run[w].pc # "idle",
         NEW pc \in RunPcs \ {"idle"}, Goto(w, pc)
  PROVE  /\ run' \in [Workers -> [pc : RunPcs, payout : Payouts \cup {NoPayout}]]
         /\ \A x \in Workers : run'[x].pc = "idle" <=> run'[x].payout = NoPayout
  BY DEF TypeOK, Goto

LEMMA LeaveType ==
  ASSUME TypeOK, NEW w \in Workers, run[w].pc # "idle",
         NEW outcome \in {"completed", "failed"}, Leave(w, outcome)
  PROVE  /\ jobState' \in [Payouts -> {"none", "waiting", "active", "completed", "failed"}]
         /\ lock' \in [Payouts -> Workers \cup {NoWorker}]
         /\ run' \in [Workers -> [pc : RunPcs, payout : Payouts \cup {NoPayout}]]
         /\ \A x \in Workers : run'[x].pc = "idle" <=> run'[x].payout = NoPayout
<1>1. Row(w) \in Payouts
  BY BusyRunHasRow
<1>2. /\ run' \in [Workers -> [pc : RunPcs, payout : Payouts \cup {NoPayout}]]
      /\ \A x \in Workers : run'[x].pc = "idle" <=> run'[x].payout = NoPayout
  BY DEF TypeOK, Leave, IdleRun, RunPcs
<1>3. /\ jobState' \in [Payouts -> {"none", "waiting", "active", "completed", "failed"}]
      /\ lock' \in [Payouts -> Workers \cup {NoWorker}]
  BY <1>1 DEF TypeOK, Leave, queueVars
<1>4. QED
  BY <1>2, <1>3

LEMMA InitTypeOK == Init => TypeOK
  BY DEF Init, TypeOK, RowStatuses, IdleRun, IdleDrain, NothingSeen, RunPcs, SweepPcs

\* What a drain may do to its own state.
LEMMA DrainStateType ==
  ASSUME TypeOK, NEW s \in Sweepers, NEW d,
         d \in [pc : SweepPcs, todo : SUBSET Payouts, row : Payouts \cup {NoPayout}],
         d.pc \in {"enqueue", "error"} <=> d.row # NoPayout,
         sweeper' = [sweeper EXCEPT ![s] = d]
  PROVE  /\ sweeper' \in [Sweepers -> [pc : SweepPcs, todo : SUBSET Payouts,
                                       row : Payouts \cup {NoPayout}]]
         /\ \A x \in Sweepers :
              sweeper'[x].pc \in {"enqueue", "error"} <=> sweeper'[x].row # NoPayout
  BY DEF TypeOK

\* A drain that is done with a row has none.
LEMMA NextRowType ==
  ASSUME TypeOK, NEW s \in Sweepers, NextRow(s)
  PROVE  /\ sweeper' \in [Sweepers -> [pc : SweepPcs, todo : SUBSET Payouts,
                                       row : Payouts \cup {NoPayout}]]
         /\ \A x \in Sweepers :
              sweeper'[x].pc \in {"enqueue", "error"} <=> sweeper'[x].row # NoPayout
<1> DEFINE d == [pc |-> "pending", todo |-> sweeper[s].todo, row |-> NoPayout]
<1>1. sweeper[s] \in [pc : SweepPcs, todo : SUBSET Payouts, row : Payouts \cup {NoPayout}]
  BY DEF TypeOK
<1>2. sweeper' = [sweeper EXCEPT ![s] = d]
  BY DEF NextRow
<1>3. d \in [pc : SweepPcs, todo : SUBSET Payouts, row : Payouts \cup {NoPayout}]
  BY <1>1 DEF SweepPcs
<1> HIDE DEF d
<1>4. d.pc \notin {"enqueue", "error"} /\ d.row = NoPayout
  BY DEF d
<1>5. QED
  BY <1>2, <1>3, <1>4, DrainStateType

\* Holding a batch of rows.
LEMMA HoldType ==
  ASSUME TypeOK, NEW s \in Sweepers, NEW pc \in {"idle", "pending", "stale"},
         NEW batch \in SUBSET Payouts, Hold(s, pc, batch)
  PROVE  /\ sweeper' \in [Sweepers -> [pc : SweepPcs, todo : SUBSET Payouts,
                                       row : Payouts \cup {NoPayout}]]
         /\ \A x \in Sweepers :
              sweeper'[x].pc \in {"enqueue", "error"} <=> sweeper'[x].row # NoPayout
         /\ seen' \in [Sweepers -> [Payouts -> Nat]]
<1> DEFINE d == [pc |-> pc, todo |-> batch, row |-> NoPayout]
           h == [p \in Payouts |-> IF p \in batch THEN attempts[p] ELSE 0]
<1>1. sweeper' = [sweeper EXCEPT ![s] = d] /\ seen' = [seen EXCEPT ![s] = h]
  BY DEF Hold
<1>2. d \in [pc : SweepPcs, todo : SUBSET Payouts, row : Payouts \cup {NoPayout}]
  BY DEF SweepPcs
<1>3. d.pc \notin {"enqueue", "error"} /\ d.row = NoPayout
  OBVIOUS
<1>4. h \in [Payouts -> Nat]
  BY DEF TypeOK
<1> HIDE DEF d, h
<1>5. seen' \in [Sweepers -> [Payouts -> Nat]]
  BY <1>1, <1>4 DEF TypeOK
<1>6. QED
  BY <1>1, <1>2, <1>3, <1>5, DrainStateType

LEMMA DrainType ==
  ASSUME TypeOK, NEW s \in Sweepers, DrainStep(s)
  PROVE  TypeOK'
<1> USE DEF rowVars, proofVars, queueVars
<1>1. CASE ReadPending(s)
  <2>1. PICK batch \in SUBSET Payouts : Hold(s, "pending", batch)
    BY <1>1 DEF ReadPending, Batches, Waiting, TypeOK
  <2>2. QED
    BY <1>1, <2>1, HoldType DEF ReadPending, TypeOK
<1>2. CASE Enqueue(s)
  <2>1. sweeper[s].row \in Payouts
    BY <1>2 DEF Enqueue, DrainAt, TypeOK
  <2>2. jobState' \in [Payouts -> {"none", "waiting", "active", "completed", "failed"}]
    BY <1>2, <2>1 DEF Enqueue, AddJob, TypeOK
  <2>3. QED
    BY <1>2, <2>2, NextRowType DEF Enqueue, TypeOK
<1>3. CASE EnqueueThrows(s)
  <2>1. sweeper[s].row \in Payouts
    BY <1>3 DEF EnqueueThrows, DrainAt, TypeOK
  <2>2. jobState' \in [Payouts -> {"none", "waiting", "active", "completed", "failed"}]
    BY <1>3, <2>1 DEF EnqueueThrows, AddJob, TypeOK
  <2>3. QED
    BY <1>3, <2>2 DEF EnqueueThrows, TypeOK, SweepPcs, DrainAt
<1>4. CASE RecordEnqueueError(s)
  <2>1. sweeper[s].row \in Payouts
    BY <1>4 DEF RecordEnqueueError, DrainAt, TypeOK
  <2>2. /\ status' \in [Payouts -> RowStatuses]
        /\ attempts' \in [Payouts -> Nat]
        /\ due' \subseteq Payouts
    BY <1>4, <2>1 DEF RecordEnqueueError, TypeOK, RowStatuses
  <2>3. QED
    BY <1>4, <2>2, NextRowType DEF RecordEnqueueError, TypeOK
<1>5. CASE ReadStale(s)
  <2>1. PICK batch \in SUBSET Payouts : Hold(s, "stale", batch)
    BY <1>5 DEF ReadStale, Batches
  <2>2. QED
    BY <1>5, <2>1, HoldType DEF ReadStale, TypeOK
<1>6. CASE EndDrain(s)
  BY <1>6, HoldType DEF EndDrain, TypeOK
<1>7. ASSUME NEW p \in Payouts, ClaimRow(s, p) PROVE TypeOK'
  <2>1. p # NoPayout
    BY PayoutAssumption
  <2>2. QED
    BY <1>7, <2>1 DEF ClaimRow, DrainAt, TypeOK, SweepPcs
<1>8. ASSUME NEW p \in Payouts, ReclaimRow(s, p) PROVE TypeOK'
  <2>1. seen[s][p] \in Nat
    BY DEF TypeOK
  <2>2. status' \in [Payouts -> RowStatuses]
    BY <1>8 DEF ReclaimRow, TypeOK, RowStatuses
  <2>3. attempts' \in [Payouts -> Nat]
    <3>1. CASE attempts' = attempts
      BY <3>1 DEF TypeOK
    <3>2. CASE attempts' = [attempts EXCEPT ![p] = seen[s][p] + 1]
      BY <2>1, <3>2 DEF TypeOK
    <3>3. QED
      BY <1>8, <3>1, <3>2 DEF ReclaimRow
  <2>4. due' \subseteq Payouts /\ reclaims' \in [Payouts -> Nat]
    <3>1. CASE due' = due /\ reclaims' = reclaims
      BY <3>1 DEF TypeOK
    <3>2. CASE due' = due \cup {p} /\ reclaims' = [reclaims EXCEPT ![p] = @ + 1]
      BY <3>2 DEF TypeOK
    <3>3. QED
      BY <1>8, <3>1, <3>2 DEF ReclaimRow
  <2>5. /\ sweeper' \in [Sweepers -> [pc : SweepPcs, todo : SUBSET Payouts,
                                       row : Payouts \cup {NoPayout}]]
        /\ \A x \in Sweepers :
             sweeper'[x].pc \in {"enqueue", "error"} <=> sweeper'[x].row # NoPayout
    BY <1>8 DEF ReclaimRow, TypeOK
  <2>6. QED
    BY <1>8, <2>2, <2>3, <2>4, <2>5 DEF ReclaimRow, TypeOK
<1>9. QED
  BY <1>1, <1>2, <1>3, <1>4, <1>5, <1>6, <1>7, <1>8 DEF DrainStep

LEMMA RunType ==
  ASSUME TypeOK, NEW w \in Workers, RunStep(w)
  PROVE  TypeOK'
<1>1. run[w].pc # "idle"
  BY DEF RunStep, ClaimPayout, CheckProof, PaySucceeds, PayThrows, RecordPaid,
         RecordRefusal, RecordFailure, RunReturns, RunAt
<1>2. Row(w) \in Payouts
  BY <1>1, BusyRunHasRow
<1> USE DEF rowVars, proofVars, queueVars, drainVars
<1>3. CASE ClaimPayout(w)
  <2>1. PICK pc \in {"check", "return"} : Goto(w, pc)
    BY <1>3 DEF ClaimPayout
  <2>2. status' \in [Payouts -> RowStatuses]
    BY <1>2, <1>3 DEF ClaimPayout, TypeOK, RowStatuses
  <2>3. QED
    BY <1>1, <1>3, <2>1, <2>2, GotoType DEF ClaimPayout, TypeOK, RunPcs
<1>4. CASE CheckProof(w)
  <2>1. PICK pc \in {"pay", "refuse"} : Goto(w, pc)
    BY <1>4 DEF CheckProof
  <2>2. QED
    BY <1>1, <1>4, <2>1, GotoType DEF CheckProof, TypeOK, RunPcs
<1>5. CASE PaySucceeds(w)
  <2>1. Goto(w, "record") /\ payments' \in [Payouts -> Nat]
    BY <1>2, <1>5 DEF PaySucceeds, Pay, TypeOK
  <2>2. QED
    BY <1>1, <1>5, <2>1, GotoType DEF PaySucceeds, TypeOK, RunPcs
<1>6. CASE PayThrows(w)
  <2>1. Goto(w, "fail") /\ payments' \in [Payouts -> Nat]
    BY <1>2, <1>6 DEF PayThrows, Pay, TypeOK
  <2>2. QED
    BY <1>1, <1>6, <2>1, GotoType DEF PayThrows, TypeOK, RunPcs
<1>7. CASE RecordPaid(w)
  <2>1. /\ Goto(w, "return")
        /\ status' \in [Payouts -> RowStatuses]
        /\ rewarded' \subseteq Payouts
    BY <1>2, <1>7 DEF RecordPaid, TypeOK, RowStatuses
  <2>2. QED
    BY <1>1, <1>7, <2>1, GotoType DEF RecordPaid, TypeOK, RunPcs
<1>8. CASE RecordRefusal(w)
  <2>1. Leave(w, "failed") /\ status' \in [Payouts -> RowStatuses]
    BY <1>2, <1>8 DEF RecordRefusal, TypeOK, RowStatuses
  <2>2. QED
    BY <1>1, <1>8, <2>1, LeaveType DEF RecordRefusal, TypeOK
<1>9. CASE RecordFailure(w)
  <2>1. /\ Leave(w, "failed")
        /\ status' \in [Payouts -> RowStatuses]
        /\ attempts' \in [Payouts -> Nat]
    BY <1>2, <1>9 DEF RecordFailure, TypeOK, RowStatuses
  <2>2. QED
    BY <1>1, <1>9, <2>1, LeaveType DEF RecordFailure, TypeOK
<1>10. CASE RunReturns(w)
  <2>1. Leave(w, "completed")
    BY <1>10 DEF RunReturns
  <2>2. QED
    BY <1>1, <1>10, <2>1, LeaveType DEF RunReturns, TypeOK
<1>11. QED
  BY <1>3, <1>4, <1>5, <1>6, <1>7, <1>8, <1>9, <1>10 DEF RunStep

LEMMA TakeJobType ==
  ASSUME TypeOK, NEW w \in Workers, NEW p \in Payouts, TakeJob(w, p)
  PROVE  TypeOK'
<1>1. p # NoPayout
  BY PayoutAssumption
<1>2. QED
  BY <1>1 DEF TakeJob, TypeOK, RunPcs, rowVars, proofVars, drainVars

LEMMA FaultType ==
  ASSUME TypeOK, FaultStep
  PROVE  TypeOK'
<1> USE DEF rowVars, proofVars, queueVars, drainVars
<1>1. ASSUME NEW w \in Workers, RunThrows(w) PROVE TypeOK'
  <2>1. run[w].pc # "idle" /\ Leave(w, "failed") /\ faults' \in Nat
    BY <1>1 DEF RunThrows, TypeOK
  <2>2. QED
    BY <1>1, <2>1, LeaveType DEF RunThrows, TypeOK
<1>2. ASSUME NEW w \in Workers, RunStalls(w) PROVE TypeOK'
  <2>1. Row(w) \in Payouts
    BY <1>2, BusyRunHasRow DEF RunStalls
  <2>2. /\ run' \in [Workers -> [pc : RunPcs, payout : Payouts \cup {NoPayout}]]
        /\ \A x \in Workers : run'[x].pc = "idle" <=> run'[x].payout = NoPayout
    <3>1. CASE run' = run
      BY <3>1 DEF TypeOK
    <3>2. CASE run' = [run EXCEPT ![w] = IdleRun]
      BY <3>2 DEF TypeOK, IdleRun, RunPcs
    <3>3. QED
      BY <1>2, <3>1, <3>2 DEF RunStalls
  <2>3. /\ jobState' \in [Payouts -> {"none", "waiting", "active", "completed", "failed"}]
        /\ lock' \in [Payouts -> Workers \cup {NoWorker}]
        /\ faults' \in Nat
    BY <1>2, <2>1 DEF RunStalls, TypeOK
  <2>4. QED
    BY <1>2, <2>2, <2>3 DEF RunStalls, TypeOK
<1>3. ASSUME NEW s \in Sweepers, DrainThrows(s) PROVE TypeOK'
  <2>1. faults' \in Nat
    BY <1>3 DEF DrainThrows, TypeOK
  <2>2. QED
    BY <1>3, <2>1, HoldType DEF DrainThrows, TypeOK
<1>4. QED
  BY <1>1, <1>2, <1>3 DEF FaultStep

LEMMA EnvironmentType ==
  ASSUME TypeOK, TimeStep \/ OperatorStep
  PROVE  TypeOK'
<1> USE DEF rowVars, proofVars, queueVars, drainVars, TypeOK
<1>1. ASSUME NEW p \in Payouts, BecomeDue(p) \/ GrowOld(p) PROVE TypeOK'
  BY <1>1 DEF BecomeDue, GrowOld
<1>2. ASSUME NEW p \in Payouts, EvictJob(p) \/ RetryFailedJob(p) \/ LoseApproval(p)
      PROVE  TypeOK'
  BY <1>2 DEF EvictJob, RetryFailedJob, LoseApproval
<1>3. QED
  BY <1>1, <1>2 DEF TimeStep, OperatorStep

LEMMA StepTypeOK == TypeOK /\ [Next]_vars => TypeOK'
<1> SUFFICES ASSUME TypeOK, [Next]_vars PROVE TypeOK'
  OBVIOUS
<1>1. CASE UNCHANGED vars
  BY <1>1 DEF vars, rowVars, proofVars, queueVars, drainVars, TypeOK
<1>2. CASE Next
  BY <1>2, DrainType, RunType, TakeJobType, FaultType, EnvironmentType DEF Next
<1>3. QED
  BY <1>1, <1>2

\* The tables, the queue and every run and drain stay well formed.
THEOREM TypeCorrect == Spec => []TypeOK
<1>1. QED
  BY InitTypeOK, StepTypeOK, PTL DEF Spec

-----------------------------------------------------------------------------
(* No payment without a claim of its own.  A row's PENDING status is the   *)
(* right to one more payment: a claim hands it to a run, the run turns it  *)
(* into a payment, and only a reclaim creates another.                     *)

Unspent(p) == IF status[p] = "PENDING" THEN 1 ELSE 0

Budget(p) == payments[p] + Cardinality(Payers(p)) + Unspent(p) <= 1 + reclaims[p]

BudgetInv == \A p \in Payouts : Budget(p)

LEMMA PayersFinite ==
  ASSUME NEW p
  PROVE  IsFiniteSet(Payers(p)) /\ Cardinality(Payers(p)) \in Nat
<1>1. Payers(p) \subseteq Workers
  BY DEF Payers
<1>2. QED
  BY <1>1, PayoutAssumption, FS_Subset, FS_CardinalityType

LEMMA NextPayersFinite ==
  ASSUME NEW p
  PROVE  IsFiniteSet(Payers(p)') /\ Cardinality(Payers(p)') \in Nat
<1>1. Payers(p)' \subseteq Workers
  BY DEF Payers
<1>2. QED
  BY <1>1, PayoutAssumption, FS_Subset, FS_CardinalityType

\* A step is quiet for a row when it pays nothing, adds no payer and does not
\* make the row PENDING.
QuietFor(p) ==
  /\ payments'[p] = payments[p]
  /\ reclaims'[p] = reclaims[p]
  /\ Payers(p)' \subseteq Payers(p)
  /\ status'[p] = "PENDING" => status[p] = "PENDING"

LEMMA QuietKeepsBudget ==
  ASSUME TypeOK, NEW p \in Payouts, Budget(p), QuietFor(p)
  PROVE  Budget(p)'
<1>1. Cardinality(Payers(p)') <= Cardinality(Payers(p))
  BY PayersFinite, FS_Subset DEF QuietFor
<1>2. Cardinality(Payers(p)') \in Nat /\ Cardinality(Payers(p)) \in Nat
  BY PayersFinite, NextPayersFinite
<1>3. payments[p] \in Nat /\ reclaims[p] \in Nat
  BY DEF TypeOK
<1>4. Unspent(p)' <= Unspent(p) /\ Unspent(p)' \in Nat /\ Unspent(p) \in Nat
  BY DEF Unspent, QuietFor
<1>5. payments'[p] = payments[p] /\ reclaims'[p] = reclaims[p]
  BY DEF QuietFor
<1>6. QED
  BY <1>1, <1>2, <1>3, <1>4, <1>5 DEF Budget

\* A run that goes to a point from which it does not pay adds no payer.
LEMMA LeavingPayers ==
  ASSUME TypeOK, NEW w \in Workers, NEW p,
         NEW r, r.pc \notin {"check", "pay"}, run' = [run EXCEPT ![w] = r]
  PROVE  Payers(p)' \subseteq Payers(p) \ {w}
<1>1. \A x \in Workers : run'[x] = IF x = w THEN r ELSE run[x]
  BY DEF TypeOK
<1>2. QED
  BY <1>1 DEF Payers, Row

LEMMA GotoPayers ==
  ASSUME TypeOK, NEW w \in Workers, NEW p, NEW pc,
         pc \notin {"check", "pay"}, Goto(w, pc)
  PROVE  Payers(p)' \subseteq Payers(p) \ {w}
<1> DEFINE r == [run[w] EXCEPT !.pc = pc]
<1>1. run[w] \in [pc : RunPcs, payout : Payouts \cup {NoPayout}]
  BY DEF TypeOK
<1>2. r.pc = pc
  BY <1>1
<1>3. run' = [run EXCEPT ![w] = r]
  BY DEF Goto
<1>4. QED
  BY <1>2, <1>3, LeavingPayers

LEMMA LeavePayers ==
  ASSUME TypeOK, NEW w \in Workers, NEW p, NEW outcome, Leave(w, outcome)
  PROVE  Payers(p)' \subseteq Payers(p)
<1>1. run' = [run EXCEPT ![w] = IdleRun] /\ IdleRun.pc = "idle"
  BY DEF Leave, IdleRun
<1>2. QED
  BY <1>1, LeavingPayers

LEMMA SameRunsSamePayers ==
  ASSUME NEW p, run' = run
  PROVE  Payers(p)' = Payers(p)
  BY DEF Payers, Row

LEMMA ReclaimKeepsBudget ==
  ASSUME TypeOK, BudgetInv, NEW s \in Sweepers, NEW p \in Payouts, ReclaimRow(s, p),
         NEW q \in Payouts
  PROVE  Budget(q)'
<1>1. payments' = payments /\ Payers(q)' = Payers(q)
  BY SameRunsSamePayers DEF ReclaimRow
<1>2. CASE q # p \/ seen[s][p] >= MaxAttempts
  <2>1. QuietFor(q)
    BY <1>1, <1>2 DEF ReclaimRow, QuietFor, TypeOK
  <2>2. QED
    BY <2>1, QuietKeepsBudget DEF BudgetInv
<1>3. CASE q = p /\ ~(seen[s][p] >= MaxAttempts)
  <2>1. reclaims'[q] = reclaims[q] + 1
    BY <1>3 DEF ReclaimRow, TypeOK
  <2>2. /\ Unspent(q) \in {0, 1} /\ Unspent(q)' \in {0, 1}
        /\ reclaims[q] \in Nat /\ payments[q] \in Nat
        /\ Cardinality(Payers(q)) \in Nat
    BY PayersFinite DEF Unspent, TypeOK
  <2>3. Budget(q)
    BY DEF BudgetInv
  <2>4. QED
    BY <1>1, <2>1, <2>2, <2>3 DEF Budget
<1>4. QED
  BY <1>2, <1>3

LEMMA DrainKeepsBudget ==
  ASSUME TypeOK, BudgetInv, NEW s \in Sweepers, DrainStep(s), NEW q \in Payouts
  PROVE  Budget(q)'
<1> USE DEF rowVars
<1>1. ASSUME NEW p \in Payouts, ReclaimRow(s, p) PROVE Budget(q)'
  BY <1>1, ReclaimKeepsBudget
<1>2. CASE RecordEnqueueError(s)
  <2>1. sweeper[s].row \in Payouts
    BY <1>2 DEF RecordEnqueueError, DrainAt, TypeOK
  <2>2. QuietFor(q)
    BY <1>2, <2>1, SameRunsSamePayers DEF RecordEnqueueError, QuietFor, TypeOK
  <2>3. QED
    BY <2>2, QuietKeepsBudget DEF BudgetInv
<1>3. CASE ~RecordEnqueueError(s) /\ \A p \in Payouts : ~ReclaimRow(s, p)
  <2>1. payments' = payments /\ reclaims' = reclaims /\ run' = run /\ status' = status
    BY <1>3 DEF DrainStep, ReadPending, Enqueue, EnqueueThrows, ReadStale, EndDrain, ClaimRow
  <2>2. QuietFor(q)
    BY <2>1, SameRunsSamePayers DEF QuietFor
  <2>3. QED
    BY <2>2, QuietKeepsBudget DEF BudgetInv
<1>4. QED
  BY <1>1, <1>2, <1>3

LEMMA ClaimKeepsBudget ==
  ASSUME TypeOK, BudgetInv, NEW w \in Workers, ClaimPayout(w), NEW q \in Payouts
  PROVE  Budget(q)'
<1>1. Row(w) \in Payouts /\ run[w].pc = "claim"
  BY BusyRunHasRow DEF ClaimPayout, RunAt
<1>2. payments' = payments /\ reclaims' = reclaims
  BY DEF ClaimPayout
<1>3. CASE status[Row(w)] # "PENDING"
  <2>1. Goto(w, "return") /\ status' = status
    BY <1>3 DEF ClaimPayout
  <2>2. QuietFor(q)
    BY <1>2, <2>1, GotoPayers DEF QuietFor
  <2>3. QED
    BY <2>2, QuietKeepsBudget DEF BudgetInv
<1>4. CASE status[Row(w)] = "PENDING"
  <2>1. Goto(w, "check") /\ status' = [status EXCEPT ![Row(w)] = "PROCESSING"]
    BY <1>4 DEF ClaimPayout
  <2>2. \A x \in Workers : x # w => run'[x] = run[x]
    BY <2>1 DEF Goto, TypeOK
  <2>3. run'[w].pc = "check" /\ run'[w].payout = run[w].payout
    BY <2>1 DEF Goto, TypeOK
  <2>4. CASE q # Row(w)
    <3>1. Payers(q)' = Payers(q)
      BY <2>2, <2>3, <2>4 DEF Payers, Row
    <3>2. QuietFor(q)
      BY <1>2, <2>1, <2>4, <3>1 DEF QuietFor, TypeOK
    <3>3. QED
      BY <3>2, QuietKeepsBudget DEF BudgetInv
  <2>5. CASE q = Row(w)
    <3>1. Payers(q)' = Payers(q) \cup {w} /\ w \notin Payers(q)
      BY <1>1, <2>2, <2>3, <2>5 DEF Payers, Row
    <3>2. Cardinality(Payers(q)') = Cardinality(Payers(q)) + 1
      BY <3>1, PayersFinite, FS_AddElement
    <3>3. Unspent(q) = 1 /\ Unspent(q)' = 0
      BY <1>1, <1>4, <2>1, <2>5 DEF Unspent, TypeOK
    <3>4. /\ Cardinality(Payers(q)) \in Nat
          /\ payments[q] \in Nat /\ reclaims[q] \in Nat
          /\ Budget(q)
      BY PayersFinite DEF TypeOK, BudgetInv
    <3>5. QED
      BY <1>2, <3>2, <3>3, <3>4 DEF Budget
  <2>6. QED
    BY <2>4, <2>5
<1>5. QED
  BY <1>3, <1>4

LEMMA PayKeepsBudget ==
  ASSUME TypeOK, BudgetInv, NEW w \in Workers, PaySucceeds(w) \/ PayThrows(w),
         NEW q \in Payouts
  PROVE  Budget(q)'
<1>1. Row(w) \in Payouts /\ run[w].pc = "pay"
  BY BusyRunHasRow DEF PaySucceeds, PayThrows, RunAt
<1>2. status' = status /\ reclaims' = reclaims
  BY DEF PaySucceeds, PayThrows, rowVars
<1>3. Payers(q)' \subseteq Payers(q) \ {w}
  BY GotoPayers DEF PaySucceeds, PayThrows
<1>4. CASE q # Row(w) \/ payments' = payments
  <2>1. payments'[q] = payments[q]
    BY <1>4 DEF PaySucceeds, PayThrows, Pay, TypeOK
  <2>2. QuietFor(q)
    BY <1>2, <1>3, <2>1 DEF QuietFor
  <2>3. QED
    BY <2>2, QuietKeepsBudget DEF BudgetInv
<1>5. CASE q = Row(w) /\ payments' # payments
  <2>1. payments'[q] = payments[q] + 1
    BY <1>5 DEF PaySucceeds, PayThrows, Pay, TypeOK
  <2>2. w \in Payers(q)
    BY <1>1, <1>5 DEF Payers
  <2>3. Cardinality(Payers(q) \ {w}) = Cardinality(Payers(q)) - 1
    BY <2>2, PayersFinite, FS_RemoveElement
  <2>4. IsFiniteSet(Payers(q) \ {w})
    BY PayersFinite, FS_Subset
  <2>5. Cardinality(Payers(q)') <= Cardinality(Payers(q)) - 1
    BY <1>3, <2>3, <2>4, FS_Subset
  <2>6. Unspent(q)' = Unspent(q) /\ Unspent(q) \in Nat
    BY <1>2 DEF Unspent
  <2>7. /\ Cardinality(Payers(q)) \in Nat /\ Cardinality(Payers(q)') \in Nat
        /\ payments[q] \in Nat /\ reclaims[q] \in Nat
        /\ Budget(q)
    BY PayersFinite, NextPayersFinite DEF TypeOK, BudgetInv
  <2>8. QED
    BY <1>2, <2>1, <2>5, <2>6, <2>7 DEF Budget
<1>6. QED
  BY <1>4, <1>5

LEMMA RunKeepsBudget ==
  ASSUME TypeOK, BudgetInv, NEW w \in Workers, RunStep(w), NEW q \in Payouts
  PROVE  Budget(q)'
<1>1. CASE ClaimPayout(w)
  BY <1>1, ClaimKeepsBudget
<1>2. CASE PaySucceeds(w) \/ PayThrows(w)
  BY <1>2, PayKeepsBudget
<1>3. CASE CheckProof(w)
  <2>1. Payers(q)' \subseteq Payers(q)
    BY <1>3 DEF CheckProof, RunAt, Goto, Payers, Row, TypeOK
  <2>2. QuietFor(q)
    BY <1>3, <2>1 DEF CheckProof, QuietFor, rowVars
  <2>3. QED
    BY <2>2, QuietKeepsBudget DEF BudgetInv
<1>4. CASE RecordPaid(w)
  <2>1. Payers(q)' \subseteq Payers(q)
    BY <1>4, GotoPayers DEF RecordPaid
  <2>2. QuietFor(q)
    BY <1>4, <2>1 DEF RecordPaid, QuietFor, TypeOK
  <2>3. QED
    BY <2>2, QuietKeepsBudget DEF BudgetInv
<1>5. CASE RecordRefusal(w) \/ RecordFailure(w)
  <2>1. Payers(q)' \subseteq Payers(q)
    BY <1>5, LeavePayers DEF RecordRefusal, RecordFailure
  <2>2. QuietFor(q)
    BY <1>5, <2>1 DEF RecordRefusal, RecordFailure, QuietFor, TypeOK
  <2>3. QED
    BY <2>2, QuietKeepsBudget DEF BudgetInv
<1>6. CASE RunReturns(w)
  <2>1. QuietFor(q)
    BY <1>6, LeavePayers DEF RunReturns, QuietFor, rowVars
  <2>2. QED
    BY <2>1, QuietKeepsBudget DEF BudgetInv
<1>7. QED
  BY <1>1, <1>2, <1>3, <1>4, <1>5, <1>6 DEF RunStep

LEMMA OtherKeepsBudget ==
  ASSUME TypeOK, BudgetInv, NEW q \in Payouts,
         \/ \E w \in Workers, p \in Payouts : TakeJob(w, p)
         \/ FaultStep \/ TimeStep \/ OperatorStep
  PROVE  Budget(q)'
<1>1. payments' = payments /\ reclaims' = reclaims /\ status' = status
  BY DEF TakeJob, FaultStep, RunThrows, RunStalls, DrainThrows, TimeStep, BecomeDue,
         GrowOld, OperatorStep, EvictJob, RetryFailedJob, LoseApproval, rowVars
<1>2. Payers(q)' \subseteq Payers(q)
  <2>1. ASSUME NEW w \in Workers, NEW p \in Payouts, TakeJob(w, p)
        PROVE  Payers(q)' \subseteq Payers(q)
    BY <2>1, LeavingPayers DEF TakeJob
  <2>2. ASSUME NEW w \in Workers, RunThrows(w) PROVE Payers(q)' \subseteq Payers(q)
    BY <2>2, LeavePayers DEF RunThrows
  <2>3. ASSUME NEW w \in Workers, RunStalls(w) PROVE Payers(q)' \subseteq Payers(q)
    BY <2>3, LeavingPayers, SameRunsSamePayers DEF RunStalls, IdleRun
  <2>4. CASE run' = run
    BY <2>4, SameRunsSamePayers
  <2>5. QED
    BY <2>1, <2>2, <2>3, <2>4
    DEF FaultStep, DrainThrows, TimeStep, BecomeDue, GrowOld, OperatorStep, EvictJob,
        RetryFailedJob, LoseApproval
<1>3. QuietFor(q)
  BY <1>1, <1>2 DEF QuietFor
<1>4. QED
  BY <1>3, QuietKeepsBudget DEF BudgetInv

LEMMA InitBudget == Init => BudgetInv
<1> SUFFICES ASSUME Init, NEW p \in Payouts PROVE Budget(p)
  BY DEF BudgetInv
<1>1. Payers(p) = {}
  BY DEF Init, Payers, IdleRun
<1>2. Cardinality(Payers(p)) = 0
  BY <1>1, FS_EmptySet
<1>3. QED
  BY <1>2 DEF Init, Budget, Unspent

LEMMA StepBudget == TypeOK /\ BudgetInv /\ [Next]_vars => BudgetInv'
<1> SUFFICES ASSUME TypeOK, BudgetInv, [Next]_vars, NEW q \in Payouts PROVE Budget(q)'
  BY DEF BudgetInv
<1>1. CASE UNCHANGED vars
  <2>1. QuietFor(q)
    BY <1>1, SameRunsSamePayers DEF vars, rowVars, QuietFor
  <2>2. QED
    BY <2>1, QuietKeepsBudget DEF BudgetInv
<1>2. CASE Next
  BY <1>2, DrainKeepsBudget, RunKeepsBudget, OtherKeepsBudget DEF Next
<1>3. QED
  BY <1>1, <1>2

\* Payments on the Stellar network never outnumber the claims of the row: one,
\* and one more for each reset by a sweeper, whatever stalls, is redelivered,
\* enqueued twice or retried by hand.
THEOREM PaymentsHaveClaims == Spec => []PaymentsAreClaimed
<1>1. TypeOK /\ BudgetInv => PaymentsAreClaimed
  <2> SUFFICES ASSUME TypeOK, BudgetInv, NEW p \in Payouts
               PROVE  payments[p] + Cardinality(Payers(p)) <= 1 + reclaims[p]
    BY DEF PaymentsAreClaimed
  <2>1. Budget(p) /\ payments[p] \in Nat /\ reclaims[p] \in Nat
    BY DEF BudgetInv, TypeOK
  <2>2. Cardinality(Payers(p)) \in Nat /\ Unspent(p) \in Nat
    BY PayersFinite DEF Unspent
  <2>3. QED
    BY <2>1, <2>2 DEF Budget
<1>2. QED
  BY <1>1, InitBudget, StepBudget, TypeCorrect, PTL DEF Spec

-----------------------------------------------------------------------------
(* What the tables say was paid, was paid.                                 *)

\* A run that is about to record a payment has made one.
RecordersPaid == \A w \in Workers : run[w].pc = "record" => payments[Row(w)] > 0

SentInv == PaidWasSent /\ RecordersPaid

\* Steps that only ever add payments, write no PAID and record nothing.
LEMMA PaymentsOnlyGrow ==
  ASSUME TypeOK, NEW p \in Payouts, payments' = payments \/ (\E x \in Payouts : Pay(x))
  PROVE  payments[p] > 0 => payments'[p] > 0
  BY DEF TypeOK, Pay

LEMMA StepPayments ==
  ASSUME TypeOK, Next
  PROVE  payments' = payments \/ \E x \in Payouts : Pay(x)
<1>1. ASSUME NEW w \in Workers, RunStep(w)
      PROVE  payments' = payments \/ \E x \in Payouts : Pay(x)
  <2>1. CASE PaySucceeds(w) \/ PayThrows(w)
    BY <2>1, BusyRunHasRow DEF PaySucceeds, PayThrows, RunAt
  <2>2. QED
    BY <1>1, <2>1 DEF RunStep, ClaimPayout, CheckProof, RecordPaid, RecordRefusal,
       RecordFailure, RunReturns
<1>2. ASSUME NEW s \in Sweepers, DrainStep(s) PROVE payments' = payments
  BY <1>2 DEF DrainStep, ReadPending, Enqueue, EnqueueThrows, RecordEnqueueError,
     ReadStale, EndDrain, ClaimRow, ReclaimRow
<1>3. QED
  BY <1>1, <1>2 DEF Next, TakeJob, FaultStep, RunThrows, RunStalls, DrainThrows, TimeStep,
     BecomeDue, GrowOld, OperatorStep, EvictJob, RetryFailedJob, LoseApproval

\* Only the transaction after a payment writes PAID and rewarded_at.
LEMMA OnlyRecordPaidPays ==
  ASSUME TypeOK, Next, NEW p \in Payouts, status'[p] = "PAID" \/ p \in rewarded'
  PROVE  \/ status[p] = "PAID" \/ p \in rewarded
         \/ \E w \in Workers : RecordPaid(w) /\ Row(w) = p
<1> DEFINE Done == \/ status[p] = "PAID" \/ p \in rewarded
                   \/ \E w \in Workers : RecordPaid(w) /\ Row(w) = p
<1>1. CASE status' = status /\ rewarded' = rewarded
  BY <1>1
<1>2. ASSUME NEW w \in Workers, RunStep(w) PROVE Done
  <2>1. run[w].pc # "idle"
    BY <1>2 DEF RunStep, ClaimPayout, CheckProof, PaySucceeds, PayThrows, RecordPaid,
       RecordRefusal, RecordFailure, RunReturns, RunAt
  <2>2. Row(w) \in Payouts
    BY <2>1, BusyRunHasRow
  <2>3. CASE RecordPaid(w)
    BY <2>2, <2>3 DEF RecordPaid, TypeOK
  <2>4. CASE ClaimPayout(w) \/ RecordRefusal(w) \/ RecordFailure(w)
    BY <2>2, <2>4 DEF ClaimPayout, RecordRefusal, RecordFailure, TypeOK, proofVars
  <2>5. CASE CheckProof(w) \/ PaySucceeds(w) \/ PayThrows(w) \/ RunReturns(w)
    BY <1>1, <2>5 DEF CheckProof, PaySucceeds, PayThrows, RunReturns, rowVars, proofVars
  <2>6. QED
    BY <1>2, <2>3, <2>4, <2>5 DEF RunStep
<1>3. ASSUME NEW s \in Sweepers, DrainStep(s) PROVE Done
  <2>1. CASE RecordEnqueueError(s)
    BY <2>1 DEF RecordEnqueueError, TypeOK, proofVars
  <2>2. ASSUME NEW x \in Payouts, ReclaimRow(s, x) PROVE Done
    BY <2>2 DEF ReclaimRow, TypeOK, proofVars
  <2>3. CASE ~RecordEnqueueError(s) /\ \A x \in Payouts : ~ReclaimRow(s, x)
    BY <1>1, <1>3, <2>3 DEF DrainStep, ReadPending, Enqueue, EnqueueThrows, ReadStale,
       EndDrain, ClaimRow, rowVars, proofVars
  <2>4. QED
    BY <2>1, <2>2, <2>3
<1>4. CASE \/ \E w \in Workers, x \in Payouts : TakeJob(w, x)
           \/ FaultStep \/ TimeStep \/ OperatorStep
  BY <1>1, <1>4 DEF TakeJob, FaultStep, RunThrows, RunStalls, DrainThrows, TimeStep,
     BecomeDue, GrowOld, OperatorStep, EvictJob, RetryFailedJob, LoseApproval, rowVars,
     proofVars
<1>5. QED
  BY <1>2, <1>3, <1>4 DEF Next

\* A run is about to record a payment only when it has just made it.
LEMMA OnlyPayersRecord ==
  ASSUME TypeOK, Next, NEW w \in Workers, run'[w].pc = "record"
  PROVE  run'[w] = run[w] \/ PaySucceeds(w)
<1>1. CASE run' = run
  BY <1>1
<1>2. ASSUME NEW x \in Workers, RunStep(x) PROVE run'[w] = run[w] \/ PaySucceeds(w)
  <2>1. CASE x # w
    BY <1>2, <2>1 DEF RunStep, ClaimPayout, CheckProof, PaySucceeds, PayThrows,
       RecordPaid, RecordRefusal, RecordFailure, RunReturns, Goto, Leave, TypeOK
  <2>2. CASE x = w
    <3>1. run[w] \in [pc : RunPcs, payout : Payouts \cup {NoPayout}]
      BY DEF TypeOK
    <3>2. \A pc : Goto(w, pc) => run'[w].pc = pc
      BY <3>1 DEF Goto, TypeOK
    <3>3. \A outcome : Leave(w, outcome) => run'[w].pc = "idle"
      BY DEF Leave, IdleRun, TypeOK
    <3>4. QED
      BY <1>2, <2>2, <3>2, <3>3 DEF RunStep, ClaimPayout, CheckProof, PayThrows,
         RecordPaid, RecordRefusal, RecordFailure, RunReturns
  <2>3. QED
    BY <2>1, <2>2
<1>3. ASSUME NEW x \in Workers,
             (\E p \in Payouts : TakeJob(x, p)) \/ RunThrows(x) \/ RunStalls(x)
      PROVE  run'[w] = run[w]
  BY <1>3 DEF TakeJob, RunThrows, RunStalls, Leave, IdleRun, TypeOK
<1>4. ASSUME NEW s \in Sweepers, DrainStep(s) \/ DrainThrows(s) PROVE run' = run
  BY <1>4 DEF DrainStep, ReadPending, Enqueue, EnqueueThrows, RecordEnqueueError,
     ReadStale, EndDrain, ClaimRow, ReclaimRow, DrainThrows
<1>5. QED
  BY <1>1, <1>2, <1>3, <1>4 DEF Next, FaultStep, TimeStep, BecomeDue, GrowOld,
     OperatorStep, EvictJob, RetryFailedJob, LoseApproval

LEMMA InitSent == Init => SentInv
  BY DEF Init, SentInv, PaidWasSent, RecordersPaid, IdleRun

LEMMA StepSent == TypeOK /\ SentInv /\ [Next]_vars => SentInv'
<1> SUFFICES ASSUME TypeOK, SentInv, [Next]_vars PROVE SentInv'
  OBVIOUS
<1>1. CASE UNCHANGED vars
  BY <1>1 DEF vars, rowVars, proofVars, SentInv, PaidWasSent, RecordersPaid, Row
<1>2. CASE Next
  <2>1. \A p \in Payouts : payments[p] > 0 => payments'[p] > 0
    BY <1>2, StepPayments, PaymentsOnlyGrow
  <2>2. ASSUME NEW p \in Payouts, status'[p] = "PAID" \/ p \in rewarded'
        PROVE  payments'[p] > 0
    <3>1. CASE status[p] = "PAID" \/ p \in rewarded
      BY <2>1, <3>1 DEF SentInv, PaidWasSent
    <3>2. ASSUME NEW w \in Workers, RecordPaid(w), Row(w) = p PROVE payments'[p] > 0
      BY <2>1, <3>2 DEF SentInv, RecordersPaid, RecordPaid, RunAt
    <3>3. QED
      BY <1>2, <2>2, <3>1, <3>2, OnlyRecordPaidPays
  <2>3. ASSUME NEW w \in Workers, run'[w].pc = "record" PROVE payments'[Row(w)'] > 0
    <3>1. CASE PaySucceeds(w)
      <4>1. Row(w) \in Payouts
        BY <3>1, BusyRunHasRow DEF PaySucceeds, RunAt
      <4>2. Row(w)' = Row(w)
        BY <3>1 DEF PaySucceeds, Goto, Row, TypeOK
      <4>3. payments'[Row(w)] = payments[Row(w)] + 1 /\ payments[Row(w)] \in Nat
        BY <3>1, <4>1 DEF PaySucceeds, Pay, TypeOK
      <4>4. QED
        BY <4>2, <4>3
    <3>2. CASE run'[w] = run[w]
      <4>1. Row(w)' = Row(w) /\ run[w].pc = "record"
        BY <2>3, <3>2 DEF Row
      <4>2. Row(w) \in Payouts
        BY <4>1, BusyRunHasRow
      <4>3. QED
        BY <2>1, <4>1, <4>2 DEF SentInv, RecordersPaid
    <3>3. QED
      BY <1>2, <2>3, <3>1, <3>2, OnlyPayersRecord
  <2>4. QED
    BY <2>2, <2>3 DEF SentInv, PaidWasSent, RecordersPaid
<1>3. QED
  BY <1>1, <1>2

\* A row marked PAID and a proof with rewarded_at both had a payment accepted by
\* the network, also when a stalled run records it after a later one.
THEOREM PaidRowsWereSent == Spec => []PaidWasSent
<1>1. SentInv => PaidWasSent
  BY DEF SentInv
<1>2. QED
  BY <1>1, InitSent, StepSent, TypeCorrect, PTL DEF Spec

-----------------------------------------------------------------------------
(* The pipeline implements the ledger of payments.                         *)

Granted(p) == 1 + reclaims[p]

\* A step that touches none of the three books is no step of the ledger.
LEMMA IdleOnLedger ==
  ASSUME payments' = payments, reclaims' = reclaims, rewarded' = rewarded
  PROVE  UNCHANGED Ledger!ledger
  BY DEF Ledger!ledger

\* A run about to pay holds a grant that was not used.
LEMMA PayerHasGrant ==
  ASSUME TypeOK, BudgetInv, NEW w \in Workers, RunAt(w, "pay")
  PROVE  /\ Row(w) \in Payouts
         /\ payments[Row(w)] < Granted(Row(w))
<1>1. Row(w) \in Payouts
  BY BusyRunHasRow DEF RunAt
<1>2. w \in Payers(Row(w))
  BY DEF Payers, RunAt
<1>3. Cardinality(Payers(Row(w)) \ {w}) = Cardinality(Payers(Row(w))) - 1
  BY <1>2, PayersFinite, FS_RemoveElement
<1>4. Cardinality(Payers(Row(w)) \ {w}) \in Nat
  BY PayersFinite, FS_Subset, FS_CardinalityType
<1>5. /\ Cardinality(Payers(Row(w))) \in Nat /\ Unspent(Row(w)) \in Nat
      /\ payments[Row(w)] \in Nat /\ reclaims[Row(w)] \in Nat
      /\ Budget(Row(w))
  BY <1>1, PayersFinite DEF TypeOK, BudgetInv, Unspent
<1>6. QED
  BY <1>1, <1>3, <1>4, <1>5 DEF Budget, Granted

LEMMA ReclaimOnLedger ==
  ASSUME TypeOK, NEW s \in Sweepers, NEW p \in Payouts, ReclaimRow(s, p)
  PROVE  [Ledger!Next]_(Ledger!ledger)
<1>1. payments' = payments /\ rewarded' = rewarded
  BY DEF ReclaimRow, proofVars
<1>2. CASE reclaims' = reclaims
  BY <1>1, <1>2, IdleOnLedger
<1>3. CASE reclaims' = [reclaims EXCEPT ![p] = @ + 1]
  <2>1. reclaims \in [Payouts -> Nat]
    BY DEF TypeOK
  <2>2. \A q \in Payouts : 1 + reclaims'[q] =
                           IF q = p THEN (1 + reclaims[p]) + 1 ELSE 1 + reclaims[q]
    BY <1>3, <2>1
  <2>3. [q \in Payouts |-> 1 + reclaims'[q]]
          = [[q \in Payouts |-> 1 + reclaims[q]] EXCEPT ![p] = @ + 1]
    BY <2>2
  <2>4. Ledger!Renew(p)
    BY <1>1, <2>3 DEF Ledger!Renew
  <2>5. QED
    BY <2>4 DEF Ledger!Next
<1>4. QED
  BY <1>2, <1>3 DEF ReclaimRow

LEMMA RunOnLedger ==
  ASSUME TypeOK, BudgetInv, SentInv, NEW w \in Workers, RunStep(w)
  PROVE  [Ledger!Next]_(Ledger!ledger)
<1>1. CASE PaySucceeds(w) \/ PayThrows(w)
  <2>1. reclaims' = reclaims /\ rewarded' = rewarded
    BY <1>1 DEF PaySucceeds, PayThrows, proofVars
  <2>2. CASE payments' = payments
    BY <2>1, <2>2, IdleOnLedger
  <2>3. CASE Pay(Row(w))
    <3>1. Row(w) \in Payouts /\ payments[Row(w)] < 1 + reclaims[Row(w)]
      BY <1>1, PayerHasGrant DEF PaySucceeds, PayThrows, Granted
    <3>2. Ledger!Send(Row(w))
      BY <2>1, <2>3, <3>1 DEF Ledger!Send, Pay
    <3>3. QED
      BY <3>1, <3>2 DEF Ledger!Next
  <2>4. QED
    BY <1>1, <2>2, <2>3 DEF PaySucceeds, PayThrows
<1>2. CASE RecordPaid(w)
  <2>1. Row(w) \in Payouts /\ payments[Row(w)] > 0
    BY <1>2, BusyRunHasRow DEF RecordPaid, RunAt, SentInv, RecordersPaid
  <2>2. Ledger!Settle(Row(w))
    BY <1>2, <2>1 DEF RecordPaid, Ledger!Settle
  <2>3. QED
    BY <2>1, <2>2 DEF Ledger!Next
<1>3. CASE \/ ClaimPayout(w) \/ CheckProof(w) \/ RecordRefusal(w)
           \/ RecordFailure(w) \/ RunReturns(w)
  BY <1>3, IdleOnLedger DEF ClaimPayout, CheckProof, RecordRefusal, RecordFailure,
     RunReturns, proofVars
<1>4. QED
  BY <1>1, <1>2, <1>3 DEF RunStep

LEMMA StepOnLedger ==
  ASSUME TypeOK, BudgetInv, SentInv, [Next]_vars
  PROVE  [Ledger!Next]_(Ledger!ledger)
<1>1. CASE UNCHANGED vars
  BY <1>1, IdleOnLedger DEF vars, proofVars
<1>2. ASSUME NEW s \in Sweepers, DrainStep(s) PROVE [Ledger!Next]_(Ledger!ledger)
  <2>1. ASSUME NEW p \in Payouts, ReclaimRow(s, p) PROVE [Ledger!Next]_(Ledger!ledger)
    BY <2>1, ReclaimOnLedger
  <2>2. CASE \A p \in Payouts : ~ReclaimRow(s, p)
    BY <1>2, <2>2, IdleOnLedger DEF DrainStep, ReadPending, Enqueue, EnqueueThrows,
       RecordEnqueueError, ReadStale, EndDrain, ClaimRow, proofVars
  <2>3. QED
    BY <2>1, <2>2
<1>3. ASSUME NEW w \in Workers, RunStep(w) PROVE [Ledger!Next]_(Ledger!ledger)
  BY <1>3, RunOnLedger
<1>4. CASE \/ \E w \in Workers, p \in Payouts : TakeJob(w, p)
           \/ FaultStep \/ TimeStep \/ OperatorStep
  <2>1. payments' = payments /\ reclaims' = reclaims /\ rewarded' = rewarded
    BY <1>4 DEF TakeJob, FaultStep, RunThrows, RunStalls, DrainThrows, TimeStep, BecomeDue,
       GrowOld, OperatorStep, EvictJob, RetryFailedJob, LoseApproval, proofVars
  <2>2. QED
    BY <2>1, IdleOnLedger
<1>5. QED
  BY <1>1, <1>2, <1>3, <1>4 DEF Next

\* However many workers run, drains overlap and jobs stall, payments, reclaims and
\* rewarded_at behave as the ledger of payments (ImplementsLedger).
THEOREM PipelineKeepsTheLedger == Spec => ImplementsLedger
<1>1. Init => Ledger!Init
  <2> SUFFICES ASSUME Init PROVE Ledger!Init
    OBVIOUS
  <2>1. [p \in Payouts |-> 1 + reclaims[p]] = [p \in Payouts |-> 1]
    BY DEF Init
  <2>2. QED
    BY <2>1 DEF Init, Ledger!Init
<1>2. TypeOK /\ BudgetInv /\ SentInv /\ [Next]_vars => [Ledger!Next]_(Ledger!ledger)
  BY StepOnLedger
<1>3. QED
  BY <1>1, <1>2, InitBudget, StepBudget, InitSent, StepSent, TypeCorrect, PTL
  DEF Spec, ImplementsLedger, Ledger!Spec
-----------------------------------------------------------------------------
(* What RowsSettle and ClaimsEnd rest on: no row is left to itself.        *)

\* A run that has claimed its row and will record what became of it.
Claimant(w, p) == Row(w) = p /\ run[w].pc \in {"check", "refuse", "pay", "record", "fail"}

\* Until a statement throws or a process dies, a PROCESSING row has a run that
\* claimed it, also after a reset; and a PENDING row that was not reset has a
\* job that is still to run or a run about to claim it, or can have a job, since
\* none is kept under its id.
RowsAreAttended ==
  faults = 0 => \A p \in Payouts :
    /\ status[p] = "PROCESSING" => \E w \in Workers : Claimant(w, p)
    /\ status[p] = "PENDING" /\ reclaims[p] = 0 =>
         \/ jobState[p] \in {"none", "waiting"}
         \/ \E w \in Workers : RunAt(w, "claim") /\ Row(w) = p /\ lock[p] = w

ClaimedHasRun(p) == status[p] = "PROCESSING" => \E w \in Workers : Claimant(w, p)

\* No run is through with a row that is PENDING as it was at first.
FreshIsUnclaimed(p) ==
  status[p] = "PENDING" /\ reclaims[p] = 0 =>
    /\ jobState[p] \notin {"completed", "failed"}
    /\ \A w \in Workers : Row(w) = p => RunAt(w, "claim")

ActiveHasRun(p) == jobState[p] = "active" => \E w \in Workers : Row(w) = p /\ lock[p] = w

Attended(p) == ClaimedHasRun(p) /\ FreshIsUnclaimed(p) /\ ActiveHasRun(p)

AttendedInv == faults = 0 => \A p \in Payouts : Attended(p)

LEMMA FaultsLast ==
  ASSUME TypeOK, [Next]_vars, faults' = 0
  PROVE  faults = 0 /\ ~FaultStep
<1>1. ~FaultStep
  BY DEF FaultStep, RunThrows, RunStalls, DrainThrows, TypeOK
<1>2. QED
  BY <1>1 DEF Next, vars, DrainStep, ReadPending, ClaimRow, Enqueue, EnqueueThrows,
     RecordEnqueueError, ReadStale, ReclaimRow, EndDrain, TakeJob, RunStep, ClaimPayout,
     CheckProof, PaySucceeds, PayThrows, RecordPaid, RecordRefusal, RecordFailure, RunReturns,
     TimeStep, BecomeDue, GrowOld, OperatorStep, EvictJob, RetryFailedJob, LoseApproval

\* Steps that take no run anywhere, and may give a row without a job one.
LEMMA RunsRestAttended ==
  ASSUME TypeOK, NEW p \in Payouts, Attended(p), UNCHANGED <<run, lock>>,
         status'[p] = "PROCESSING" => status[p] = "PROCESSING",
         status'[p] = "PENDING" /\ reclaims'[p] = 0 =>
           /\ status[p] = "PENDING" /\ reclaims[p] = 0
           /\ jobState'[p] \in {jobState[p], "none", "waiting"},
         jobState'[p] = "active" => jobState[p] = "active"
  PROVE  Attended(p)'
  BY DEF Attended, ClaimedHasRun, FreshIsUnclaimed, ActiveHasRun, Claimant, RunAt, Row

LEMMA DrainAttends ==
  ASSUME TypeOK, NEW p \in Payouts, Attended(p), NEW s \in Sweepers, DrainStep(s)
  PROVE  Attended(p)'
<1> USE DEF rowVars, proofVars, queueVars
<1>1. CASE Enqueue(s) \/ EnqueueThrows(s)
  <2>1. /\ UNCHANGED <<run, lock, status, reclaims>>
        /\ jobState'[p] = jobState[p] \/ jobState'[p] = "waiting"
    BY <1>1 DEF Enqueue, EnqueueThrows, AddJob, TypeOK
  <2>2. QED
    BY <2>1, RunsRestAttended
<1>2. CASE RecordEnqueueError(s)
  <2>1. /\ UNCHANGED <<run, lock, jobState, reclaims>>
        /\ status'[p] = status[p] \/ status'[p] = "FAILED"
    BY <1>2 DEF RecordEnqueueError, TypeOK
  <2>2. QED
    BY <2>1, RunsRestAttended
<1>3. ASSUME NEW q \in Payouts, ReclaimRow(s, q) PROVE Attended(p)'
  <2>1. UNCHANGED <<run, lock, jobState>>
    BY <1>3 DEF ReclaimRow
  <2>2. /\ status'[p] \in {status[p], "FAILED", "PENDING"}
        /\ status'[p] = "PENDING" => reclaims'[p] # 0 \/ status[p] = "PENDING"
        /\ reclaims'[p] = 0 => reclaims[p] = 0
    BY <1>3 DEF ReclaimRow, TypeOK
  <2>3. QED
    BY <2>1, <2>2, RunsRestAttended
<1>4. CASE ReadPending(s) \/ ReadStale(s) \/ EndDrain(s) \/ \E q \in Payouts : ClaimRow(s, q)
  <2>1. UNCHANGED <<run, lock, jobState, status, reclaims>>
    BY <1>4 DEF ReadPending, ReadStale, EndDrain, ClaimRow
  <2>2. QED
    BY <2>1, RunsRestAttended
<1>5. QED
  BY <1>1, <1>2, <1>3, <1>4 DEF DrainStep

LEMMA TakeJobAttends ==
  ASSUME TypeOK, NEW p \in Payouts, Attended(p), NEW w \in Workers, NEW q \in Payouts,
         TakeJob(w, q)
  PROVE  Attended(p)'
<1>1. /\ UNCHANGED <<status, reclaims>>
      /\ run[w].pc = "idle" /\ run[w].payout = NoPayout /\ p # NoPayout
      /\ run'[w] = [pc |-> "claim", payout |-> q]
      /\ \A v \in Workers \ {w} : run'[v] = run[v]
      /\ jobState[q] = "waiting" /\ jobState'[q] = "active" /\ lock'[q] = w
      /\ p # q => jobState'[p] = jobState[p] /\ lock'[p] = lock[p]
  BY PayoutAssumption DEF TakeJob, RunAt, TypeOK, rowVars
<1>2. ClaimedHasRun(p)'
  BY <1>1 DEF Attended, ClaimedHasRun, Claimant, Row
<1>3. FreshIsUnclaimed(p)'
  BY <1>1 DEF Attended, FreshIsUnclaimed, RunAt, Row
<1>4. ActiveHasRun(p)'
  BY <1>1 DEF Attended, ActiveHasRun, Row
<1>5. QED
  BY <1>2, <1>3, <1>4 DEF Attended

\* The run goes on with its row, which it has claimed or leaves as it is.
LEMMA GoesOnAttended ==
  ASSUME TypeOK, NEW p \in Payouts, Attended(p), NEW w \in Workers, NEW pc \in RunPcs,
         Goto(w, pc), UNCHANGED <<lock, jobState, reclaims>>,
         status'[p] = "PENDING" => status[p] = "PENDING",
         Row(w) # p => status'[p] = status[p],
         Row(w) = p => /\ status'[p] # "PENDING" \/ reclaims[p] # 0
                       /\ \/ status'[p] # "PROCESSING"
                          \/ pc \in {"check", "refuse", "pay", "record", "fail"}
                          \/ ~Claimant(w, p) /\ status'[p] = status[p]
  PROVE  Attended(p)'
<1>1. /\ run'[w].pc = pc /\ run'[w].payout = run[w].payout
      /\ \A v \in Workers \ {w} : run'[v] = run[v]
  BY DEF Goto, TypeOK
<1>2. ClaimedHasRun(p)'
  BY <1>1 DEF Attended, ClaimedHasRun, Claimant, Row
<1>3. FreshIsUnclaimed(p)'
  BY <1>1 DEF Attended, FreshIsUnclaimed, RunAt, Row
<1>4. ActiveHasRun(p)'
  BY <1>1 DEF Attended, ActiveHasRun, Row
<1>5. QED
  BY <1>2, <1>3, <1>4 DEF Attended

\* The run is through with its row.
LEMMA LeavesAttended ==
  ASSUME TypeOK, NEW p \in Payouts, Attended(p), NEW w \in Workers,
         NEW outcome \in {"completed", "failed"}, Leave(w, outcome),
         run[w].pc # "idle", UNCHANGED reclaims,
         Row(w) # p => status'[p] = status[p],
         Row(w) = p => /\ status'[p] # "PENDING" \/ reclaims[p] # 0
                       /\ \/ status'[p] # "PROCESSING"
                          \/ ~Claimant(w, p) /\ status'[p] = status[p]
  PROVE  Attended(p)'
<1>1. /\ run'[w] = IdleRun /\ p # NoPayout
      /\ \A v \in Workers \ {w} : run'[v] = run[v]
      /\ Row(w) \in Payouts
  BY BusyRunHasRow, PayoutAssumption DEF Leave, TypeOK
<1>2. \/ UNCHANGED <<jobState, lock>> /\ lock[Row(w)] # w
      \/ /\ lock[Row(w)] = w /\ jobState'[Row(w)] = outcome
         /\ p # Row(w) => jobState'[p] = jobState[p] /\ lock'[p] = lock[p]
  BY <1>1 DEF Leave, queueVars, TypeOK
<1>3. ClaimedHasRun(p)'
  BY <1>1 DEF Attended, ClaimedHasRun, Claimant, Row, IdleRun
<1>4. FreshIsUnclaimed(p)'
  BY <1>1, <1>2 DEF Attended, FreshIsUnclaimed, RunAt, Row, IdleRun
<1>5. ActiveHasRun(p)'
  BY <1>1, <1>2 DEF Attended, ActiveHasRun, Row
<1>6. QED
  BY <1>3, <1>4, <1>5 DEF Attended

LEMMA RunAttends ==
  ASSUME TypeOK, NEW p \in Payouts, Attended(p), NEW w \in Workers, RunStep(w)
  PROVE  Attended(p)'
<1> USE DEF rowVars, queueVars
<1>1. run[w].pc # "idle" /\ Row(w) \in Payouts
  BY BusyRunHasRow DEF RunStep, ClaimPayout, CheckProof, PaySucceeds, PayThrows, RecordPaid,
     RecordRefusal, RecordFailure, RunReturns, RunAt
\* Past its claim, a run has no row that is PENDING and was never reset.
<1>2. Row(w) = p /\ ~RunAt(w, "claim") => status[p] # "PENDING" \/ reclaims[p] # 0
  BY DEF Attended, FreshIsUnclaimed
<1>3. CASE ClaimPayout(w)
  <2>1. UNCHANGED <<lock, jobState, reclaims>> /\ ~Claimant(w, p)
    BY <1>3 DEF ClaimPayout, Claimant, RunAt
  <2>2. CASE status[Row(w)] = "PENDING"
    <3>1. Goto(w, "check") /\ status' = [status EXCEPT ![Row(w)] = "PROCESSING"]
      BY <1>3, <2>2 DEF ClaimPayout
    <3>2. /\ status'[Row(w)] = "PROCESSING"
          /\ Row(w) # p => status'[p] = status[p]
      BY <1>1, <3>1 DEF TypeOK
    <3>3. QED
      BY <2>1, <3>1, <3>2, GoesOnAttended DEF RunPcs
  <2>3. CASE status[Row(w)] # "PENDING"
    <3>1. Goto(w, "return") /\ status' = status
      BY <1>3, <2>3 DEF ClaimPayout
    <3>2. QED
      BY <2>1, <2>3, <3>1, GoesOnAttended DEF RunPcs
  <2>4. QED
    BY <2>2, <2>3
<1>4. CASE CheckProof(w) \/ PaySucceeds(w) \/ PayThrows(w)
  <2>1. UNCHANGED <<status, lock, jobState, reclaims>> /\ ~RunAt(w, "claim")
    BY <1>4 DEF CheckProof, PaySucceeds, PayThrows, RunAt
  <2>2. PICK pc \in {"pay", "refuse", "record", "fail"} : Goto(w, pc)
    BY <1>4 DEF CheckProof, PaySucceeds, PayThrows
  <2>3. QED
    BY <1>2, <2>1, <2>2, GoesOnAttended DEF RunPcs
<1>5. CASE RecordPaid(w)
  <2>1. /\ UNCHANGED <<lock, jobState, reclaims>> /\ Goto(w, "return")
        /\ status'[Row(w)] = "PAID"
        /\ Row(w) # p => status'[p] = status[p]
    BY <1>1, <1>5 DEF RecordPaid, TypeOK
  <2>2. QED
    BY <2>1, GoesOnAttended DEF RunPcs
<1>6. CASE RecordRefusal(w) \/ RecordFailure(w)
  <2>1. /\ UNCHANGED reclaims /\ Leave(w, "failed")
        /\ status'[Row(w)] = "FAILED"
        /\ Row(w) # p => status'[p] = status[p]
    BY <1>1, <1>6 DEF RecordRefusal, RecordFailure, TypeOK
  <2>2. QED
    BY <1>1, <2>1, LeavesAttended
<1>7. CASE RunReturns(w)
  <2>1. /\ UNCHANGED <<status, reclaims>> /\ Leave(w, "completed")
        /\ ~Claimant(w, p) /\ ~RunAt(w, "claim")
    BY <1>7 DEF RunReturns, Claimant, RunAt
  <2>2. QED
    BY <1>1, <1>2, <2>1, LeavesAttended
<1>8. QED
  BY <1>3, <1>4, <1>5, <1>6, <1>7 DEF RunStep

LEMMA StepAttends ==
  ASSUME TypeOK, AttendedInv, [Next]_vars
  PROVE  AttendedInv'
<1> SUFFICES ASSUME faults' = 0, NEW p \in Payouts
             PROVE  Attended(p)'
  BY DEF AttendedInv
<1> USE DEF rowVars, proofVars, queueVars
<1>1. ~FaultStep /\ Attended(p)
  BY FaultsLast DEF AttendedInv
<1>2. CASE TimeStep \/ OperatorStep \/ UNCHANGED vars
  <2>1. UNCHANGED <<run, lock, status, reclaims>>
    BY <1>2 DEF TimeStep, BecomeDue, GrowOld, OperatorStep, EvictJob, RetryFailedJob,
       LoseApproval, vars
  <2>2. jobState'[p] \in {jobState[p], "none", "waiting"}
    BY <1>2 DEF TimeStep, BecomeDue, GrowOld, OperatorStep, EvictJob, RetryFailedJob,
       LoseApproval, vars, TypeOK
  <2>3. QED
    BY <1>1, <2>1, <2>2, RunsRestAttended
<1>3. QED
  BY <1>1, <1>2, DrainAttends, TakeJobAttends, RunAttends DEF Next

\* RowsAreAttended: whatever drains, runs and operators do, a payout that is not
\* settled is in somebody's hands or in nobody's way.
THEOREM NoRowIsForgotten == Spec => []RowsAreAttended
<1>1. Init => AttendedInv
  BY PayoutAssumption DEF Init, AttendedInv, Attended, ClaimedHasRun, FreshIsUnclaimed,
     ActiveHasRun, Row, IdleRun
<1>2. TypeOK /\ AttendedInv => RowsAreAttended
  <2> SUFFICES ASSUME TypeOK, AttendedInv, faults = 0, NEW p \in Payouts,
                      status[p] = "PENDING", reclaims[p] = 0, jobState[p] \notin {"none", "waiting"}
               PROVE  \E w \in Workers : RunAt(w, "claim") /\ Row(w) = p /\ lock[p] = w
    BY DEF RowsAreAttended, AttendedInv, Attended, ClaimedHasRun
  <2>1. FreshIsUnclaimed(p) /\ ActiveHasRun(p)
    BY DEF AttendedInv, Attended
  <2>2. jobState[p] = "active"
    BY <2>1 DEF FreshIsUnclaimed, TypeOK
  <2>3. QED
    BY <2>1, <2>2 DEF FreshIsUnclaimed, ActiveHasRun
<1>3. QED
  BY <1>1, <1>2, StepAttends, TypeCorrect, PTL DEF Spec
=============================================================================
