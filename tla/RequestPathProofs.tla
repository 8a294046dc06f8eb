-------------------------- MODULE RequestPathProofs --------------------------
(***************************************************************************)
(* Theorems about RequestPath, and through it about RateLimiter and        *)
(* AuditQueue: for any number of requests, keys and loops, any limit and   *)
(* window, any first state of the counters, and any number of faults.      *)
(***************************************************************************)
EXTENDS RequestPath, SequenceTheorems, TLAPS

-----------------------------------------------------------------------------
(* Type correctness.                                                       *)

LoopRecord == [pc : {"off", "scheduled", "write", "sleep"},
               batch : Seq(Requests), tries : 0 .. AuditAttempts]

\* A loop that writes has something to write, and one that sleeps has an
\* attempt left.
Works(d) ==
  /\ d.pc \in {"write", "sleep"} => d.batch # <<>> /\ d.tries > 0
  /\ d.pc \in {"off", "scheduled"} => d.batch = <<>>
  /\ d.pc = "sleep" => d.tries < AuditAttempts

LoopsWork == \A l \in Loops : Works(loop[l])

TypeInv == TypeOK /\ LoopsWork

\* The loop that logAudit schedules.
LEMMA ChosenLoop ==
  ASSUME \E l \in Loops : loop[l].pc = "off"
  PROVE  /\ (CHOOSE l \in Loops : loop[l].pc = "off") \in Loops
         /\ loop[CHOOSE l \in Loops : loop[l].pc = "off"].pc = "off"
  OBVIOUS

LEMMA LoopChanges ==
  ASSUME TypeInv, NEW l \in Loops, NEW d \in LoopRecord, Works(d),
         loop' = [loop EXCEPT ![l] = d]
  PROVE  loop' \in [Loops -> LoopRecord] /\ LoopsWork'
<1>1. loop \in [Loops -> LoopRecord]
  BY DEF TypeInv, TypeOK, Audit!AuditTypeOK, LoopRecord
<1>2. \A k \in Loops : Works(loop[k])
  BY DEF TypeInv, LoopsWork
<1>3. loop' \in [Loops -> LoopRecord] /\ \A k \in Loops : loop'[k] = IF k = l THEN d ELSE loop[k]
  BY <1>1
<1> HIDE DEF LoopRecord
<1>4. \A k \in Loops : Works(loop'[k])
  BY <1>2, <1>3
<1>5. QED
  BY <1>3, <1>4 DEF LoopsWork, Works

\* A loop that changes its place, and its tries.
LEMMA LoopMoves ==
  ASSUME TypeInv, NEW l \in Loops, NEW p \in {"off", "scheduled", "write", "sleep"},
         NEW n \in 0 .. AuditAttempts, Works([pc |-> p, batch |-> loop[l].batch, tries |-> n]),
         \/ loop' = [loop EXCEPT ![l].pc = p] /\ n = loop[l].tries
         \/ loop' = [loop EXCEPT ![l].pc = p, ![l].tries = n]
  PROVE  loop' \in [Loops -> LoopRecord] /\ LoopsWork'
<1> DEFINE d == [pc |-> p, batch |-> loop[l].batch, tries |-> n]
<1>1. loop \in [Loops -> LoopRecord]
  BY DEF TypeInv, TypeOK, Audit!AuditTypeOK, LoopRecord
<1>2. loop[l] \in LoopRecord
  BY <1>1
<1>3. d \in LoopRecord
  BY <1>2 DEF LoopRecord
<1>4. loop' = [loop EXCEPT ![l] = d]
  BY <1>1, <1>2 DEF LoopRecord
<1> HIDE DEF d
<1>5. Works(d)
  BY DEF d
<1>6. QED
  BY <1>3, <1>4, <1>5, LoopChanges

LEMMA LogType ==
  ASSUME TypeInv, NEW r \in Requests, Audit!LogAudit(r)
  PROVE  Audit!AuditTypeOK' /\ LoopsWork'
<1> DEFINE c == CHOOSE l \in Loops : loop[l].pc = "off"
<1>1. /\ logged' \in Seq(Requests) /\ queue' \in Seq(Requests)
      /\ draining' = TRUE /\ stored' = stored /\ alerted' = alerted
  <2>1. logged \in Seq(Requests) /\ queue \in Seq(Requests)
    BY DEF TypeInv, TypeOK, Audit!AuditTypeOK
  <2>2. QED
    BY <2>1 DEF Audit!LogAudit
<1>2. loop' \in [Loops -> LoopRecord] /\ LoopsWork'
  <2>1. CASE loop' = loop
    BY <2>1 DEF TypeInv, TypeOK, Audit!AuditTypeOK, LoopRecord, LoopsWork, Works
  <2>2. CASE /\ \E l \in Loops : loop[l].pc = "off"
             /\ loop' = [loop EXCEPT ![c].pc = "scheduled"]
    <3>1. c \in Loops /\ loop[c].pc = "off"
      BY <2>2, ChosenLoop
    <3>2. loop' = [loop EXCEPT ![c].pc = "scheduled"]
      BY <2>2
    <3> HIDE DEF c
    <3>3. loop[c].tries \in 0 .. AuditAttempts /\ loop[c].batch = <<>>
      BY <3>1 DEF TypeInv, TypeOK, Audit!AuditTypeOK, LoopsWork, Works
    <3>4. Works([pc |-> "scheduled", batch |-> loop[c].batch, tries |-> loop[c].tries])
      BY <3>3 DEF Works
    <3>5. QED
      BY <3>1, <3>2, <3>3, <3>4, LoopMoves
  <2>3. QED
    BY <2>1, <2>2 DEF Audit!LogAudit
<1>3. QED
  BY <1>1, <1>2 DEF TypeInv, TypeOK, Audit!AuditTypeOK, LoopRecord

LEMMA TakeBatchType ==
  ASSUME TypeInv, NEW l \in Loops, Audit!TakeBatch(l)
  PROVE  /\ queue' \in Seq(Requests) /\ draining' \in BOOLEAN
         /\ loop' \in [Loops -> LoopRecord] /\ LoopsWork'
<1> DEFINE d == IF queue = <<>> THEN Audit!IdleLoop
                ELSE [pc |-> "write", batch |-> queue, tries |-> 1]
<1>1. queue' = <<>> /\ draining' = (queue # <<>>) /\ loop' = [loop EXCEPT ![l] = d]
  BY DEF Audit!TakeBatch
<1>2. d \in LoopRecord /\ Works(d)
  BY RequestPathAssumption
  DEF TypeInv, TypeOK, Audit!AuditTypeOK, LoopRecord, Works, Audit!IdleLoop
<1>3. queue' \in Seq(Requests) /\ draining' \in BOOLEAN
  <2>1. draining' \in BOOLEAN
    BY <1>1, Zenon
  <2>2. QED
    BY <1>1, <2>1
<1> HIDE DEF d
<1>4. loop' \in [Loops -> LoopRecord] /\ LoopsWork'
  BY <1>1, <1>2, LoopChanges
<1>5. QED
  BY <1>3, <1>4

LEMMA NextItemType ==
  ASSUME TypeInv, NEW l \in Loops, loop[l].pc = "write", Audit!NextItem(l)
  PROVE  /\ queue' \in Seq(Requests) /\ draining' \in BOOLEAN
         /\ loop' \in [Loops -> LoopRecord] /\ LoopsWork'
<1>1. CASE Len(loop[l].batch) = 1
  BY <1>1, TakeBatchType DEF Audit!NextItem
<1>2. CASE Len(loop[l].batch) # 1
  <2> DEFINE d == [pc |-> "write", batch |-> Tail(loop[l].batch), tries |-> 1]
  <2>1. loop' = [loop EXCEPT ![l] = d] /\ UNCHANGED <<queue, draining>>
    BY <1>2 DEF Audit!NextItem
  <2>2. loop[l].batch \in Seq(Requests) /\ loop[l].batch # <<>>
    BY DEF TypeInv, TypeOK, Audit!AuditTypeOK, LoopsWork, Works
  <2>3. /\ Tail(loop[l].batch) \in Seq(Requests)
        /\ Len(Tail(loop[l].batch)) = Len(loop[l].batch) - 1
    BY <2>2, HeadTailProperties
  <2>4. Tail(loop[l].batch) # <<>>
    <3>1. Len(loop[l].batch) \in Nat
      BY <2>2, LenProperties
    <3>2. Len(Tail(loop[l].batch)) # 0
      BY <1>2, <2>3, <3>1
    <3>3. QED
      BY <3>2, EmptySeq
  <2>5. d \in LoopRecord /\ Works(d)
    BY <2>3, <2>4, RequestPathAssumption DEF LoopRecord, Works
  <2> HIDE DEF d
  <2>6. loop' \in [Loops -> LoopRecord] /\ LoopsWork'
    BY <2>1, <2>5, LoopChanges
  <2>7. QED
    BY <2>1, <2>6 DEF TypeInv, TypeOK, Audit!AuditTypeOK
<1>3. QED
  BY <1>1, <1>2

LEMMA LoopStepType ==
  ASSUME TypeInv, NEW l \in Loops, Audit!LoopStep(l)
  PROVE  Audit!AuditTypeOK' /\ LoopsWork'
<1>0. /\ Audit!AuditTypeOK /\ Works(loop[l])
      /\ loop[l].batch \in Seq(Requests) /\ loop[l].tries \in 0 .. AuditAttempts
  BY DEF TypeInv, TypeOK, Audit!AuditTypeOK, LoopsWork
<1>1. CASE Audit!StartDrain(l)
  BY <1>0, <1>1, TakeBatchType DEF Audit!AuditTypeOK, Audit!StartDrain, LoopRecord
<1>2. ASSUME loop[l].pc = "write"
      PROVE  Head(loop[l].batch) \in Requests
  BY <1>0, <1>2, HeadTailProperties DEF Works
<1>3. CASE Audit!WriteSucceeds(l)
  BY <1>0, <1>2, <1>3, NextItemType DEF Audit!AuditTypeOK, Audit!WriteSucceeds, LoopRecord
<1>4. CASE Audit!WriteThrows(l)
  <2>1. stored' \subseteq Requests /\ logged' = logged /\ loop[l].pc = "write"
    BY <1>0, <1>2, <1>4 DEF Audit!WriteThrows, Audit!AuditTypeOK
  <2>2. CASE loop[l].tries < AuditAttempts
    <3>1. loop' = [loop EXCEPT ![l].pc = "sleep"] /\ UNCHANGED <<queue, draining, alerted>>
      BY <1>4, <2>2 DEF Audit!WriteThrows
    <3>2. Works([pc |-> "sleep", batch |-> loop[l].batch, tries |-> loop[l].tries])
      BY <1>0, <2>1, <2>2 DEF Works
    <3>3. loop' \in [Loops -> LoopRecord] /\ LoopsWork'
      BY <1>0, <3>1, <3>2, LoopMoves
    <3>4. QED
      BY <1>0, <2>1, <3>1, <3>3 DEF Audit!AuditTypeOK, LoopRecord
  <2>3. CASE ~(loop[l].tries < AuditAttempts)
    <3>1. alerted' \subseteq Requests /\ Audit!NextItem(l)
      BY <1>0, <1>2, <1>4, <2>1, <2>3 DEF Audit!WriteThrows, Audit!AuditTypeOK
    <3>2. QED
      BY <1>0, <2>1, <3>1, NextItemType DEF Audit!AuditTypeOK, LoopRecord
  <2>4. QED
    BY <2>2, <2>3
<1>5. CASE Audit!BackoffEnds(l)
  <2> DEFINE n == loop[l].tries + 1
  <2>1. /\ loop[l].pc = "sleep" /\ loop' = [loop EXCEPT ![l].pc = "write", ![l].tries = n]
        /\ UNCHANGED <<queue, draining, logged, stored, alerted>>
    BY <1>5 DEF Audit!BackoffEnds
  <2>2. n \in 0 .. AuditAttempts /\ n > 0
    BY <1>0, <2>1, RequestPathAssumption DEF Works
  <2> HIDE DEF n
  <2>3. Works([pc |-> "write", batch |-> loop[l].batch, tries |-> n])
    BY <1>0, <2>1, <2>2 DEF Works
  <2>4. loop' \in [Loops -> LoopRecord] /\ LoopsWork'
    BY <2>1, <2>2, <2>3, LoopMoves
  <2>5. QED
    BY <1>0, <2>1, <2>4 DEF Audit!AuditTypeOK, LoopRecord
<1>6. QED
  BY <1>1, <1>3, <1>4, <1>5 DEF Audit!LoopStep

LEMMA IncrementType ==
  ASSUME TypeOK, NEW k \in Keys, Limiter!NoAnswer(k) \/ Limiter!Increment(k)
  PROVE  /\ count' \in [Keys -> 0 .. Limit + 1]
         /\ ttl' \in [Keys -> 0 .. Window \cup {NoTtl}]
<1> USE RequestPathAssumption DEF TypeOK, Limiter!LimiterTypeOK
<1>1. CASE Limiter!Increment(k)
  <2>1. count' \in [Keys -> 0 .. Limit + 1]
    BY <1>1 DEF Limiter!Increment
  <2>2. ttl' \in [Keys -> 0 .. Window \cup {NoTtl}]
    BY <1>1 DEF Limiter!Increment
  <2>3. QED
    BY <2>1, <2>2
<1>2. QED
  BY <1>1 DEF Limiter!NoAnswer

LEMMA LimiterStepType ==
  ASSUME TypeOK, NEW k \in Keys,
         \/ Limiter!CheckPasses(k) \/ Limiter!CheckRefuses(k)
         \/ Limiter!FailsOpen(k) \/ Limiter!FailsShut(k)
  PROVE  Limiter!LimiterTypeOK'
<1>1. /\ admitted' \in [Keys -> Nat] /\ opened' \in [Keys -> Nat]
  BY DEF TypeOK, Limiter!LimiterTypeOK, Limiter!CheckPasses, Limiter!CheckRefuses,
     Limiter!FailsOpen, Limiter!FailsShut, Limiter!Admit
<1>2. Limiter!NoAnswer(k) \/ Limiter!Increment(k)
  BY DEF Limiter!CheckPasses, Limiter!CheckRefuses, Limiter!FailsOpen, Limiter!FailsShut
<1>3. QED
  BY <1>1, <1>2, IncrementType DEF Limiter!LimiterTypeOK

LEMMA TickType ==
  ASSUME TypeOK, Limiter!Tick
  PROVE  Limiter!LimiterTypeOK'
<1>0. Limiter!LimiterTypeOK
  BY DEF TypeOK
<1>1. ttl' \in [Keys -> 0 .. Window \cup {NoTtl}]
  BY <1>0, RequestPathAssumption DEF Limiter!Tick, Limiter!LimiterTypeOK
<1>2. count' \in [Keys -> 0 .. Limit + 1]
  BY <1>0, RequestPathAssumption DEF Limiter!Tick, Limiter!LimiterTypeOK
<1>3. admitted' \in [Keys -> Nat] /\ opened' \in [Keys -> Nat]
  BY <1>0 DEF Limiter!Tick, Limiter!LimiterTypeOK
<1>4. QED
  BY <1>1, <1>2, <1>3 DEF Limiter!LimiterTypeOK

LEMMA InitType == Init => TypeInv
<1> SUFFICES ASSUME Init PROVE TypeInv
  OBVIOUS
<1>1. Audit!AuditTypeOK /\ LoopsWork
  <2>1. <<>> \in Seq(Requests)
    BY EmptySeq
  <2>2. Audit!IdleLoop \in LoopRecord /\ Works(Audit!IdleLoop)
    BY <2>1, RequestPathAssumption DEF Audit!IdleLoop, LoopRecord, Works
  <2>3. loop = [l \in Loops |-> Audit!IdleLoop]
    BY DEF Init, Audit!Init
  <2>4. loop \in [Loops -> LoopRecord] /\ \A l \in Loops : Works(loop[l])
    BY <2>2, <2>3 DEF Works
  <2>5. QED
    BY <2>1, <2>4 DEF Init, Audit!Init, Audit!AuditTypeOK, LoopsWork, LoopRecord
<1>2. Limiter!LimiterTypeOK
  <2>1. count \in [Keys -> 0 .. Limit + 1]
    BY DEF Init, Limiter!Init
  <2>2. ttl \in [Keys -> 0 .. Window \cup {NoTtl}]
    BY RequestPathAssumption DEF Init, Limiter!Init
  <2>3. admitted \in [Keys -> Nat] /\ opened \in [Keys -> Nat]
    BY <2>1, RequestPathAssumption DEF Init, Limiter!Init
  <2>4. QED
    BY <2>1, <2>2, <2>3 DEF Limiter!LimiterTypeOK
<1>3. QED
  BY <1>1, <1>2, RequestPathAssumption DEF Init, TypeInv, TypeOK

LEMMA StepType ==
  ASSUME TypeInv, [Next]_vars
  PROVE  TypeInv'
<1> USE RequestPathAssumption
<1>1. ASSUME NEW r \in Requests, Pass(r) \/ Refuse(r) \/ RefuseUnanswered(r)
      PROVE  TypeInv'
  <2>1. KeyOf[r] \in Keys /\ TypeOK
    BY DEF TypeInv
  <2>2. Limiter!LimiterTypeOK'
    BY <1>1, <2>1, LimiterStepType DEF Pass, Refuse, RefuseUnanswered
  <2>3. /\ req' \in [Requests -> {"check", "handle", "done", "refused", "failed"}]
        /\ faults' \in 0 .. FaultBound
        /\ UNCHANGED <<auditVars, gone, alive>>
    BY <1>1, <2>1 DEF Pass, Refuse, RefuseUnanswered, Fault, TypeOK
  <2>4. QED
    BY <2>2, <2>3 DEF TypeInv, TypeOK, LoopsWork, Works, auditVars, Audit!AuditTypeOK
<1>2. ASSUME NEW r \in Requests, Respond(r) \/ ClientLeaves(r)
      PROVE  TypeInv'
  <2>1. Audit!AuditTypeOK' /\ LoopsWork'
    <3>1. CASE Audit!LogAudit(r)
      BY <3>1, LogType
    <3>2. CASE UNCHANGED auditVars
      BY <3>2 DEF TypeInv, TypeOK, LoopsWork, Works, auditVars, Audit!AuditTypeOK
    <3>3. QED
      BY <1>2, <3>1, <3>2 DEF Respond, ClientLeaves
  <2>2. /\ req' \in [Requests -> {"check", "handle", "done", "refused", "failed"}]
        /\ gone' \subseteq Requests
        /\ UNCHANGED <<limiterVars, alive, faults>>
    BY <1>2 DEF Respond, ClientLeaves, TypeInv, TypeOK
  <2>3. QED
    BY <2>1, <2>2 DEF TypeInv, TypeOK, limiterVars, Limiter!LimiterTypeOK
<1>3. ASSUME NEW l \in Loops, DrainAudit(l)
      PROVE  TypeInv'
  BY <1>3, LoopStepType DEF DrainAudit, TypeInv, TypeOK, limiterVars, Limiter!LimiterTypeOK
<1>4. CASE Exit
  <2>1. Audit!AuditTypeOK' /\ LoopsWork'
    BY <1>4 DEF Exit, TypeInv, TypeOK, LoopsWork, Works, Audit!IdleLoop, Audit!AuditTypeOK
  <2>2. Limiter!LimiterTypeOK'
    BY <1>4 DEF Exit, TypeInv, TypeOK, limiterVars, Limiter!LimiterTypeOK
  <2>3. QED
    BY <1>4, <2>1, <2>2 DEF Exit, TypeInv, TypeOK
<1>5. CASE Tick
  BY <1>5, TickType DEF Tick, TypeInv, TypeOK, LoopsWork, Works, auditVars, Audit!AuditTypeOK
<1>6. CASE UNCHANGED vars
  BY <1>6 DEF TypeInv, TypeOK, LoopsWork, Works, vars, auditVars, Audit!AuditTypeOK,
     limiterVars, Limiter!LimiterTypeOK
<1>7. QED
  BY <1>1, <1>2, <1>3, <1>4, <1>5, <1>6 DEF Next

LEMMA TypeInvariant == Spec => []TypeInv
  BY InitType, StepType, PTL DEF Spec

\* The limiter, the audit queue and the requests stay well typed.
THEOREM TypeCorrect == Spec => []TypeOK
<1>1. TypeInv => TypeOK
  BY DEF TypeInv
<1>2. QED
  BY <1>1, TypeInvariant, PTL

-----------------------------------------------------------------------------
(* The limit.                                                              *)

\* Each request of the window that passed was counted, or passed without an
\* answer, which a limiter that fails closed lets none do.
Counted(k) ==
  /\ admitted[k] <= count[k] + opened[k]
  /\ admitted[k] <= Limit + opened[k]
  /\ k \in FailClosed => opened[k] = 0

LimitInv == \A k \in Keys : Counted(k)

LEMMA CheckCounts ==
  ASSUME TypeOK, LimitInv, NEW k \in Keys, NEW q \in Keys,
         \/ Limiter!CheckPasses(k) \/ Limiter!CheckRefuses(k)
         \/ Limiter!FailsOpen(k) \/ Limiter!FailsShut(k)
  PROVE  Counted(q)'
<1> USE RequestPathAssumption DEF TypeOK, Limiter!LimiterTypeOK
<1>1. Counted(q)
  BY DEF LimitInv
<1>2. count'[q] >= count[q] /\ count'[q] \in Nat /\ count[q] \in Nat
  BY DEF Limiter!CheckPasses, Limiter!CheckRefuses, Limiter!FailsOpen, Limiter!FailsShut,
     Limiter!NoAnswer, Limiter!Increment
<1>3. CASE Limiter!CheckPasses(k)
  <2>1. opened' = opened /\ \A j \in Keys : admitted'[j] = IF j = k THEN admitted[j] + 1 ELSE admitted[j]
    BY <1>3 DEF Limiter!CheckPasses, Limiter!Admit
  <2>2. count'[k] = count[k] + 1 /\ count'[k] <= Limit
    BY <1>3 DEF Limiter!CheckPasses, Limiter!Increment
  <2>3. QED
    BY <1>1, <1>2, <2>1, <2>2 DEF Counted
<1>4. CASE Limiter!CheckRefuses(k) \/ Limiter!FailsShut(k)
  BY <1>1, <1>2, <1>4 DEF Limiter!CheckRefuses, Limiter!FailsShut, Counted
<1>5. CASE Limiter!FailsOpen(k)
  <2>1. /\ \A j \in Keys : admitted'[j] = IF j = k THEN admitted[j] + 1 ELSE admitted[j]
        /\ \A j \in Keys : opened'[j] = IF j = k THEN opened[j] + 1 ELSE opened[j]
        /\ k \notin FailClosed
    BY <1>5 DEF Limiter!FailsOpen, Limiter!Admit
  <2>2. QED
    BY <1>1, <1>2, <2>1 DEF Counted
<1>6. QED
  BY <1>3, <1>4, <1>5

LEMMA StepLimit ==
  ASSUME TypeInv, LimitInv, [Next]_vars
  PROVE  LimitInv'
<1>1. ASSUME NEW r \in Requests, Pass(r) \/ Refuse(r) \/ RefuseUnanswered(r)
      PROVE  LimitInv'
  BY <1>1, CheckCounts, RequestPathAssumption
  DEF Pass, Refuse, RefuseUnanswered, TypeInv, LimitInv
<1>2. CASE UNCHANGED limiterVars
  BY <1>2 DEF limiterVars, LimitInv, Counted
<1>3. CASE Limiter!Tick
  <2>1. ASSUME NEW k \in Keys PROVE Counted(k)'
    <3>1. \/ count'[k] = 0 /\ admitted'[k] = 0 /\ opened'[k] = 0
          \/ count'[k] = count[k] /\ admitted'[k] = admitted[k] /\ opened'[k] = opened[k]
      BY <1>3 DEF Limiter!Tick
    <3>2. QED
      BY <3>1, RequestPathAssumption DEF LimitInv, Counted
  <2>2. QED
    BY <2>1 DEF LimitInv
<1>4. QED
  BY <1>1, <1>2, <1>3 DEF Next, Respond, ClientLeaves, DrainAudit, Exit, Tick, vars

\* WithinLimit: no window of a limiter lets more requests pass than its limit,
\* whatever counters it found, but for those that had no answer and fail open.
THEOREM LimitsHold == Spec => []WithinLimit
<1>1. Init => LimitInv
  BY RequestPathAssumption DEF Init, Limiter!Init, LimitInv, Counted
<1>2. TypeInv /\ LimitInv => WithinLimit
  BY RequestPathAssumption
  DEF TypeInv, TypeOK, Limiter!LimiterTypeOK, LimitInv, Counted, WithinLimit,
      Limiter!AdmittedWithinLimit
<1>3. QED
  BY <1>1, <1>2, StepLimit, TypeInvariant, PTL DEF Spec

-----------------------------------------------------------------------------
(* The order of the audit log.                                             *)

\* The entries of b and then those of q are the last ones of lg, and the
\* entries of done come before them, but for the first one of b.
Aligned(lg, b, q, done) ==
  LET d == Len(lg) - Len(b) - Len(q) IN
  /\ d >= 0
  /\ \A i \in 1 .. Len(b) : b[i] = lg[d + i]
  /\ \A i \in 1 .. Len(q) : q[i] = lg[d + Len(b) + i]
  /\ \A e \in done : \E i \in 1 .. Len(lg) : lg[i] = e /\ i <= d + (IF b = <<>> THEN 0 ELSE 1)

\* One loop at most is under way, and the flag says whether one is; what it has
\* taken and what waits behind it is the tail of what was logged, each once.
QueueInv ==
  /\ \A l, m \in Loops : loop[l].pc # "off" /\ loop[m].pc # "off" => l = m
  /\ draining <=> \E l \in Loops : loop[l].pc # "off"
  /\ ~draining => queue = <<>> /\ Aligned(logged, <<>>, <<>>, stored \cup alerted)
  /\ \A l \in Loops :
       loop[l].pc # "off" => Aligned(logged, loop[l].batch, queue, stored \cup alerted)

LoggedOnce == \A i, j \in 1 .. Len(logged) : logged[i] = logged[j] => i = j

OrderInv == LoggedOnce /\ (alive => QueueInv)

LEMMA AlignedLog ==
  ASSUME NEW S, NEW lg \in Seq(S), NEW b \in Seq(S), NEW q \in Seq(S), NEW e \in S,
         NEW done, Aligned(lg, b, q, done)
  PROVE  Aligned(Append(lg, e), b, Append(q, e), done)
<1> DEFINE lg2 == Append(lg, e)
           q2 == Append(q, e)
           d == Len(lg) - Len(b) - Len(q)
<1>1. /\ Len(lg) \in Nat /\ Len(b) \in Nat /\ Len(q) \in Nat
      /\ Len(lg2) = Len(lg) + 1 /\ Len(q2) = Len(q) + 1
  BY LenProperties, AppendProperties
<1>2. /\ \A i \in 1 .. Len(lg) : lg2[i] = lg[i]
      /\ \A i \in 1 .. Len(q) : q2[i] = q[i]
      /\ lg2[Len(lg) + 1] = e /\ q2[Len(q) + 1] = e
  BY AppendProperties
<1>3. /\ d >= 0
      /\ \A i \in 1 .. Len(b) : b[i] = lg[d + i]
      /\ \A i \in 1 .. Len(q) : q[i] = lg[d + Len(b) + i]
      /\ \A x \in done : \E i \in 1 .. Len(lg) :
           lg[i] = x /\ i <= d + (IF b = <<>> THEN 0 ELSE 1)
  BY DEF Aligned
<1> HIDE DEF lg2, q2
<1>4. d = Len(lg2) - Len(b) - Len(q2)
  BY <1>1
<1>5. \A i \in 1 .. Len(b) : b[i] = lg2[d + i]
  <2>1. ASSUME NEW i \in 1 .. Len(b) PROVE b[i] = lg2[d + i]
    <3>1. d + i \in 1 .. Len(lg)
      BY <1>1, <1>3
    <3>2. QED
      BY <1>2, <1>3, <3>1
  <2>2. QED
    BY <2>1
<1>6. \A i \in 1 .. Len(q2) : q2[i] = lg2[d + Len(b) + i]
  <2>1. ASSUME NEW i \in 1 .. Len(q2) PROVE q2[i] = lg2[d + Len(b) + i]
    <3>1. CASE i = Len(q) + 1
      <4>1. d + Len(b) + i = Len(lg) + 1
        BY <1>1, <3>1
      <4>2. QED
        BY <1>2, <3>1, <4>1
    <3>2. CASE i # Len(q) + 1
      <4>1. i \in 1 .. Len(q) /\ d + Len(b) + i \in 1 .. Len(lg)
        BY <1>1, <1>3, <3>2
      <4>2. QED
        BY <1>2, <1>3, <4>1
    <3>3. QED
      BY <3>1, <3>2
  <2>2. QED
    BY <2>1
<1>7. \A x \in done : \E i \in 1 .. Len(lg2) :
        lg2[i] = x /\ i <= d + (IF b = <<>> THEN 0 ELSE 1)
  BY <1>1, <1>2, <1>3
<1> HIDE DEF d
<1>8. Aligned(lg2, b, q2, done)
  BY <1>3, <1>4, <1>5, <1>6, <1>7 DEF Aligned
<1>9. QED
  BY <1>8 DEF lg2, q2

\* The whole array becomes the batch.
LEMMA AlignedTake ==
  ASSUME NEW S, NEW lg \in Seq(S), NEW q \in Seq(S), NEW done, Aligned(lg, <<>>, q, done)
  PROVE  Aligned(lg, q, <<>>, done)
<1>1. Len(lg) \in Nat /\ Len(q) \in Nat /\ Len(<<>>) = 0
  BY LenProperties, EmptySeq
<1>2. QED
  BY <1>1 DEF Aligned

\* Aligned with its offset named.
AlignedFrom(d, lg, b, q, done) ==
  /\ Len(lg) = d + Len(b) + Len(q)
  /\ \A i \in 1 .. Len(b) : b[i] = lg[d + i]
  /\ \A i \in 1 .. Len(q) : q[i] = lg[d + Len(b) + i]
  /\ \A e \in done : \E i \in 1 .. Len(lg) :
       lg[i] = e /\ i <= d + (IF b = <<>> THEN 0 ELSE 1)

LEMMA AlignedAt ==
  ASSUME NEW S, NEW lg \in Seq(S), NEW b \in Seq(S), NEW q \in Seq(S), NEW done,
         Aligned(lg, b, q, done)
  PROVE  \E d \in Nat : AlignedFrom(d, lg, b, q, done)
<1> DEFINE d == Len(lg) - Len(b) - Len(q)
<1>1. Len(lg) \in Nat /\ Len(b) \in Nat /\ Len(q) \in Nat
  BY LenProperties
<1>2. /\ d >= 0
      /\ \A i \in 1 .. Len(b) : b[i] = lg[d + i]
      /\ \A i \in 1 .. Len(q) : q[i] = lg[d + Len(b) + i]
      /\ \A e \in done : \E i \in 1 .. Len(lg) :
           lg[i] = e /\ i <= d + (IF b = <<>> THEN 0 ELSE 1)
  BY DEF Aligned
<1>3. d \in Nat /\ Len(lg) = d + Len(b) + Len(q)
  BY <1>1, <1>2
<1> HIDE DEF d
<1>4. AlignedFrom(d, lg, b, q, done)
  BY <1>2, <1>3 DEF AlignedFrom
<1>5. QED
  BY <1>3, <1>4

\* One more entry of the batch is done, or is not.
LEMMA AlignedDone ==
  ASSUME NEW S, NEW lg \in Seq(S), NEW b \in Seq(S), NEW q \in Seq(S), b # <<>>,
         NEW done, NEW done2 \in SUBSET (done \cup {Head(b)}), Aligned(lg, b, q, done)
  PROVE  Aligned(lg, b, q, done2)
<1>1. Len(lg) \in Nat /\ Len(b) \in Nat /\ Len(q) \in Nat /\ Len(b) # 0
  BY LenProperties, EmptySeq
<1>2. Head(b) = b[1]
  BY HeadTailProperties
<1>0. PICK d \in Nat : AlignedFrom(d, lg, b, q, done)
  BY AlignedAt
<1>3. /\ Len(lg) = d + Len(b) + Len(q)
      /\ \A i \in 1 .. Len(b) : b[i] = lg[d + i]
      /\ \A i \in 1 .. Len(q) : q[i] = lg[d + Len(b) + i]
      /\ \A e \in done : \E i \in 1 .. Len(lg) : lg[i] = e /\ i <= d + 1
  BY <1>0 DEF AlignedFrom
<1>4. d + 1 \in 1 .. Len(lg) /\ lg[d + 1] = Head(b)
  BY <1>1, <1>2, <1>3
<1>5. \A e \in done2 : \E i \in 1 .. Len(lg) : lg[i] = e /\ i <= d + 1
  <2>1. ASSUME NEW e \in done2 PROVE \E i \in 1 .. Len(lg) : lg[i] = e /\ i <= d + 1
    <3>1. CASE e = Head(b)
      <4>1. d + 1 <= d + 1
        BY <1>3
      <4>2. QED
        BY <1>4, <3>1, <4>1
    <3>2. CASE e \in done
      BY <1>3, <3>2
    <3>3. QED
      BY <3>1, <3>2
  <2>2. QED
    BY <2>1
<1>6. d = Len(lg) - Len(b) - Len(q) /\ d >= 0
  BY <1>1, <1>3
<1>7. QED
  BY <1>3, <1>5, <1>6 DEF Aligned

\* Behind an entry of the batch or the array there are only such, none of them
\* done, when no entry is logged twice.
LEMMA AlignedTail ==
  ASSUME NEW S, NEW lg \in Seq(S), NEW b \in Seq(S), NEW q \in Seq(S), NEW done,
         Aligned(lg, b, q, done),
         \A m, n \in 1 .. Len(lg) : lg[m] = lg[n] => m = n,
         NEW i \in 1 .. Len(lg), NEW j \in 1 .. Len(lg), i < j,
         lg[i] \in ToSet(b) \cup ToSet(q)
  PROVE  lg[j] \in ToSet(b) \cup ToSet(q) /\ lg[j] \notin done
<1>1. /\ Len(lg) \in Nat /\ Len(b) \in Nat /\ Len(q) \in Nat
      /\ ToSet(b) = {b[n] : n \in 1 .. Len(b)} /\ ToSet(q) = {q[n] : n \in 1 .. Len(q)}
  BY LenProperties DEF ToSet
<1>0. PICK d \in Nat : AlignedFrom(d, lg, b, q, done)
  BY AlignedAt
<1>2. /\ Len(lg) = d + Len(b) + Len(q)
      /\ \A n \in 1 .. Len(b) : b[n] = lg[d + n]
      /\ \A n \in 1 .. Len(q) : q[n] = lg[d + Len(b) + n]
      /\ \A e \in done : \E n \in 1 .. Len(lg) :
           lg[n] = e /\ n <= d + (IF b = <<>> THEN 0 ELSE 1)
  BY <1>0 DEF AlignedFrom
<1>3. i > d
  <2>1. CASE lg[i] \in ToSet(b)
    <3>1. PICK n \in 1 .. Len(b) : b[n] = lg[i]
      BY <1>1, <2>1
    <3>2. d + n \in 1 .. Len(lg) /\ d + n > d /\ lg[d + n] = lg[i]
      BY <1>1, <1>2, <3>1
    <3>3. QED
      BY <3>2
  <2>2. CASE lg[i] \in ToSet(q)
    <3>1. PICK n \in 1 .. Len(q) : q[n] = lg[i]
      BY <1>1, <2>2
    <3>2. d + Len(b) + n \in 1 .. Len(lg) /\ d + Len(b) + n > d /\ lg[d + Len(b) + n] = lg[i]
      BY <1>1, <1>2, <3>1
    <3>3. QED
      BY <3>2
  <2>3. QED
    BY <2>1, <2>2
<1>4. lg[j] \in ToSet(b) \cup ToSet(q)
  <2>1. CASE j <= d + Len(b)
    <3>1. j - d \in 1 .. Len(b) /\ d + (j - d) = j
      BY <1>1, <1>2, <1>3, <2>1
    <3>2. b[j - d] = lg[j]
      BY <1>2, <3>1
    <3>3. QED
      BY <1>1, <3>1, <3>2
  <2>2. CASE j > d + Len(b)
    <3>1. j - d - Len(b) \in 1 .. Len(q) /\ d + Len(b) + (j - d - Len(b)) = j
      BY <1>1, <1>2, <2>2
    <3>2. q[j - d - Len(b)] = lg[j]
      BY <1>2, <3>1
    <3>3. QED
      BY <1>1, <3>1, <3>2
  <2>3. QED
    BY <1>1, <1>2, <2>1, <2>2
<1>5. lg[j] \notin done
  <2>1. SUFFICES ASSUME lg[j] \in done PROVE FALSE
    OBVIOUS
  <2>2. PICK n \in 1 .. Len(lg) : lg[n] = lg[j] /\ n <= d + (IF b = <<>> THEN 0 ELSE 1)
    BY <1>2, <2>1
  <2>3. n = j
    BY <2>2
  <2>4. QED
    BY <1>1, <1>3, <2>2, <2>3
<1>6. QED
  BY <1>4, <1>5

\* Its first entry leaves the batch.
LEMMA AlignedNext ==
  ASSUME NEW S, NEW lg \in Seq(S), NEW b \in Seq(S), NEW q \in Seq(S), b # <<>>,
         NEW done, Aligned(lg, b, q, done)
  PROVE  Aligned(lg, Tail(b), q, done)
<1> DEFINE t == Tail(b)
           d == Len(lg) - Len(b) - Len(q)
<1>1. /\ Len(lg) \in Nat /\ Len(b) \in Nat /\ Len(q) \in Nat
      /\ Len(b) # 0 /\ Len(t) = Len(b) - 1 /\ t \in Seq(S)
  BY LenProperties, EmptySeq, HeadTailProperties
<1>2. \A i \in 1 .. Len(t) : t[i] = b[i + 1]
  BY HeadTailProperties
<1>3. /\ d >= 0
      /\ \A i \in 1 .. Len(b) : b[i] = lg[d + i]
      /\ \A i \in 1 .. Len(q) : q[i] = lg[d + Len(b) + i]
      /\ \A e \in done : \E i \in 1 .. Len(lg) : lg[i] = e /\ i <= d + 1
  BY DEF Aligned
<1> HIDE DEF t
<1>4. d + 1 = Len(lg) - Len(t) - Len(q)
  BY <1>1
<1>5. \A i \in 1 .. Len(t) : t[i] = lg[d + 1 + i]
  <2>1. ASSUME NEW i \in 1 .. Len(t) PROVE t[i] = lg[d + 1 + i]
    <3>1. i + 1 \in 1 .. Len(b) /\ d + (i + 1) = d + 1 + i
      BY <1>1
    <3>2. QED
      BY <1>2, <1>3, <3>1
  <2>2. QED
    BY <2>1
<1>6. \A i \in 1 .. Len(q) : q[i] = lg[d + 1 + Len(t) + i]
  <2>1. ASSUME NEW i \in 1 .. Len(q) PROVE d + 1 + Len(t) + i = d + Len(b) + i
    BY <1>1
  <2>2. QED
    BY <1>3, <2>1
<1>7. \A e \in done : \E i \in 1 .. Len(lg) :
        lg[i] = e /\ i <= d + 1 + (IF t = <<>> THEN 0 ELSE 1)
  BY <1>1, <1>3
<1>8. d + 1 >= 0
  BY <1>1, <1>3
<1> DEFINE d2 == d + 1
<1>9. /\ d2 = Len(lg) - Len(t) - Len(q) /\ d2 >= 0
      /\ \A i \in 1 .. Len(t) : t[i] = lg[d2 + i]
      /\ \A i \in 1 .. Len(q) : q[i] = lg[d2 + Len(t) + i]
      /\ \A e \in done : \E i \in 1 .. Len(lg) :
           lg[i] = e /\ i <= d2 + (IF t = <<>> THEN 0 ELSE 1)
  BY <1>4, <1>5, <1>6, <1>7, <1>8
<1> HIDE DEF d2
<1>10. Aligned(lg, t, q, done)
  BY <1>9 DEF Aligned
<1>11. QED
  BY <1>10 DEF t

\* What the loops do to the queue.
LEMMA TakeBatchOrder ==
  ASSUME TypeInv, QueueInv, NEW l \in Loops, loop[l].pc # "off",
         NEW done, Aligned(logged, <<>>, queue, done),
         Audit!TakeBatch(l), logged' = logged, stored' \cup alerted' = done
  PROVE  QueueInv'
<1>1. loop \in [Loops -> LoopRecord] /\ queue \in Seq(Requests) /\ logged \in Seq(Requests)
  BY DEF TypeInv, TypeOK, Audit!AuditTypeOK, LoopRecord
<1>2. \A m \in Loops : m # l => loop[m].pc = "off"
  BY DEF QueueInv
<1>3. CASE queue = <<>>
  <2>1. /\ queue' = <<>> /\ ~draining'
        /\ \A m \in Loops : loop'[m] = IF m = l THEN Audit!IdleLoop ELSE loop[m]
    BY <1>1, <1>3 DEF Audit!TakeBatch
  <2>2. \A m \in Loops : loop'[m].pc = "off"
    BY <1>2, <2>1 DEF Audit!IdleLoop
  <2>3. QED
    BY <1>3, <2>1, <2>2 DEF QueueInv
<1>4. CASE queue # <<>>
  <2> DEFINE d == [pc |-> "write", batch |-> queue, tries |-> 1]
  <2>1. /\ queue' = <<>> /\ draining' = TRUE
        /\ \A m \in Loops : loop'[m] = IF m = l THEN d ELSE loop[m]
    BY <1>1, <1>4 DEF Audit!TakeBatch
  <2>2. Aligned(logged, queue, <<>>, done)
    BY <1>1, AlignedTake
  <2>3. d.pc # "off" /\ d.batch = queue
    OBVIOUS
  <2> HIDE DEF d
  <2>4. QED
    BY <1>2, <2>1, <2>2, <2>3 DEF QueueInv
<1>5. QED
  BY <1>3, <1>4

LEMMA NextItemOrder ==
  ASSUME TypeInv, QueueInv, NEW l \in Loops, loop[l].pc = "write",
         Audit!NextItem(l), logged' = logged,
         stored' \cup alerted' \subseteq stored \cup alerted \cup {Head(loop[l].batch)}
  PROVE  QueueInv'
<1> DEFINE b == loop[l].batch
           done == stored' \cup alerted'
<1>1. /\ loop \in [Loops -> LoopRecord] /\ queue \in Seq(Requests)
      /\ logged \in Seq(Requests) /\ b \in Seq(Requests) /\ b # <<>>
  BY DEF TypeInv, TypeOK, Audit!AuditTypeOK, LoopsWork, LoopRecord, Works
<1>2. Aligned(logged, b, queue, stored \cup alerted)
  BY DEF QueueInv
<1>3. done \in SUBSET ((stored \cup alerted) \cup {Head(b)})
  OBVIOUS
<1>4. Aligned(logged, b, queue, done)
  <2> HIDE DEF b, done
  <2>1. QED
    BY <1>1, <1>2, <1>3, AlignedDone
<1>5. Aligned(logged, Tail(b), queue, done)
  <2> HIDE DEF b, done
  <2>1. QED
    BY <1>1, <1>4, AlignedNext
<1>6. CASE Len(b) = 1
  <2>1. Tail(b) = <<>>
    <3>1. Tail(b) \in Seq(Requests) /\ Len(Tail(b)) = 0
      BY <1>1, <1>6, HeadTailProperties
    <3>2. QED
      BY <3>1, EmptySeq
  <2>2. QED
    BY <1>5, <1>6, <2>1, TakeBatchOrder DEF Audit!NextItem
<1>7. CASE Len(b) # 1
  <2> DEFINE d == [pc |-> "write", batch |-> Tail(b), tries |-> 1]
  <2>1. /\ UNCHANGED <<queue, draining>>
        /\ \A m \in Loops : loop'[m] = IF m = l THEN d ELSE loop[m]
    BY <1>1, <1>7 DEF Audit!NextItem
  <2>2. d.pc # "off" /\ d.batch = Tail(b)
    OBVIOUS
  <2> HIDE DEF d
  <2>3. draining /\ \A m \in Loops : m # l => loop[m].pc = "off"
    BY DEF QueueInv
  <2> HIDE DEF b
  <2>4. QED
    BY <1>5, <2>1, <2>2, <2>3 DEF QueueInv
<1>8. QED
  BY <1>6, <1>7

LEMMA LogOrder ==
  ASSUME TypeInv, OrderInv, alive, NEW r \in Requests, Audit!LogAudit(r)
  PROVE  LoggedOnce' /\ QueueInv'
<1>1. /\ loop \in [Loops -> LoopRecord] /\ queue \in Seq(Requests)
      /\ logged \in Seq(Requests) /\ QueueInv /\ LoggedOnce
      /\ \A l \in Loops : loop[l].batch \in Seq(Requests)
  BY DEF TypeInv, TypeOK, Audit!AuditTypeOK, LoopRecord, OrderInv
<1>2. /\ logged' = Append(logged, r) /\ queue' = Append(queue, r)
      /\ draining' = TRUE /\ UNCHANGED <<stored, alerted>>
      /\ r \notin ToSet(logged)
  BY DEF Audit!LogAudit, Audit!ToSet, ToSet
<1>3. LoggedOnce'
  <2>1. /\ Len(logged) \in Nat /\ Len(logged') = Len(logged) + 1
        /\ \A i \in 1 .. Len(logged) : logged'[i] = logged[i] /\ logged[i] # r
        /\ logged'[Len(logged) + 1] = r
    BY <1>1, <1>2, LenProperties, AppendProperties DEF ToSet
  <2>2. QED
    BY <1>1, <2>1 DEF LoggedOnce
<1>4. \A b \in Seq(Requests) :
        Aligned(logged, b, queue, stored \cup alerted)
          => Aligned(logged', b, queue', stored' \cup alerted')
  BY <1>1, <1>2, AlignedLog
<1>5. CASE draining
  <2>1. loop' = loop
    BY <1>5 DEF Audit!LogAudit
  <2>2. QED
    BY <1>1, <1>2, <1>3, <1>4, <1>5, <2>1 DEF QueueInv
<1>6. CASE ~draining
  <2> DEFINE c == CHOOSE l \in Loops : loop[l].pc = "off"
  <2>1. /\ \E l \in Loops : loop[l].pc = "off"
        /\ loop' = [loop EXCEPT ![c].pc = "scheduled"]
    BY <1>6 DEF Audit!LogAudit
  <2>2. c \in Loops /\ loop[c].pc = "off"
    BY <2>1, ChosenLoop
  <2> HIDE DEF c
  <2>3. /\ \A l \in Loops : loop[l].pc = "off"
        /\ queue = <<>> /\ Aligned(logged, <<>>, queue, stored \cup alerted)
    BY <1>1, <1>6 DEF QueueInv
  <2>4. loop[c].batch = <<>>
    BY <2>2 DEF TypeInv, LoopsWork, Works
  <2>5. /\ loop'[c].pc = "scheduled" /\ loop'[c].batch = <<>>
        /\ \A l \in Loops : l # c => loop'[l] = loop[l]
    BY <1>1, <2>1, <2>2, <2>4 DEF LoopRecord
  <2>6. <<>> \in Seq(Requests)
    BY EmptySeq
  <2>7. Aligned(logged', <<>>, queue', stored' \cup alerted')
    BY <1>4, <2>3, <2>6
  <2>8. QED
    BY <1>2, <1>3, <2>2, <2>3, <2>5, <2>7 DEF QueueInv
<1>7. QED
  BY <1>5, <1>6

LEMMA LoopStepOrder ==
  ASSUME TypeInv, QueueInv, NEW l \in Loops, Audit!LoopStep(l)
  PROVE  QueueInv' /\ logged' = logged
<1>1. /\ loop \in [Loops -> LoopRecord] /\ queue \in Seq(Requests)
      /\ logged \in Seq(Requests) /\ loop[l].batch \in Seq(Requests)
  BY DEF TypeInv, TypeOK, Audit!AuditTypeOK, LoopRecord
<1>2. \A m \in Loops : m # l /\ loop[l].pc # "off" => loop[m].pc = "off"
  BY DEF QueueInv
<1>3. CASE Audit!StartDrain(l)
  <2>1. loop[l].pc = "scheduled" /\ loop[l].batch = <<>>
    BY <1>3 DEF Audit!StartDrain, TypeInv, LoopsWork, Works
  <2>2. Aligned(logged, <<>>, queue, stored \cup alerted)
    BY <2>1 DEF QueueInv
  <2>3. QED
    BY <1>3, <2>1, <2>2, TakeBatchOrder DEF Audit!StartDrain
<1>4. CASE Audit!WriteSucceeds(l)
  BY <1>4, NextItemOrder DEF Audit!WriteSucceeds
<1>5. CASE Audit!WriteThrows(l) /\ ~(loop[l].tries < AuditAttempts)
  <2>1. /\ loop[l].pc = "write" /\ Audit!NextItem(l) /\ logged' = logged
        /\ stored' \subseteq stored \cup {Head(loop[l].batch)}
        /\ alerted' = alerted \cup {Head(loop[l].batch)}
    BY <1>5 DEF Audit!WriteThrows
  <2>2. QED
    BY <2>1, NextItemOrder
<1>6. CASE \/ Audit!WriteThrows(l) /\ loop[l].tries < AuditAttempts
           \/ Audit!BackoffEnds(l)
  <2>1. /\ UNCHANGED <<queue, draining, logged, alerted>>
        /\ loop[l].pc # "off" /\ loop'[l].pc # "off"
        /\ loop'[l].batch = loop[l].batch
        /\ \A m \in Loops : m # l => loop'[m] = loop[m]
    BY <1>1, <1>6 DEF Audit!WriteThrows, Audit!BackoffEnds, LoopRecord
  <2>2. stored' \cup alerted' \in SUBSET ((stored \cup alerted) \cup {Head(loop[l].batch)})
    BY <1>6 DEF Audit!WriteThrows, Audit!BackoffEnds
  <2>3. loop[l].batch # <<>>
    BY <1>6 DEF Audit!WriteThrows, Audit!BackoffEnds, TypeInv, LoopsWork, Works
  <2>4. Aligned(logged, loop[l].batch, queue, stored \cup alerted)
    BY <2>1 DEF QueueInv
  <2>5. Aligned(logged, loop[l].batch, queue, stored' \cup alerted')
    BY <1>1, <2>2, <2>3, <2>4, AlignedDone
  <2>6. draining
    BY <2>1 DEF QueueInv
  <2>7. QED
    BY <1>2, <2>1, <2>5, <2>6 DEF QueueInv
<1>7. QED
  BY <1>3, <1>4, <1>5, <1>6 DEF Audit!LoopStep

LEMMA InitOrder == Init => OrderInv
<1> SUFFICES ASSUME Init PROVE OrderInv
  OBVIOUS
<1>1. /\ logged = <<>> /\ queue = <<>> /\ stored = {} /\ alerted = {}
      /\ ~draining /\ \A l \in Loops : loop[l].pc = "off"
  BY DEF Init, Audit!Init, Audit!IdleLoop
<1>2. Len(<<>>) = 0
  BY EmptySeq
<1>3. QED
  BY <1>1, <1>2 DEF OrderInv, LoggedOnce, QueueInv, Aligned

LEMMA StepOrder ==
  ASSUME TypeInv, OrderInv, [Next]_vars
  PROVE  OrderInv'
<1>1. CASE UNCHANGED <<auditVars, alive>>
  BY <1>1 DEF auditVars, OrderInv, LoggedOnce, QueueInv
<1>2. ASSUME NEW r \in Requests, alive, Audit!LogAudit(r)
      PROVE  OrderInv'
  BY <1>2, LogOrder DEF OrderInv
<1>3. ASSUME NEW l \in Loops, DrainAudit(l)
      PROVE  OrderInv'
  BY <1>3, LoopStepOrder DEF DrainAudit, OrderInv, LoggedOnce
<1>4. CASE Exit
  BY <1>4 DEF Exit, OrderInv, LoggedOnce
<1>5. QED
  BY <1>1, <1>2, <1>3, <1>4
  DEF Next, Pass, Refuse, RefuseUnanswered, Respond, ClientLeaves, Tick, At, vars

\* AuditInOrder: while the process runs, what is done of the log is the oldest
\* part of it, and no younger entry is out of memory while an older one waits.
THEOREM AuditKeepsOrder == Spec => []AuditInOrder
<1>1. TypeInv /\ OrderInv => AuditInOrder
  <2> SUFFICES ASSUME TypeInv, OrderInv, alive,
                      NEW i \in DOMAIN logged, NEW j \in DOMAIN logged,
                      i < j, Audit!InMemory(logged[i])
               PROVE  /\ Audit!InMemory(logged[j])
                      /\ logged[j] \notin stored \cup alerted
    BY DEF AuditInOrder, Audit!SettledInOrder
  <2>1. /\ logged \in Seq(Requests) /\ queue \in Seq(Requests)
        /\ \A l \in Loops : loop[l].batch \in Seq(Requests) /\ Works(loop[l])
        /\ QueueInv /\ LoggedOnce
    BY DEF TypeInv, TypeOK, Audit!AuditTypeOK, LoopsWork, OrderInv
  <2>2. i \in 1 .. Len(logged) /\ j \in 1 .. Len(logged) /\ Len(logged) \in Nat
    BY <2>1, LenProperties
  <2>3. PICK l \in Loops : loop[l].pc # "off"
    <3>1. CASE logged[i] \in ToSet(queue)
      <4>1. queue # <<>>
        BY <3>1, EmptySeq DEF ToSet
      <4>2. QED
        BY <2>1, <4>1 DEF QueueInv
    <3>2. CASE \E l \in Loops : logged[i] \in ToSet(loop[l].batch)
      <4>1. PICK l \in Loops : logged[i] \in ToSet(loop[l].batch)
        BY <3>2
      <4>2. loop[l].batch # <<>>
        BY <4>1, EmptySeq DEF ToSet
      <4>3. QED
        BY <2>1, <4>2 DEF Works
    <3>3. QED
      BY <3>1, <3>2 DEF Audit!InMemory, Audit!ToSet, ToSet
  <2>4. \A m \in Loops : m # l => loop[m].batch = <<>>
    BY <2>1, <2>3 DEF QueueInv, Works
  <2>5. logged[i] \in ToSet(loop[l].batch) \cup ToSet(queue)
    <3>1. ToSet(<<>>) = {}
      BY EmptySeq DEF ToSet
    <3>2. QED
      BY <2>4, <3>1 DEF Audit!InMemory, Audit!ToSet, ToSet
  <2>6. Aligned(logged, loop[l].batch, queue, stored \cup alerted)
    BY <2>1, <2>3 DEF QueueInv
  <2>7. /\ logged[j] \in ToSet(loop[l].batch) \cup ToSet(queue)
        /\ logged[j] \notin stored \cup alerted
    BY <2>1, <2>2, <2>5, <2>6, AlignedTail DEF LoggedOnce
  <2>8. QED
    BY <2>7 DEF Audit!InMemory, Audit!ToSet, ToSet
<1>2. QED
  BY <1>1, InitOrder, StepOrder, TypeInvariant, PTL DEF Spec

-----------------------------------------------------------------------------
(* What the liveness of the audit log and of the limiter rests on.         *)

\* No entry gets lost on its way: what was logged is in memory, or has a row
\* or an alert.
NoneLost == \A e \in ToSet(logged) : e \in stored \cup alerted \/ Audit!InMemory(e)

\* A request that was answered while its client waited was logged.
AnswersLogged == \A r \in Requests : req[r] = "done" /\ r \notin gone => r \in ToSet(logged)

LogInv == AnswersLogged /\ (alive => NoneLost)

LEMMA SetOfAppend ==
  ASSUME NEW S, NEW q \in Seq(S), NEW e \in S
  PROVE  ToSet(Append(q, e)) = ToSet(q) \cup {e}
<1>1. /\ Len(q) \in Nat /\ DOMAIN q = 1 .. Len(q)
      /\ DOMAIN Append(q, e) = 1 .. Len(q) + 1
      /\ \A i \in 1 .. Len(q) : Append(q, e)[i] = q[i]
      /\ Append(q, e)[Len(q) + 1] = e
  BY LenProperties, AppendProperties
<1> DEFINE a == Append(q, e)
<1> HIDE DEF a
<1>2. /\ DOMAIN a = 1 .. Len(q) + 1 /\ a[Len(q) + 1] = e
      /\ \A i \in 1 .. Len(q) : a[i] = q[i]
  BY <1>1 DEF a
<1>3. ToSet(a) = ToSet(q) \cup {e}
  BY <1>1, <1>2 DEF ToSet
<1>4. QED
  BY <1>3 DEF a

LEMMA SetOfTail ==
  ASSUME NEW S, NEW b \in Seq(S), b # <<>>
  PROVE  /\ ToSet(b) \subseteq ToSet(Tail(b)) \cup {Head(b)}
         /\ Len(b) = 1 => ToSet(b) \subseteq {Head(b)}
<1> DEFINE t == Tail(b)
<1>1. /\ Len(b) \in Nat /\ Len(b) # 0 /\ DOMAIN b = 1 .. Len(b)
      /\ t \in Seq(S) /\ Len(t) = Len(b) - 1 /\ Head(b) = b[1]
      /\ \A i \in 1 .. Len(t) : t[i] = b[i + 1]
  BY LenProperties, EmptySeq, HeadTailProperties
<1> HIDE DEF t
<1>2. DOMAIN t = 1 .. Len(b) - 1
  BY <1>1, LenProperties
<1>3. ASSUME NEW i \in 1 .. Len(b)
      PROVE  b[i] = Head(b) \/ (Len(b) # 1 /\ b[i] \in ToSet(t))
  <2>1. CASE i = 1
    BY <1>1, <2>1
  <2>2. CASE i # 1
    <3>1. i - 1 \in 1 .. Len(t) /\ (i - 1) + 1 = i /\ Len(b) # 1
      BY <1>1, <2>2
    <3>2. t[i - 1] = b[i] /\ i - 1 \in DOMAIN t
      BY <1>1, <1>2, <3>1
    <3>3. QED
      BY <3>1, <3>2 DEF ToSet
  <2>3. QED
    BY <2>1, <2>2
<1>4. QED
  BY <1>1, <1>3 DEF ToSet, t

\* Where an entry in memory is.
LEMMA MemoryIs ==
  \A e : Audit!InMemory(e) <=> e \in ToSet(queue) \/ \E l \in Loops : e \in ToSet(loop[l].batch)
  BY DEF Audit!InMemory, Audit!ToSet, ToSet

\* A loop that takes the array or goes to the next entry loses none, when the
\* entry it is through with is done.
LEMMA TakeBatchKeeps ==
  ASSUME TypeInv, NEW l \in Loops, Audit!TakeBatch(l), NEW e, Audit!InMemory(e)
  PROVE  Audit!InMemory(e)' \/ e \in ToSet(loop[l].batch)
<1> DEFINE d == IF queue = <<>> THEN Audit!IdleLoop
                ELSE [pc |-> "write", batch |-> queue, tries |-> 1]
<1>1. loop \in [Loops -> LoopRecord] /\ loop' = [loop EXCEPT ![l] = d]
  BY DEF TypeInv, TypeOK, Audit!AuditTypeOK, LoopRecord, Audit!TakeBatch
<1>2. d.batch = queue
  BY DEF Audit!IdleLoop
<1> HIDE DEF d
<1>3. loop'[l].batch = queue /\ \A m \in Loops : m # l => loop'[m] = loop[m]
  BY <1>1, <1>2
<1>4. QED
  BY <1>3, MemoryIs DEF Audit!InMemory, Audit!ToSet, ToSet

LEMMA NextItemKeeps ==
  ASSUME TypeInv, NEW l \in Loops, loop[l].pc = "write", Audit!NextItem(l),
         NEW e, Audit!InMemory(e)
  PROVE  Audit!InMemory(e)' \/ e = Head(loop[l].batch)
<1> DEFINE b == loop[l].batch
<1>1. loop \in [Loops -> LoopRecord] /\ b \in Seq(Requests) /\ b # <<>>
  BY DEF TypeInv, TypeOK, Audit!AuditTypeOK, LoopsWork, LoopRecord, Works
<1>2. /\ ToSet(b) \subseteq ToSet(Tail(b)) \cup {Head(b)}
      /\ Len(b) = 1 => ToSet(b) \subseteq {Head(b)}
  <2> HIDE DEF b
  <2>1. QED
    BY <1>1, SetOfTail
<1>3. CASE Len(b) = 1
  BY <1>2, <1>3, TakeBatchKeeps DEF Audit!NextItem
<1>4. CASE Len(b) # 1
  <2> DEFINE d == [pc |-> "write", batch |-> Tail(b), tries |-> 1]
  <2>1. queue' = queue /\ loop' = [loop EXCEPT ![l] = d]
    BY <1>4 DEF Audit!NextItem
  <2>2. d.batch = Tail(b)
    OBVIOUS
  <2> HIDE DEF d
  <2>3. loop'[l].batch = Tail(b) /\ \A m \in Loops : m # l => loop'[m] = loop[m]
    BY <1>1, <2>1, <2>2
  <2>4. Audit!InMemory(e)' <=>
          e \in ToSet(queue') \/ \E m \in Loops : e \in ToSet(loop'[m].batch)
    BY DEF Audit!InMemory, Audit!ToSet, ToSet
  <2>5. e \in ToSet(queue) \/ \E m \in Loops : e \in ToSet(loop[m].batch)
    BY MemoryIs
  <2>6. CASE \E m \in Loops : m # l /\ e \in ToSet(loop[m].batch)
    BY <2>3, <2>4, <2>6
  <2>7. CASE e \in ToSet(b)
    BY <1>2, <2>3, <2>4, <2>7
  <2>8. CASE e \in ToSet(queue)
    <3>1. e \in ToSet(queue')
      BY <2>1, <2>8 DEF ToSet
    <3>2. QED
      BY <2>4, <3>1
  <2>9. QED
    BY <2>5, <2>6, <2>7, <2>8
<1>5. QED
  BY <1>3, <1>4

LEMMA LoopStepKeeps ==
  ASSUME TypeInv, NoneLost, NEW l \in Loops, Audit!LoopStep(l)
  PROVE  NoneLost'
<1>1. loop \in [Loops -> LoopRecord] /\ logged' = logged
      /\ stored \subseteq stored' /\ alerted \subseteq alerted'
  BY DEF TypeInv, TypeOK, Audit!AuditTypeOK, LoopRecord, Audit!LoopStep, Audit!StartDrain,
     Audit!WriteSucceeds, Audit!WriteThrows, Audit!BackoffEnds
<1>2. SUFFICES ASSUME NEW e, Audit!InMemory(e)
               PROVE  e \in stored' \cup alerted' \/ Audit!InMemory(e)'
  BY <1>1 DEF NoneLost, ToSet
<1>3. CASE Audit!StartDrain(l)
  <2>1. loop[l].batch = <<>> /\ Audit!TakeBatch(l)
    BY <1>3 DEF Audit!StartDrain, TypeInv, LoopsWork, Works
  <2>2. ToSet(<<>>) = {}
    BY EmptySeq DEF ToSet
  <2>3. QED
    BY <1>2, <2>1, <2>2, TakeBatchKeeps
<1>4. CASE Audit!WriteSucceeds(l)
  BY <1>2, <1>4, NextItemKeeps DEF Audit!WriteSucceeds
<1>5. CASE Audit!WriteThrows(l) /\ ~(loop[l].tries < AuditAttempts)
  <2>1. /\ loop[l].pc = "write" /\ Audit!NextItem(l)
        /\ alerted' = alerted \cup {Head(loop[l].batch)}
    BY <1>5 DEF Audit!WriteThrows
  <2>2. QED
    BY <1>2, <2>1, NextItemKeeps
<1>6. CASE \/ Audit!WriteThrows(l) /\ loop[l].tries < AuditAttempts
           \/ Audit!BackoffEnds(l)
  <2>1. /\ queue' = queue /\ loop'[l].batch = loop[l].batch
        /\ \A m \in Loops : m # l => loop'[m] = loop[m]
    BY <1>1, <1>6 DEF Audit!WriteThrows, Audit!BackoffEnds, LoopRecord
  <2>2. QED
    BY <1>2, <2>1 DEF Audit!InMemory, Audit!ToSet
<1>7. QED
  BY <1>3, <1>4, <1>5, <1>6 DEF Audit!LoopStep

LEMMA LogKeeps ==
  ASSUME TypeInv, NEW r \in Requests, Audit!LogAudit(r)
  PROVE  /\ ToSet(logged') = ToSet(logged) \cup {r}
         /\ NoneLost => NoneLost'
<1>1. /\ logged' = Append(logged, r) /\ queue' = Append(queue, r)
      /\ UNCHANGED <<stored, alerted>>
  BY DEF Audit!LogAudit
<1>2. ToSet(logged') = ToSet(logged) \cup {r} /\ ToSet(queue') = ToSet(queue) \cup {r}
  <2>1. logged \in Seq(Requests) /\ queue \in Seq(Requests)
    BY DEF TypeInv, TypeOK, Audit!AuditTypeOK
  <2>2. QED
    BY <1>1, <2>1, SetOfAppend
<1>3. \A l \in Loops : loop'[l].batch = loop[l].batch
  <2>1. loop \in [Loops -> LoopRecord]
    BY DEF TypeInv, TypeOK, Audit!AuditTypeOK, LoopRecord
  <2>2. CASE draining
    BY <2>2 DEF Audit!LogAudit
  <2>3. CASE ~draining
    <3> DEFINE c == CHOOSE l \in Loops : loop[l].pc = "off"
    <3>1. c \in Loops /\ loop' = [loop EXCEPT ![c].pc = "scheduled"]
      BY <2>3, ChosenLoop DEF Audit!LogAudit
    <3> HIDE DEF c
    <3>2. QED
      BY <2>1, <3>1 DEF LoopRecord
  <2>4. QED
    BY <2>2, <2>3
<1>4. \A e : Audit!InMemory(e) \/ e = r => Audit!InMemory(e)'
  BY <1>2, <1>3, MemoryIs DEF Audit!InMemory, Audit!ToSet, ToSet
<1>5. QED
  BY <1>1, <1>2, <1>4 DEF NoneLost, ToSet

LEMMA StepLog ==
  ASSUME TypeInv, LogInv, [Next]_vars
  PROVE  LogInv'
<1>1. ASSUME NEW r \in Requests, Respond(r)
      PROVE  LogInv'
  <2>1. /\ alive /\ gone' = gone /\ alive' = alive /\ req' = [req EXCEPT ![r] = "done"]
        /\ \A q \in Requests : q # r => req'[q] = req[q]
    BY <1>1 DEF Respond, At, TypeInv, TypeOK
  <2>2. CASE r \in gone
    <3>1. UNCHANGED auditVars
      BY <1>1, <2>2 DEF Respond
    <3>2. QED
      BY <2>1, <2>2, <3>1
      DEF auditVars, LogInv, AnswersLogged, NoneLost, Audit!InMemory, Audit!ToSet, ToSet
  <2>3. CASE r \notin gone
    <3>1. Audit!LogAudit(r)
      BY <1>1, <2>3 DEF Respond
    <3>2. ToSet(logged') = ToSet(logged) \cup {r} /\ NoneLost'
      BY <2>1, <3>1, LogKeeps DEF LogInv
    <3>3. AnswersLogged'
      BY <2>1, <3>2 DEF LogInv, AnswersLogged, ToSet
    <3>4. QED
      BY <3>2, <3>3 DEF LogInv
  <2>4. QED
    BY <2>2, <2>3
<1>2. ASSUME NEW l \in Loops, DrainAudit(l)
      PROVE  LogInv'
  <2>1. alive /\ Audit!LoopStep(l) /\ UNCHANGED <<req, gone, alive>>
    BY <1>2 DEF DrainAudit
  <2>2. logged' = logged
    BY <2>1 DEF Audit!LoopStep, Audit!StartDrain, Audit!WriteSucceeds, Audit!WriteThrows,
       Audit!BackoffEnds
  <2>3. NoneLost'
    BY <2>1, LoopStepKeeps DEF LogInv
  <2>4. QED
    BY <2>1, <2>2, <2>3 DEF LogInv, AnswersLogged, ToSet
<1>3. CASE \/ \E r \in Requests : Pass(r) \/ Refuse(r) \/ RefuseUnanswered(r) \/ ClientLeaves(r)
           \/ Tick \/ UNCHANGED vars
  <2>1. UNCHANGED auditVars /\ alive' = alive /\ gone \subseteq gone'
    BY <1>3 DEF Pass, Refuse, RefuseUnanswered, ClientLeaves, Tick, vars
  <2>2. \A q \in Requests : req'[q] = "done" => req[q] = "done"
    BY <1>3 DEF Pass, Refuse, RefuseUnanswered, ClientLeaves, Tick, vars, At, TypeInv, TypeOK
  <2>3. QED
    BY <2>1, <2>2
    DEF auditVars, LogInv, AnswersLogged, NoneLost, Audit!InMemory, Audit!ToSet, ToSet
<1>4. CASE Exit
  BY <1>4 DEF Exit, LogInv, AnswersLogged, ToSet
<1>5. QED
  BY <1>1, <1>2, <1>3, <1>4 DEF Next

\* While the process runs, the response that went out is in the queue, in a
\* batch, in the table or in an alert: what ServedIsAudited needs a loop for
\* is never anywhere else.
EntryIsKept ==
  alive => \A r \in Requests :
    req[r] = "done" /\ r \notin gone => r \in stored \cup alerted \/ Audit!InMemory(r)

\* EntryIsKept, through failed writes, retries and whatever is logged
\* meanwhile: the queue of audit.ts forgets no entry.
THEOREM EntriesAreKept == Spec => []EntryIsKept
<1>1. Init => LogInv
  <2>1. ToSet(<<>>) = {}
    BY EmptySeq DEF ToSet
  <2>2. QED
    BY <2>1 DEF Init, Audit!Init, LogInv, AnswersLogged, NoneLost
<1>2. LogInv => EntryIsKept
  BY DEF LogInv, AnswersLogged, NoneLost, EntryIsKept
<1>3. QED
  BY <1>1, <1>2, StepLog, TypeInvariant, PTL DEF Spec

\* A counter that refused a request has a time to live, whatever state the
\* service found it in: what RefusalLifts needs is only that time passes.
RefuserExpires ==
  \A r \in Requests :
    req[r] = "refused" => count[KeyOf[r]] = 0 \/ ttl[KeyOf[r]] \in 1 .. Window

ExpiryInv ==
  /\ \A k \in Keys : count[k] = 0 <=> ttl[k] = 0
  /\ \A r \in Requests : req[r] = "refused" => ttl[KeyOf[r]] # NoTtl

LEMMA StepExpiry ==
  ASSUME TypeInv, ExpiryInv, [Next]_vars
  PROVE  ExpiryInv'
<1> USE RequestPathAssumption
<1>1. /\ count \in [Keys -> 0 .. Limit + 1] /\ ttl \in [Keys -> 0 .. Window \cup {NoTtl}]
      /\ \A r \in Requests : KeyOf[r] \in Keys
      /\ req \in [Requests -> {"check", "handle", "done", "refused", "failed"}]
  BY DEF TypeInv, TypeOK, Limiter!LimiterTypeOK
<1>2. ASSUME NEW k \in Keys, Limiter!Increment(k)
      PROVE  /\ \A j \in Keys : count'[j] = 0 <=> ttl'[j] = 0
             /\ ttl'[k] # NoTtl
             /\ \A j \in Keys : ttl[j] # NoTtl => ttl'[j] # NoTtl
  <2>1. /\ count'[k] # 0
        /\ \A j \in Keys : j # k => count'[j] = count[j] /\ ttl'[j] = ttl[j]
        /\ ttl'[k] = IF count'[k] = 1 \/ ttl[k] = NoTtl THEN Window ELSE ttl[k]
        /\ count'[k] = 1 \/ count[k] # 0
    BY <1>1, <1>2 DEF Limiter!Increment
  <2>2. Window # 0 /\ Window # NoTtl /\ NoTtl # 0
    OBVIOUS
  <2>3. QED
    BY <1>1, <2>1, <2>2 DEF ExpiryInv
<1>3. ASSUME NEW r \in Requests, Pass(r) \/ Refuse(r) \/ RefuseUnanswered(r)
      PROVE  ExpiryInv'
  <2>1. Limiter!Increment(KeyOf[r]) \/ (UNCHANGED <<count, ttl>> /\ ~Refuse(r))
    BY <1>3 DEF Pass, Refuse, RefuseUnanswered, Limiter!CheckPasses, Limiter!CheckRefuses,
       Limiter!FailsOpen, Limiter!FailsShut, Limiter!NoAnswer
  <2>2. \A q \in Requests : req'[q] = "refused" => req[q] = "refused" \/ (q = r /\ Refuse(r))
    BY <1>1, <1>3 DEF Pass, Refuse, RefuseUnanswered
  <2>3. CASE Limiter!Increment(KeyOf[r])
    BY <1>1, <1>2, <2>2, <2>3 DEF ExpiryInv
  <2>4. CASE UNCHANGED <<count, ttl>> /\ ~Refuse(r)
    BY <2>2, <2>4 DEF ExpiryInv
  <2>5. QED
    BY <2>1, <2>3, <2>4
<1>4. CASE Limiter!Tick /\ req' = req
  <2>1. ASSUME NEW k \in Keys
        PROVE  /\ count'[k] = 0 <=> ttl'[k] = 0
               /\ ttl[k] # NoTtl => ttl'[k] # NoTtl
    <3>1. /\ ttl'[k] = IF ttl[k] \in 1 .. Window THEN ttl[k] - 1 ELSE ttl[k]
          /\ count'[k] = IF ttl[k] = 1 THEN 0 ELSE count[k]
      BY <1>4 DEF Limiter!Tick
    <3>2. CASE ttl[k] \in 1 .. Window
      BY <1>1, <3>1, <3>2 DEF ExpiryInv
    <3>3. CASE ttl[k] \notin 1 .. Window
      BY <1>1, <3>1, <3>3 DEF ExpiryInv
    <3>4. QED
      BY <3>2, <3>3
  <2>2. QED
    BY <1>1, <1>4, <2>1 DEF ExpiryInv
<1>5. CASE UNCHANGED limiterVars
           /\ \A q \in Requests : req'[q] = "refused" => req[q] = "refused"
  BY <1>5 DEF limiterVars, ExpiryInv
<1>6. QED
  BY <1>1, <1>3, <1>4, <1>5 DEF Next, Respond, ClientLeaves, DrainAudit, Exit, Tick, vars

\* RefuserExpires: the script's PEXPIRE reaches every key that refuses, one
\* found without a time to live included.
THEOREM RefusersExpire == Spec => []RefuserExpires
<1>1. Init => ExpiryInv
  BY DEF Init, Limiter!Init, ExpiryInv
<1>2. TypeInv /\ ExpiryInv => RefuserExpires
  BY RequestPathAssumption
  DEF TypeInv, TypeOK, Limiter!LimiterTypeOK, ExpiryInv, RefuserExpires
<1>3. QED
  BY <1>1, <1>2, StepExpiry, TypeInvariant, PTL DEF Spec

-----------------------------------------------------------------------------
(* The composition.                                                        *)

\* Whatever requests, clients and the end of the process do, the counters
\* change as RateLimiter says: its own specification, of any interleaving of
\* checks and of time, is implemented by the service.
THEOREM RequestsDriveTheLimiter == Spec => Limiter!Spec
<1>1. Init => Limiter!Init
  BY DEF Init
<1>2. [Next]_vars => [Limiter!Next]_(Limiter!limiterVars)
  <2> SUFFICES ASSUME [Next]_vars
               PROVE  Limiter!Next \/ UNCHANGED limiterVars
    BY DEF limiterVars, Limiter!limiterVars
  <2>1. \A r \in Requests : KeyOf[r] \in Keys
    BY RequestPathAssumption
  <2>2. ASSUME NEW r \in Requests, Pass(r) \/ Refuse(r) \/ RefuseUnanswered(r)
        PROVE  Limiter!Next
    BY <2>1, <2>2 DEF Pass, Refuse, RefuseUnanswered, Limiter!Next
  <2>3. QED
    BY <2>2 DEF Next, Respond, ClientLeaves, DrainAudit, Exit, Tick, vars, Limiter!Next
<1>3. QED
  BY <1>1, <1>2, PTL DEF Spec, Limiter!Spec

=============================================================================
