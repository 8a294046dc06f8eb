----------------------------- MODULE AuditQueue -----------------------------
(***************************************************************************)
(* The audit log's write-through queue: logAudit pushes an entry onto an   *)
(* array of the process and schedules a drain unless one is under way, and *)
(* the drain writes entry after entry, each up to MAX_ATTEMPTS times, and  *)
(* looks at the array again before it gives up.                            *)
(*                                                                         *)
(* JavaScript runs to the next await, so everything between two awaits is  *)
(* one action. The code means to have one loop at a time; the model has    *)
(* room for several, so that this is something to check.                   *)
(***************************************************************************)
EXTENDS Naturals, Sequences, SequencesExt

CONSTANTS
  Entries,       \* audit entries, each logged at most once
  Loops,         \* calls of drainQueue that may be under way at once
  AuditAttempts  \* MAX_ATTEMPTS

VARIABLES
  queue,     \* the array
  draining,  \* the flag that keeps a second loop from starting
  loop,      \* local state of each call of drainQueue
  logged,    \* history: the entries in the order of their logAudit
  stored,    \* entries with a row in "AuditLog"
  alerted    \* entries given up with logger.error

auditVars == <<queue, draining, loop, logged, stored, alerted>>

IdleLoop == [pc |-> "off", batch |-> <<>>, tries |-> 0]

AuditTypeOK ==
  /\ queue \in Seq(Entries)
  /\ draining \in BOOLEAN
  /\ loop \in [Loops -> [pc : {"off", "scheduled", "write", "sleep"},
                         batch : Seq(Entries), tries : 0 .. AuditAttempts]]
  /\ logged \in Seq(Entries)
  /\ stored \subseteq Entries
  /\ alerted \subseteq Entries

Init ==
  /\ queue = <<>>
  /\ draining = FALSE
  /\ loop = [l \in Loops |-> IdleLoop]
  /\ logged = <<>>
  /\ stored = {}
  /\ alerted = {}

\* logAudit: the push, and scheduleFlush with its setImmediate.
LogAudit(e) ==
  /\ e \notin ToSet(logged)
  /\ logged' = Append(logged, e)
  /\ queue' = Append(queue, e)
  /\ draining' = TRUE
  /\ IF draining
     THEN loop' = loop
     ELSE /\ \E l \in Loops : loop[l].pc = "off"
          /\ loop' = [loop EXCEPT ![CHOOSE l \in Loops : loop[l].pc = "off"].pc = "scheduled"]
  /\ UNCHANGED <<stored, alerted>>

\* Mutant: the flag falls as soon as the array is taken, and a second loop can start.
TakeBatchUnguarded(l) ==
  /\ queue' = <<>>
  /\ draining' = FALSE
  /\ loop' = [loop EXCEPT ![l] =
       IF queue = <<>> THEN IdleLoop
       ELSE [pc |-> "write", batch |-> queue, tries |-> 1]]

\* The head of the while loop: the whole array is taken, or the loop ends.
TakeBatch(l) ==
  /\ queue' = <<>>
  /\ draining' = (queue # <<>>)
  /\ loop' = [loop EXCEPT ![l] =
       IF queue = <<>> THEN IdleLoop
       ELSE [pc |-> "write", batch |-> queue, tries |-> 1]]

\* Mutant: the array is not looked at again when a batch is through.
NextItemOrEnd(l) ==
  /\ loop' = [loop EXCEPT ![l] =
       IF Len(@.batch) = 1 THEN IdleLoop
       ELSE [pc |-> "write", batch |-> Tail(@.batch), tries |-> 1]]
  /\ draining' = (Len(loop[l].batch) > 1)
  /\ UNCHANGED queue

\* From one entry to the next one of the batch, or back to the while.
NextItem(l) ==
  IF Len(loop[l].batch) = 1
  THEN TakeBatch(l)
  ELSE /\ loop' = [loop EXCEPT ![l] =
            [pc |-> "write", batch |-> Tail(@.batch), tries |-> 1]]
       /\ UNCHANGED <<queue, draining>>

StartDrain(l) ==
  /\ loop[l].pc = "scheduled"
  /\ TakeBatch(l)
  /\ UNCHANGED <<logged, stored, alerted>>

WriteSucceeds(l) ==
  /\ loop[l].pc = "write"
  /\ stored' = stored \cup {Head(loop[l].batch)}
  /\ NextItem(l)
  /\ UNCHANGED <<logged, alerted>>

\* The insert throws, after the row was written when only its reply is lost.
WriteThrows(l) ==
  /\ loop[l].pc = "write"
  /\ stored' \in {stored, stored \cup {Head(loop[l].batch)}}
  /\ IF loop[l].tries < AuditAttempts
     THEN /\ loop' = [loop EXCEPT ![l].pc = "sleep"]
          /\ UNCHANGED <<queue, draining, alerted>>
     ELSE /\ alerted' = alerted \cup {Head(loop[l].batch)}
          /\ NextItem(l)
  /\ UNCHANGED logged

BackoffEnds(l) ==
  /\ loop[l].pc = "sleep"
  /\ loop' = [loop EXCEPT ![l].pc = "write", ![l].tries = @ + 1]
  /\ UNCHANGED <<queue, draining, logged, stored, alerted>>

LoopStep(l) == StartDrain(l) \/ WriteSucceeds(l) \/ WriteThrows(l) \/ BackoffEnds(l)

Next ==
  \/ \E e \in Entries : LogAudit(e)
  \/ \E l \in Loops : LoopStep(l)

Spec == Init /\ [][Next]_auditVars

FairSpec == Spec /\ \A l \in Loops : WF_auditVars(LoopStep(l))

-----------------------------------------------------------------------------
(* Properties *)

InMemory(e) ==
  \/ e \in ToSet(queue)
  \/ \E l \in Loops : e \in ToSet(loop[l].batch)

\* Entries leave the queue in the order in which they were logged, whatever
\* fails and is retried: at any time those that are done are the oldest ones.
\* Two loops writing at once would break this.
SettledInOrder ==
  \A i, j \in DOMAIN logged :
    i < j /\ InMemory(logged[i]) =>
      InMemory(logged[j]) /\ logged[j] \notin stored \cup alerted

=============================================================================
