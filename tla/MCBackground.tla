---------------------------- MODULE MCBackground ----------------------------
(***************************************************************************)
(* An instance, for TLC, of NotificationOutbox and Lifecycle, which share  *)
(* no state.  In each behaviour one of them works and the other rests in a *)
(* fixed state.                                                            *)
(***************************************************************************)
EXTENDS NotificationOutbox, Lifecycle

\* One row, of no other's age.
OneTime == [n \in Rows |-> 0]

VARIABLE part  \* the component that works

backgroundVars == <<vars, lifecycleVars, part>>

\* The notifications are sent and delivered.
OutboxRests ==
  /\ status = [n \in Rows |-> "SENT"] /\ attempts = [n \in Rows |-> 0] /\ due = {}
  /\ delivered = Rows /\ added = Rows /\ overlapped = {} /\ faults = 0
  /\ drain = [s \in Sweepers |-> IdleDrain]
  /\ seen = [s \in Sweepers |-> [n \in Rows |-> 0]]
  /\ jobState = [n \in Rows |-> "completed"]
  /\ attemptsMade = [n \in Rows |-> 0]
  /\ lock = [n \in Rows |-> NoWorker]
  /\ run = [w \in Workers |-> IdleRun]

BackgroundInit ==
  /\ \/ part = "outbox" /\ Init
     \/ part = "lifecycle" /\ OutboxRests
  /\ LifecycleInit

BackgroundNext ==
  /\ \/ part = "outbox" /\ Next /\ UNCHANGED lifecycleVars
     \/ part = "lifecycle" /\ LifecycleNext /\ UNCHANGED vars
  /\ UNCHANGED part

\* The fairness of each, where it works.
BackgroundSpec ==
  /\ BackgroundInit /\ [][BackgroundNext]_backgroundVars
  /\ \A s \in Sweepers : WF_vars(part = "outbox" /\ DrainStep(s))
  /\ \A n \in Rows : WF_vars(part = "outbox" /\ \E w \in Workers : TakeJob(w, n))
  /\ \A w \in Workers : WF_vars(part = "outbox" /\ RunStep(w))
  /\ \A n \in Rows : WF_vars(part = "outbox" /\ BecomeDue(n))
  /\ \A c \in Callers : WF_lifecycleVars(part = "lifecycle" /\ ForceExit(c))
=============================================================================
