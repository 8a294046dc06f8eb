---------------------------- MODULE RequestPath ----------------------------
(***************************************************************************)
(* The way of a request through one process of the service: the limiter    *)
(* (RateLimiter) lets it pass or refuses it, it is handled, and when its   *)
(* response is out the audit middleware hands an entry to the write queue  *)
(* (AuditQueue), which the process keeps in memory. The client may leave   *)
(* before the response, and the process may end at any time.               *)
(***************************************************************************)
EXTENDS Naturals, Sequences, SequencesExt

CONSTANTS
  Requests,     \* requests to limited and audited routes, each sent once
  KeyOf,        \* the limiter's key of each
  FaultBound,   \* bound: limiter checks without an answer
  Loops, AuditAttempts,                   \* of AuditQueue
  Keys, FailClosed, Limit, Window, NoTtl  \* of RateLimiter

ASSUME RequestPathAssumption ==
  /\ KeyOf \in [Requests -> Keys]
  /\ FailClosed \subseteq Keys
  /\ FaultBound \in Nat
  /\ Limit \in Nat \ {0}
  /\ Window \in Nat \ {0}
  /\ NoTtl \notin 0 .. Window
  /\ AuditAttempts \in Nat \ {0}

VARIABLES
  queue, draining, loop, logged, stored, alerted,  \* AuditQueue
  count, ttl, admitted, opened,                    \* RateLimiter
  req,     \* how far each request is
  gone,    \* requests whose client left before the response
  alive,   \* the process runs
  faults   \* faults spent

auditVars   == <<queue, draining, loop, logged, stored, alerted>>
limiterVars == <<count, ttl, admitted, opened>>
vars == <<auditVars, limiterVars, req, gone, alive, faults>>

Audit   == INSTANCE AuditQueue WITH Entries <- Requests
Limiter == INSTANCE RateLimiter

TypeOK ==
  /\ Audit!AuditTypeOK
  /\ Limiter!LimiterTypeOK
  /\ req \in [Requests -> {"check", "handle", "done", "refused", "failed"}]
  /\ gone \subseteq Requests
  /\ alive \in BOOLEAN
  /\ faults \in 0 .. FaultBound

Init ==
  /\ Audit!Init
  /\ Limiter!Init
  /\ req = [r \in Requests |-> "check"]
  /\ gone = {}
  /\ alive = TRUE
  /\ faults = 0

At(r, pc) == alive /\ req[r] = pc
Fault == faults < FaultBound /\ faults' = faults + 1

\* perUserLimiter: next(), for an answer within the limit or for none where
\* the limiter fails open.
Pass(r) ==
  /\ At(r, "check")
  /\ req' = [req EXCEPT ![r] = "handle"]
  /\ \/ Limiter!CheckPasses(KeyOf[r]) /\ UNCHANGED faults
     \/ Limiter!FailsOpen(KeyOf[r]) /\ Fault
  /\ UNCHANGED <<auditVars, gone, alive>>

\* 429; auditMiddleware comes after the limiter and sees neither this nor 500.
Refuse(r) ==
  /\ At(r, "check")
  /\ req' = [req EXCEPT ![r] = "refused"]
  /\ Limiter!CheckRefuses(KeyOf[r])
  /\ UNCHANGED <<auditVars, gone, alive, faults>>

\* 500, for want of an answer where the limiter fails closed.
RefuseUnanswered(r) ==
  /\ At(r, "check")
  /\ req' = [req EXCEPT ![r] = "failed"]
  /\ Limiter!FailsShut(KeyOf[r])
  /\ Fault
  /\ UNCHANGED <<auditVars, gone, alive>>

\* The handler ends. 'finish' fires when the response is out, which it never
\* is when nobody is left to take it.
Respond(r) ==
  /\ At(r, "handle")
  /\ req' = [req EXCEPT ![r] = "done"]
  /\ IF r \in gone THEN UNCHANGED auditVars ELSE Audit!LogAudit(r)
  /\ UNCHANGED <<limiterVars, gone, alive, faults>>

ClientLeaves(r) ==
  /\ At(r, "handle")
  /\ gone' = gone \cup {r}
  /\ UNCHANGED <<auditVars, limiterVars, req, alive, faults>>

DrainAudit(l) ==
  /\ alive
  /\ Audit!LoopStep(l)
  /\ UNCHANGED <<limiterVars, req, gone, alive, faults>>

\* The end of the process, by a crash or a shutdown, which waits for no entry.
Exit ==
  /\ alive
  /\ alive' = FALSE
  /\ queue' = <<>>
  /\ loop' = [l \in Loops |-> Audit!IdleLoop]
  /\ UNCHANGED <<draining, logged, stored, alerted, limiterVars, req, gone, faults>>

Tick ==
  /\ Limiter!Tick
  /\ UNCHANGED <<auditVars, req, gone, alive, faults>>

Next ==
  \/ \E r \in Requests :
       Pass(r) \/ Refuse(r) \/ RefuseUnanswered(r) \/ Respond(r) \/ ClientLeaves(r)
  \/ \E l \in Loops : DrainAudit(l)
  \/ Exit
  \/ Tick

Spec == Init /\ [][Next]_vars

\* The event loop runs a continuation that is ready, and Redis's clock goes
\* on. Clients, handlers and the database owe nothing beyond an answer.
FairSpec ==
  /\ Spec
  /\ \A l \in Loops : WF_vars(DrainAudit(l))
  /\ WF_vars(Tick)

-----------------------------------------------------------------------------
(* Properties *)

\* Every response that went out is audited in the end, with a row or with the
\* alert of its loss, however the writes fail and whatever is logged behind
\* it; only the end of the process takes an entry along.
ServedIsAudited ==
  \A r \in Requests :
    (req[r] = "done" /\ r \notin gone) ~> (r \in stored \cup alerted \/ ~alive)

\* Entries are settled in the order of their responses.
AuditInOrder == alive => Audit!SettledInOrder

\* Within a window no more requests pass than the limit allows, save those
\* that pass for want of an answer on a route that fails open.
WithinLimit == Limiter!AdmittedWithinLimit

\* Whoever is refused for a full counter is not refused for ever: the counter
\* expires, also one that was found without a time to live.
RefusalLifts ==
  \A k \in Keys :
    (\E r \in Requests : KeyOf[r] = k /\ req[r] = "refused") ~> count[k] = 0

=============================================================================
