----------------------------- MODULE MCRequests -----------------------------
(***************************************************************************)
(* An instance, for TLC, of Sessions and RequestPath, which share no       *)
(* state.  In each behaviour one of them works and the other rests in a    *)
(* fixed state.                                                            *)
(***************************************************************************)
EXTENDS Sessions, RequestPath, TLC

CONSTANTS r1, r2, r3, open, shut

\* Two requests share a limiter that fails open; the third has one that does not.
SharedKey == (r1 :> open) @@ (r2 :> open) @@ (r3 :> shut)

VARIABLE part  \* the component that works

requestsVars == <<sessionsVars, vars, part>>

\* The process has ended.
PathRests ==
  /\ Audit!Init /\ Limiter!Init
  /\ req = [r \in Requests |-> "check"] /\ gone = {} /\ alive = FALSE /\ faults = 0

RequestsInit ==
  \/ part = "sessions" /\ SessionsInit /\ count = [k \in Keys |-> 0] /\ PathRests
  \/ part = "path" /\ user = FALSE /\ SessionsInit /\ Init

RequestsNext ==
  /\ \/ part = "sessions" /\ SessionsNext /\ UNCHANGED vars
     \/ part = "path" /\ Next /\ UNCHANGED sessionsVars
  /\ UNCHANGED part

\* The fairness of each, where it works.
RequestsSpec ==
  /\ RequestsInit /\ [][RequestsNext]_requestsVars
  /\ \A q \in AuthRequests : WF_sessionsVars(part = "sessions" /\ CheckStep(q))
  /\ WF_sessionsVars(part = "sessions" /\ CooldownPasses)
  /\ \A l \in Loops : WF_vars(part = "path" /\ DrainAudit(l))
  /\ WF_vars(part = "path" /\ Tick)
=============================================================================
