---------------------------- MODULE RateLimiter ----------------------------
(***************************************************************************)
(* The fixed-window request limiter: one counter per key in Redis, raised  *)
(* by a script that Redis runs atomically, with a time to live that starts *)
(* with the window. A key may be found without a time to live; the script  *)
(* then gives it one. When Redis cannot be asked, or its answer is lost,   *)
(* the limiter lets the request pass or refuses it, as the route says.     *)
(*                                                                         *)
(* The counters outlive the process, so the first state has any of them.   *)
(***************************************************************************)
EXTENDS Naturals

CONSTANTS
  Keys,        \* rl:<scope>:<client>
  FailClosed,  \* keys of limiters declared with failClosed
  Limit,       \* options.max
  Window,      \* options.windowMs, in ticks
  NoTtl        \* PTTL = -1: the key never expires

VARIABLES
  count,     \* the counter of each key, 0 when there is none; it stops at
             \* Limit + 1, from where on every answer is the same
  ttl,       \* ticks until the key expires
  admitted,  \* history: requests of the running window that passed
  opened     \* history: those among them that passed without an answer

limiterVars == <<count, ttl, admitted, opened>>

LimiterTypeOK ==
  /\ count \in [Keys -> 0 .. Limit + 1]
  /\ ttl \in [Keys -> 0 .. Window \cup {NoTtl}]
  /\ admitted \in [Keys -> Nat]
  /\ opened \in [Keys -> Nat]

Init ==
  /\ count \in [Keys -> 0 .. Limit + 1]
  /\ ttl \in [Keys -> {0, Window, NoTtl}]
  /\ \A k \in Keys : count[k] = 0 <=> ttl[k] = 0
  /\ admitted = [k \in Keys |-> IF count[k] > Limit THEN Limit ELSE count[k]]
  /\ opened = [k \in Keys |-> 0]

\* Mutant: a key found without a time to live is left so.
IncrementUnhealed(k) ==
  /\ count' = [count EXCEPT ![k] = IF @ > Limit THEN @ ELSE @ + 1]
  /\ ttl' = [ttl EXCEPT ![k] = IF count'[k] = 1 THEN Window ELSE @]

\* INCR; PEXPIRE for the first request and for a key without a time to live.
Increment(k) ==
  /\ count' = [count EXCEPT ![k] = IF @ > Limit THEN @ ELSE @ + 1]
  /\ ttl' = [ttl EXCEPT ![k] = IF count'[k] = 1 \/ @ = NoTtl THEN Window ELSE @]

Admit(k) == admitted' = [admitted EXCEPT ![k] = @ + 1]

\* Mutant: the limit is compared with the count before this request.
CheckPassesOneMore(k) ==
  /\ Increment(k)
  /\ count[k] <= Limit
  /\ Admit(k)
  /\ UNCHANGED opened

CheckPasses(k) ==
  /\ Increment(k)
  /\ count'[k] <= Limit
  /\ Admit(k)
  /\ UNCHANGED opened

CheckRefuses(k) ==
  /\ Increment(k)
  /\ count'[k] > Limit
  /\ UNCHANGED <<admitted, opened>>

\* The script did not run, or it ran and its answer was lost.
NoAnswer(k) == Increment(k) \/ UNCHANGED <<count, ttl>>

FailsOpen(k) ==
  /\ k \notin FailClosed
  /\ NoAnswer(k)
  /\ Admit(k)
  /\ opened' = [opened EXCEPT ![k] = @ + 1]

FailsShut(k) ==
  /\ k \in FailClosed
  /\ NoAnswer(k)
  /\ UNCHANGED <<admitted, opened>>

\* Time passes, and a key whose time has come is gone.
Tick ==
  /\ \E k \in Keys : ttl[k] \in 1 .. Window
  /\ ttl' = [k \in Keys |-> IF ttl[k] \in 1 .. Window THEN ttl[k] - 1 ELSE ttl[k]]
  /\ LET expired(k) == ttl[k] = 1 IN
       /\ count' = [k \in Keys |-> IF expired(k) THEN 0 ELSE count[k]]
       /\ admitted' = [k \in Keys |-> IF expired(k) THEN 0 ELSE admitted[k]]
       /\ opened' = [k \in Keys |-> IF expired(k) THEN 0 ELSE opened[k]]

Next ==
  \/ \E k \in Keys : CheckPasses(k) \/ CheckRefuses(k) \/ FailsOpen(k) \/ FailsShut(k)
  \/ Tick

Spec == Init /\ [][Next]_limiterVars

-----------------------------------------------------------------------------
(* Properties *)

\* Within one window of a key no more requests pass than its limit allows,
\* save those that passed because Redis gave no answer; where the limiter
\* fails closed there are none of these.
AdmittedWithinLimit ==
  \A k \in Keys : admitted[k] <= Limit + (IF k \in FailClosed THEN 0 ELSE opened[k])

=============================================================================
