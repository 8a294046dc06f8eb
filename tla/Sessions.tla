------------------------------ MODULE Sessions ------------------------------
(***************************************************************************)
(* Logins, logouts and the denylist check of every authenticated request.  *)
(*                                                                         *)
(* Challenges and revocations live in Redis, which fails and recovers at   *)
(* any time.  The circuit breaker of the denylist check lives in the       *)
(* process and is shared by all its requests, whose lookups overlap: what  *)
(* a lookup found is acted on when its continuation runs, in any order.    *)
(***************************************************************************)
EXTENDS Naturals, FiniteSets

CONSTANTS
  Challenges,        \* the random challenges, and the tokens they may earn
  Logins,            \* login requests under way
  AuthRequests,          \* authenticated requests under way
  FailureThreshold,  \* denylistCircuitBreaker.failureThreshold
  NoChallenge

ASSUME SessionsAssumption ==
  /\ FailureThreshold \in Nat \ {0}
  /\ NoChallenge \notin Challenges

BreakerStates == {"CLOSED", "OPEN", "HALF_OPEN"}
LoginPcs   == {"idle", "compare", "find", "create", "sign"}
RequestPcs == {"idle", "lookup", "clean", "revoked", "error", "admitted"}

VARIABLES
  redisUp,
  storedChallenge,    \* login_challenge:<wallet>
  used,      \* challenges that were issued
  login,     \* each login: where it is, the challenge it brings, the one it got
  user,      \* the wallet has a row in users
  grants,    \* tokens signed for a challenge
  expired,   \* tokens whose exp has passed
  denylist,  \* the jwt_denylist keys
  revoked,   \* tokens a logout has set the key for
  breaker,   \* state of the circuit breaker
  failures,  \* consecutiveFailures, counted up to FailureThreshold
  cooled,    \* the circuit is open, and cooldownMs have passed since openedAt
  request    \* each request: where it is, its token, and whether that was
             \* revoked before the request came

loginVars   == <<storedChallenge, used, login, user, grants>>
tokenVars   == <<expired, denylist, revoked>>
breakerVars == <<breaker, failures, cooled>>
sessionsVars == <<redisUp, loginVars, tokenVars, breakerVars, request>>

IdleLogin   == [pc |-> "idle", challenge |-> NoChallenge, got |-> NoChallenge]
IdleRequest == [pc |-> "idle", token |-> NoChallenge, late |-> FALSE]

MaybeChallenge == Challenges \cup {NoChallenge}

SessionsTypeOK ==
  /\ redisUp \in BOOLEAN
  /\ storedChallenge \in MaybeChallenge
  /\ used \subseteq Challenges
  /\ login \in [Logins -> [pc : LoginPcs, challenge : MaybeChallenge, got : MaybeChallenge]]
  /\ \A l \in Logins : login[l].pc # "idle" => login[l].challenge \in Challenges
  /\ user \in BOOLEAN
  /\ grants \in [Challenges -> Nat]
  /\ expired \subseteq Challenges
  /\ denylist \subseteq Challenges
  /\ revoked \subseteq Challenges
  /\ breaker \in BreakerStates
  /\ failures \in 0 .. FailureThreshold
  /\ cooled \in BOOLEAN
  /\ cooled => breaker = "OPEN"
  /\ request \in [AuthRequests -> [pc : RequestPcs, token : MaybeChallenge, late : BOOLEAN]]
  /\ \A q \in AuthRequests : request[q].pc # "idle" => request[q].token \in Challenges

SessionsInit ==
  /\ redisUp = TRUE
  /\ storedChallenge = NoChallenge
  /\ used = {}
  /\ login = [l \in Logins |-> IdleLogin]
  /\ user \in BOOLEAN
  /\ grants = [c \in Challenges |-> 0]
  /\ expired = {}
  /\ denylist = {}
  /\ revoked = {}
  /\ breaker = "CLOSED"
  /\ failures = 0
  /\ cooled = FALSE
  /\ request = [q \in AuthRequests |-> IdleRequest]

Valid(t) == grants[t] > 0 /\ t \notin expired

-----------------------------------------------------------------------------
(* getChallenge and login, for one wallet.                                 *)

LoginAt(l, pc) == login[l].pc = pc
LoginGoto(l, pc) == login' = [login EXCEPT ![l].pc = pc]
LoginEnds(l) == login' = [login EXCEPT ![l] = IdleLogin]

\* A new challenge replaces one that was not used.
GetChallenge(c) ==
  /\ redisUp
  /\ c \notin used
  /\ storedChallenge' = c
  /\ used' = used \cup {c}
  /\ UNCHANGED <<redisUp, login, user, grants, tokenVars, breakerVars, request>>

\* The key's PX timeout.
ChallengeLapses ==
  /\ storedChallenge # NoChallenge
  /\ storedChallenge' = NoChallenge
  /\ UNCHANGED <<redisUp, used, login, user, grants, tokenVars, breakerVars, request>>

\* Mutant: the challenge is read here and deleted by nobody.
ConsumeChallengeKept(l, c) ==
  /\ LoginAt(l, "idle")
  /\ redisUp
  /\ c \in used
  /\ login' = [login EXCEPT ![l] = [pc |-> "compare", challenge |-> c, got |-> storedChallenge]]
  /\ UNCHANGED <<redisUp, storedChallenge, used, user, grants, tokenVars, breakerVars, request>>

\* GETDEL; without Redis the request is answered 503 and changes nothing.
ConsumeChallenge(l, c) ==
  /\ LoginAt(l, "idle")
  /\ redisUp
  /\ c \in used
  /\ storedChallenge' = NoChallenge
  /\ login' = [login EXCEPT ![l] = [pc |-> "compare", challenge |-> c, got |-> storedChallenge]]
  /\ UNCHANGED <<redisUp, used, user, grants, tokenVars, breakerVars, request>>

\* 503: GETDEL was carried out and its reply is lost.
ConsumeReplyLost(l) ==
  /\ LoginAt(l, "idle")
  /\ storedChallenge' = NoChallenge
  /\ UNCHANGED <<redisUp, used, login, user, grants, tokenVars, breakerVars, request>>

\* 401 for another challenge or none; the signature is of the challenge.
CompareChallenge(l) ==
  /\ LoginAt(l, "compare")
  /\ IF login[l].got = login[l].challenge
       THEN LoginGoto(l, "find") \/ LoginEnds(l)
       ELSE LoginEnds(l)
  /\ UNCHANGED <<redisUp, storedChallenge, used, user, grants, tokenVars, breakerVars, request>>

FindUser(l) ==
  /\ LoginAt(l, "find")
  /\ LoginGoto(l, IF user THEN "sign" ELSE "create")
  /\ UNCHANGED <<redisUp, storedChallenge, used, user, grants, tokenVars, breakerVars, request>>

\* users.wallet is unique: of two first logins the later create throws.
CreateUser(l) ==
  /\ LoginAt(l, "create")
  /\ IF user THEN LoginEnds(l) /\ UNCHANGED user
             ELSE LoginGoto(l, "sign") /\ user' = TRUE
  /\ UNCHANGED <<redisUp, storedChallenge, used, grants, tokenVars, breakerVars, request>>

SignToken(l) ==
  /\ LoginAt(l, "sign")
  /\ grants' = [grants EXCEPT ![login[l].challenge] = @ + 1]
  /\ LoginEnds(l)
  /\ UNCHANGED <<redisUp, storedChallenge, used, user, tokenVars, breakerVars, request>>

-----------------------------------------------------------------------------
(* logout, and time.                                                       *)

\* The key is set for as long as the token is valid; whether the client hears of it
\* does not matter.
Logout(t) ==
  /\ redisUp
  /\ Valid(t)
  /\ denylist' = denylist \cup {t}
  /\ revoked' = revoked \cup {t}
  /\ UNCHANGED <<redisUp, loginVars, expired, breakerVars, request>>

TokenExpires(t) ==
  /\ Valid(t)
  /\ expired' = expired \cup {t}
  /\ UNCHANGED <<redisUp, loginVars, denylist, revoked, breakerVars, request>>

\* The key outlives the token: its timeout is rounded up to whole seconds.
DenylistLapses(t) ==
  /\ t \in denylist \cap expired
  /\ denylist' = denylist \ {t}
  /\ UNCHANGED <<redisUp, loginVars, expired, revoked, breakerVars, request>>

RedisFails ==
  /\ redisUp
  /\ redisUp' = FALSE
  /\ UNCHANGED <<loginVars, tokenVars, breakerVars, request>>

RedisRecovers ==
  /\ ~redisUp
  /\ redisUp' = TRUE
  /\ UNCHANGED <<loginVars, tokenVars, breakerVars, request>>

-----------------------------------------------------------------------------
(* The denylist check.                                                     *)

RequestAt(q, pc) == request[q].pc = pc
RequestGoto(q, pc) == request' = [request EXCEPT ![q].pc = pc]
RequestEnds(q) == request' = [request EXCEPT ![q] = IdleRequest]

\* allow(): a circuit that has cooled down lets a probe through, and a half-open
\* one every request, whatever its comment says (see OneProbePerCooldown).
Allows == breaker = "OPEN" => cooled

\* A request with a valid token that the circuit allows; another is answered 503
\* at once and changes nothing.
StartCheck(q, t) ==
  /\ RequestAt(q, "idle")
  /\ Valid(t)
  /\ Allows
  /\ breaker' = IF breaker = "OPEN" THEN "HALF_OPEN" ELSE breaker
  /\ cooled' = FALSE
  /\ request' = [request EXCEPT ![q] = [pc |-> "lookup", token |-> t, late |-> t \in revoked]]
  /\ UNCHANGED <<redisUp, loginVars, tokenVars, failures>>

\* Redis answers the GET, or cannot be reached.
Lookup(q) ==
  /\ RequestAt(q, "lookup")
  /\ RequestGoto(q, IF ~redisUp THEN "error"
                    ELSE IF request[q].token \in denylist THEN "revoked" ELSE "clean")
  /\ UNCHANGED <<redisUp, loginVars, tokenVars, breakerVars>>

\* recordSuccess(), from whatever state.
Admit(q) ==
  /\ RequestAt(q, "clean")
  /\ breaker' = "CLOSED"
  /\ failures' = 0
  /\ cooled' = FALSE
  /\ RequestGoto(q, "admitted")
  /\ UNCHANGED <<redisUp, loginVars, tokenVars>>

\* Mutant: a revoked token counts against Redis, and a probe that has one opens
\* the circuit again.
RefuseRevokedReopens(q) ==
  /\ RequestAt(q, "revoked")
  /\ breaker' = IF breaker = "HALF_OPEN" THEN "OPEN" ELSE breaker
  /\ RequestEnds(q)
  /\ UNCHANGED <<redisUp, loginVars, tokenVars, failures, cooled>>

\* 401 "token revoked": returned before recordSuccess().
RefuseRevoked(q) ==
  /\ RequestAt(q, "revoked")
  /\ RequestEnds(q)
  /\ UNCHANGED <<redisUp, loginVars, tokenVars, breakerVars>>

\* Mutant: a request whose lookup failed is let in.
RefuseUnknownFailsOpen(q) ==
  /\ RequestAt(q, "error")
  /\ RequestGoto(q, "admitted")
  /\ UNCHANGED <<redisUp, loginVars, tokenVars, breakerVars>>

CountFailure == IF failures < FailureThreshold THEN failures + 1 ELSE failures

\* Mutant: a failed probe forgets the failures before it.
RefuseUnknownForgets(q) ==
  /\ RequestAt(q, "error")
  /\ failures' = IF breaker = "HALF_OPEN" THEN 0 ELSE CountFailure
  /\ IF breaker = "HALF_OPEN" \/ failures' >= FailureThreshold
       THEN breaker' = "OPEN" /\ cooled' = FALSE
       ELSE UNCHANGED <<breaker, cooled>>
  /\ RequestEnds(q)
  /\ UNCHANGED <<redisUp, loginVars, tokenVars>>

\* recordFailure() and 503: a half-open circuit, or enough failures, open it, and
\* a failure that comes late starts the cooldown again.
RefuseUnknown(q) ==
  /\ RequestAt(q, "error")
  /\ failures' = CountFailure
  /\ IF breaker = "HALF_OPEN" \/ failures' >= FailureThreshold
       THEN breaker' = "OPEN" /\ cooled' = FALSE
       ELSE UNCHANGED <<breaker, cooled>>
  /\ RequestEnds(q)
  /\ UNCHANGED <<redisUp, loginVars, tokenVars>>

RequestServed(q) ==
  /\ RequestAt(q, "admitted")
  /\ RequestEnds(q)
  /\ UNCHANGED <<redisUp, loginVars, tokenVars, breakerVars>>

CooldownPasses ==
  /\ breaker = "OPEN"
  /\ ~cooled
  /\ cooled' = TRUE
  /\ UNCHANGED <<redisUp, loginVars, tokenVars, breaker, failures, request>>

-----------------------------------------------------------------------------
LoginStep ==
  \/ \E c \in Challenges : GetChallenge(c)
  \/ ChallengeLapses
  \/ \E l \in Logins :
       \/ ConsumeReplyLost(l) \/ CompareChallenge(l) \/ FindUser(l)
       \/ CreateUser(l) \/ SignToken(l)
       \/ \E c \in Challenges : ConsumeChallenge(l, c)

TokenStep == \E t \in Challenges : Logout(t) \/ TokenExpires(t) \/ DenylistLapses(t)

\* The continuations of a request that was let through to Redis.
CheckStep(q) ==
  \/ Lookup(q) \/ Admit(q) \/ RefuseRevoked(q) \/ RefuseUnknown(q) \/ RequestServed(q)

SessionsNext ==
  \/ LoginStep
  \/ TokenStep
  \/ RedisFails \/ RedisRecovers
  \/ CooldownPasses
  \/ \E q \in AuthRequests : CheckStep(q) \/ \E t \in Challenges : StartCheck(q, t)

SessionsSpec == SessionsInit /\ [][SessionsNext]_sessionsVars

\* A request that was let through comes to an end, and time passes; that clients
\* send requests is not promised.
SessionsFairness ==
  /\ \A q \in AuthRequests : WF_sessionsVars(CheckStep(q))
  /\ WF_sessionsVars(CooldownPasses)

SessionsFairSpec == SessionsSpec /\ SessionsFairness

-----------------------------------------------------------------------------
(* Properties.                                                             *)

\* "at most one caller gets the value back" (authController.ts:50): a challenge
\* earns one token, however many logins bring it and whatever replies are lost.
OneTokenPerChallenge == \A c \in Challenges : grants[c] <= 1

\* "revoked tokens are never silently accepted" (auth.ts:24): a request that came
\* after the logout of its token is not let in, through outages, probes and
\* reordered continuations, unless the token expired during its own check.
RevokedStaysOut ==
  \A q \in AuthRequests :
    RequestAt(q, "admitted") /\ request[q].late => request[q].token \in expired

\* The circuit is closed just as long as fewer than failureThreshold lookups have
\* failed since one succeeded (auth.ts:18), whatever overlapping lookups report.
CircuitCountsFailures == breaker = "CLOSED" <=> failures < FailureThreshold

\* "A success resets to CLOSED" (auth.ts:20): once Redis is back for good, the
\* circuit ends up letting every request through to it, and a probe that finds
\* its token revoked does not keep the others out.  It rests on a half-open circuit
\* letting every request through: see OneProbePerCooldown.
ServiceRecovers == <>[]redisUp => <>[]Allows

\* "allow exactly one probe per cooldown window" (auth.ts:51): while the circuit is
\* half-open, its probe out, no other request is let through to Redis.  The code
\* lets them all through.
OneProbePerCooldown ==
  [][breaker = "HALF_OPEN" =>
       \A q \in AuthRequests : RequestAt(q, "idle") => request'[q].pc # "lookup"]_sessionsVars
=============================================================================
