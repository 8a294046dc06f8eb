--------------------------- MODULE SessionsProofs ---------------------------
(***************************************************************************)
(* Proofs about Sessions, for every number of logins, requests, challenges *)
(* and failures the circuit tolerates.  Its three concerns do not touch    *)
(* each other's variables, and each has an inductive invariant of its own. *)
(***************************************************************************)
EXTENDS Sessions, TLAPS

\* Login l got challenge c from Redis, and nobody has used it up yet.
Holds(l, c) == login[l].pc # "idle" /\ login[l].got = c

\* A challenge is in one place at a time: not issued, stored, held by one login,
\* or spent.
ChallengeInOnePlace ==
  \A c \in Challenges :
    /\ storedChallenge = c => c \in used /\ grants[c] = 0
    /\ \A l \in Logins : Holds(l, c) => c \in used /\ grants[c] = 0 /\ storedChallenge # c
    /\ \A l, m \in Logins : Holds(l, c) /\ Holds(m, c) => l = m
    /\ grants[c] <= 1
    /\ c \notin used => grants[c] = 0

\* A login past the comparison holds the challenge it brought.
ComparedHolds ==
  \A l \in Logins : login[l].pc \in {"find", "create", "sign"} => login[l].got = login[l].challenge

\* A revocation is on the denylist until its token expires, and a request whose
\* token was revoked when it came passes the lookup only after that.
RevocationsHold ==
  /\ revoked \subseteq denylist \cup expired
  /\ \A q \in AuthRequests : request[q].late => request[q].token \in revoked
  /\ \A q \in AuthRequests :
       request[q].pc \in {"clean", "admitted"} /\ request[q].late => request[q].token \in expired

IInv ==
  /\ SessionsTypeOK
  /\ ChallengeInOnePlace
  /\ ComparedHolds
  /\ RevocationsHold
  /\ CircuitCountsFailures

-----------------------------------------------------------------------------
\* The inductive invariant holds initially.
LEMMA InitInv == SessionsInit => IInv
<1> SUFFICES ASSUME SessionsInit PROVE IInv
  OBVIOUS
<1> USE DEF SessionsInit
<1>1. SessionsTypeOK
  <2>1. failures \in 0 .. FailureThreshold
    BY SessionsAssumption
  <2>2. IdleLogin \in [pc : LoginPcs, challenge : MaybeChallenge, got : MaybeChallenge]
    BY DEF IdleLogin, LoginPcs, MaybeChallenge
  <2>3. IdleRequest \in [pc : RequestPcs, token : MaybeChallenge, late : BOOLEAN]
    BY DEF IdleRequest, RequestPcs, MaybeChallenge
  <2>4. \A l \in Logins : login[l].pc = "idle"
    BY DEF IdleLogin
  <2>5. \A q \in AuthRequests : request[q].pc = "idle"
    BY DEF IdleRequest
  <2> QED
    BY <2>1, <2>2, <2>3, <2>4, <2>5 DEF SessionsTypeOK, MaybeChallenge, BreakerStates
<1>2. ChallengeInOnePlace
  BY SessionsAssumption DEF ChallengeInOnePlace, Holds, IdleLogin
<1>3. ComparedHolds
  BY DEF ComparedHolds, IdleLogin
<1>4. RevocationsHold
  BY DEF RevocationsHold, IdleRequest
<1>5. CircuitCountsFailures
  BY SessionsAssumption DEF CircuitCountsFailures
<1> QED
  BY <1>1, <1>2, <1>3, <1>4, <1>5 DEF IInv

-----------------------------------------------------------------------------
(* The login side.                                                         *)

LoginTypeOK ==
  /\ storedChallenge \in MaybeChallenge
  /\ used \subseteq Challenges
  /\ login \in [Logins -> [pc : LoginPcs, challenge : MaybeChallenge, got : MaybeChallenge]]
  /\ \A l \in Logins : login[l].pc # "idle" => login[l].challenge \in Challenges
  /\ user \in BOOLEAN
  /\ grants \in [Challenges -> Nat]

LoginInv == LoginTypeOK /\ ChallengeInOnePlace /\ ComparedHolds

\* Every step of logins keeps their invariant.
LEMMA LoginStepInv == LoginInv /\ LoginStep => LoginInv'
<1> SUFFICES ASSUME LoginInv, LoginStep PROVE LoginInv'
  OBVIOUS
<1> USE SessionsAssumption DEF LoginInv, LoginTypeOK, MaybeChallenge, LoginPcs
<1>1. ASSUME NEW c \in Challenges, GetChallenge(c) PROVE LoginInv'
  BY <1>1 DEF GetChallenge, ChallengeInOnePlace, ComparedHolds, Holds
<1>2. CASE ChallengeLapses
  BY <1>2 DEF ChallengeLapses, ChallengeInOnePlace, ComparedHolds, Holds
<1>3. ASSUME NEW l \in Logins, ConsumeReplyLost(l) PROVE LoginInv'
  BY <1>3 DEF ConsumeReplyLost, ChallengeInOnePlace, ComparedHolds, Holds
<1>4. ASSUME NEW l \in Logins, CompareChallenge(l) PROVE LoginInv'
  <2>1. /\ UNCHANGED <<storedChallenge, used, user, grants>>
        /\ LoginAt(l, "compare")
    BY <1>4 DEF CompareChallenge
  <2>2. CASE LoginGoto(l, "find") /\ login[l].got = login[l].challenge
    BY <2>1, <2>2 DEF LoginGoto, LoginAt, ChallengeInOnePlace, ComparedHolds, Holds
  <2>3. CASE LoginEnds(l)
    BY <2>1, <2>3 DEF LoginEnds, IdleLogin, ChallengeInOnePlace, ComparedHolds, Holds
  <2> QED
    BY <1>4, <2>2, <2>3 DEF CompareChallenge
<1>5. ASSUME NEW l \in Logins, FindUser(l) PROVE LoginInv'
  BY <1>5 DEF FindUser, LoginAt, LoginGoto, ChallengeInOnePlace, ComparedHolds, Holds
<1>6. ASSUME NEW l \in Logins, CreateUser(l) PROVE LoginInv'
  <2>1. UNCHANGED <<storedChallenge, used, grants>> /\ LoginAt(l, "create")
    BY <1>6 DEF CreateUser
  <2>2. CASE LoginGoto(l, "sign") /\ user' = TRUE
    BY <2>1, <2>2 DEF LoginGoto, LoginAt, ChallengeInOnePlace, ComparedHolds, Holds
  <2>3. CASE LoginEnds(l) /\ UNCHANGED user
    BY <2>1, <2>3 DEF LoginEnds, IdleLogin, ChallengeInOnePlace, ComparedHolds, Holds
  <2> QED
    BY <1>6, <2>2, <2>3 DEF CreateUser
<1>7. ASSUME NEW l \in Logins, SignToken(l) PROVE LoginInv'
  <2> DEFINE c == login[l].challenge
  <2>1. c \in Challenges /\ Holds(l, c)
    BY <1>7 DEF SignToken, LoginAt, ComparedHolds, Holds
  <2>2. /\ grants' = [grants EXCEPT ![c] = 1]
        /\ login' = [login EXCEPT ![l] = IdleLogin]
        /\ UNCHANGED <<storedChallenge, used, user>>
    <3>1. grants[c] = 0
      BY <2>1 DEF ChallengeInOnePlace
    <3>2. grants' = [grants EXCEPT ![c] = grants[c] + 1]
      BY <1>7 DEF SignToken
    <3> QED
      BY <1>7, <3>1, <3>2 DEF SignToken, LoginEnds
  <2> HIDE DEF c
  <2>3. LoginTypeOK'
    BY <2>1, <2>2 DEF IdleLogin
  <2>4. ChallengeInOnePlace'
    BY <2>1, <2>2 DEF ChallengeInOnePlace, Holds, IdleLogin
  <2>5. ComparedHolds'
    BY <2>2 DEF ComparedHolds, IdleLogin
  <2> QED
    BY <2>3, <2>4, <2>5
<1>8. ASSUME NEW l \in Logins, NEW c \in Challenges, ConsumeChallenge(l, c) PROVE LoginInv'
  <2>1. /\ LoginAt(l, "idle")
        /\ storedChallenge' = NoChallenge
        /\ login' = [login EXCEPT ![l] = [pc |-> "compare", challenge |-> c, got |-> storedChallenge]]
        /\ UNCHANGED <<used, user, grants>>
    BY <1>8 DEF ConsumeChallenge
  <2>2. LoginTypeOK'
    BY <2>1
  <2>3. ChallengeInOnePlace'
    BY <2>1 DEF ChallengeInOnePlace, Holds, LoginAt
  <2>4. ComparedHolds'
    BY <2>1 DEF ComparedHolds
  <2> QED
    BY <2>2, <2>3, <2>4
<1> QED
  BY <1>1, <1>2, <1>3, <1>4, <1>5, <1>6, <1>7, <1>8 DEF LoginStep

\* What is not a step of logins leaves their variables alone.
LEMMA LoginUntouched == [SessionsNext]_sessionsVars => LoginStep \/ UNCHANGED loginVars
  BY DEF SessionsNext, sessionsVars, TokenStep, Logout, TokenExpires, DenylistLapses,
     RedisFails, RedisRecovers,
         CooldownPasses, CheckStep, Lookup, Admit, RefuseRevoked, RefuseUnknown,
         RequestServed,
         StartCheck

\* Every step keeps the invariant of logins.
LEMMA LoginNextInv == LoginInv /\ [SessionsNext]_sessionsVars => LoginInv'
<1> SUFFICES ASSUME LoginInv, [SessionsNext]_sessionsVars PROVE LoginInv'
  OBVIOUS
<1>1. CASE LoginStep
  BY <1>1, LoginStepInv
<1>2. CASE UNCHANGED loginVars
  BY <1>2 DEF loginVars, LoginInv, LoginTypeOK, ChallengeInOnePlace, ComparedHolds, Holds
<1> QED
  BY <1>1, <1>2, LoginUntouched

-----------------------------------------------------------------------------
(* The tokens, the circuit and the requests.                               *)

CheckTypeOK ==
  /\ redisUp \in BOOLEAN
  /\ expired \subseteq Challenges
  /\ denylist \subseteq Challenges
  /\ revoked \subseteq Challenges
  /\ breaker \in BreakerStates
  /\ failures \in 0 .. FailureThreshold
  /\ cooled \in BOOLEAN
  /\ cooled => breaker = "OPEN"
  /\ request \in [AuthRequests -> [pc : RequestPcs, token : MaybeChallenge, late : BOOLEAN]]
  /\ \A q \in AuthRequests : request[q].pc # "idle" => request[q].token \in Challenges

CheckInv == CheckTypeOK /\ RevocationsHold /\ CircuitCountsFailures

\* A step of the tokens or of the world leaves every request where it is.
LEMMA TokenStepInv == CheckInv /\ TokenStep => CheckInv'
<1> SUFFICES ASSUME CheckInv, NEW t \in Challenges,
                    Logout(t) \/ TokenExpires(t) \/ DenylistLapses(t)
             PROVE  CheckInv'
  BY DEF TokenStep
<1>1. CASE Logout(t)
  BY <1>1 DEF Logout, breakerVars, CheckInv, CheckTypeOK, RevocationsHold,
     CircuitCountsFailures
<1>2. CASE TokenExpires(t)
  BY <1>2 DEF TokenExpires, breakerVars, CheckInv, CheckTypeOK, RevocationsHold,
              CircuitCountsFailures
<1>3. CASE DenylistLapses(t)
  BY <1>3 DEF DenylistLapses, breakerVars, CheckInv, CheckTypeOK, RevocationsHold,
              CircuitCountsFailures
<1> QED
  BY <1>1, <1>2, <1>3

\* A request's own record changes, and what it says is as it should be.
LEMMA RequestMoves ==
  ASSUME CheckInv, NEW q \in AuthRequests, NEW x,
         x \in [pc : RequestPcs, token : MaybeChallenge, late : BOOLEAN],
         x.pc # "idle" => x.token \in Challenges,
         x.late => x.token \in revoked,
         x.pc \in {"clean", "admitted"} /\ x.late => x.token \in expired,
         request' = [request EXCEPT ![q] = x],
         UNCHANGED <<redisUp, expired, denylist, revoked>>,
         breaker' \in BreakerStates, failures' \in 0 .. FailureThreshold, cooled' \in BOOLEAN,
         cooled' => breaker' = "OPEN",
         CircuitCountsFailures'
  PROVE  CheckInv'
<1>1. CheckTypeOK'
  BY DEF CheckInv, CheckTypeOK
<1>2. RevocationsHold'
  BY DEF CheckInv, CheckTypeOK, RevocationsHold
<1> QED
  BY <1>1, <1>2 DEF CheckInv

\* A request that ends.
LEMMA IdleIsFine ==
  /\ IdleRequest \in [pc : RequestPcs, token : MaybeChallenge, late : BOOLEAN]
  /\ IdleRequest.pc = "idle" /\ ~IdleRequest.late
  BY DEF IdleRequest, RequestPcs, MaybeChallenge

\* A request that goes on keeps its token.
LEMMA GotoIsFine ==
  ASSUME CheckInv, NEW q \in AuthRequests, NEW p \in RequestPcs,
         request[q].pc # "idle", RequestGoto(q, p)
  PROVE  \E x \in [pc : RequestPcs, token : MaybeChallenge, late : BOOLEAN] :
           /\ request' = [request EXCEPT ![q] = x]
           /\ x.pc = p /\ x.token = request[q].token /\ x.late = request[q].late
           /\ x.token \in Challenges
<1> DEFINE x == [request[q] EXCEPT !.pc = p]
<1>1. x \in [pc : RequestPcs, token : MaybeChallenge, late : BOOLEAN]
  BY DEF CheckInv, CheckTypeOK
<1>2. request' = [request EXCEPT ![q] = x]
  BY DEF RequestGoto
<1>3. x.pc = p /\ x.token = request[q].token /\ x.late = request[q].late
  BY DEF CheckInv, CheckTypeOK
<1>4. x.token \in Challenges
  BY <1>3 DEF CheckInv, CheckTypeOK
<1> QED
  BY <1>1, <1>2, <1>3, <1>4

\* A request is let through to Redis.
LEMMA StartCheckInv ==
  ASSUME CheckInv, NEW q \in AuthRequests, NEW t \in Challenges, StartCheck(q, t)
  PROVE  CheckInv'
<1>1. PICK x \in [pc : RequestPcs, token : MaybeChallenge, late : BOOLEAN] :
        /\ request' = [request EXCEPT ![q] = x]
        /\ x.pc = "lookup" /\ x.token = t /\ (x.late => t \in revoked)
  <2> DEFINE y(late) == [pc |-> "lookup", token |-> t, late |-> late]
  <2>1. CASE t \in revoked
    <3>1. (t \in revoked) = TRUE
      BY <2>1
    <3>2. request' = [request EXCEPT ![q] = y(TRUE)]
      BY <3>1, Zenon DEF StartCheck
    <3>3. y(TRUE) \in [pc : RequestPcs, token : MaybeChallenge, late : BOOLEAN]
      BY DEF RequestPcs, MaybeChallenge
    <3>4. y(TRUE).pc = "lookup" /\ y(TRUE).token = t
      OBVIOUS
    <3> HIDE DEF y
    <3> QED
      BY <2>1, <3>2, <3>3, <3>4
  <2>2. CASE t \notin revoked
    <3>1. (t \in revoked) = FALSE
      BY <2>2
    <3>2. request' = [request EXCEPT ![q] = y(FALSE)]
      BY <3>1, Zenon DEF StartCheck
    <3>3. y(FALSE) \in [pc : RequestPcs, token : MaybeChallenge, late : BOOLEAN]
      BY DEF RequestPcs, MaybeChallenge
    <3>4. y(FALSE).pc = "lookup" /\ y(FALSE).token = t /\ ~y(FALSE).late
      OBVIOUS
    <3> HIDE DEF y
    <3> QED
      BY <3>2, <3>3, <3>4
  <2> QED
    BY <2>1, <2>2
<1>2. UNCHANGED <<redisUp, expired, denylist, revoked, failures>>
  BY DEF StartCheck, tokenVars
<1>3. cooled' = FALSE /\ breaker' = IF breaker = "OPEN" THEN "HALF_OPEN" ELSE breaker
  BY DEF StartCheck
<1>4. breaker' \in BreakerStates /\ failures' \in 0 .. FailureThreshold
  BY <1>2, <1>3 DEF CheckInv, CheckTypeOK, BreakerStates
<1>5. CircuitCountsFailures'
  BY <1>2, <1>3 DEF CheckInv, CircuitCountsFailures
<1>6. UNCHANGED <<redisUp, expired, denylist, revoked>>
  BY <1>2
<1> QED
  BY <1>1, <1>3, <1>4, <1>5, <1>6, RequestMoves

\* A continuation of a request.
LEMMA CheckStepInv ==
  ASSUME CheckInv, NEW q \in AuthRequests, CheckStep(q)
  PROVE  CheckInv'
<1>1. CASE Lookup(q)
  <2> DEFINE p == IF ~redisUp THEN "error"
                  ELSE IF request[q].token \in denylist THEN "revoked" ELSE "clean"
  <2>1. /\ p \in RequestPcs /\ request[q].pc = "lookup" /\ RequestGoto(q, p)
        /\ UNCHANGED <<redisUp, expired, denylist, revoked, breaker, failures, cooled>>
    BY <1>1 DEF Lookup, RequestAt, RequestPcs, tokenVars, breakerVars
  <2>2. PICK x \in [pc : RequestPcs, token : MaybeChallenge, late : BOOLEAN] :
          /\ request' = [request EXCEPT ![q] = x]
          /\ x.pc = p /\ x.token = request[q].token /\ x.late = request[q].late
          /\ x.token \in Challenges
    BY <2>1, GotoIsFine
  <2>3. x.late => x.token \in revoked
    BY <2>2 DEF CheckInv, RevocationsHold
  <2>4. x.pc \in {"clean", "admitted"} /\ x.late => x.token \in expired
    BY <2>2, <2>3 DEF CheckInv, RevocationsHold
  <2>5. /\ breaker' \in BreakerStates /\ failures' \in 0 .. FailureThreshold
        /\ cooled' \in BOOLEAN /\ (cooled' => breaker' = "OPEN")
        /\ CircuitCountsFailures'
    BY <2>1 DEF CheckInv, CheckTypeOK, CircuitCountsFailures
  <2>6. UNCHANGED <<redisUp, expired, denylist, revoked>>
    BY <2>1
  <2>7. request' = [request EXCEPT ![q] = x] /\ x.token \in Challenges
    BY <2>2
  <2> HIDE DEF p
  <2> QED
    BY <2>3, <2>4, <2>5, <2>6, <2>7, RequestMoves
<1>2. CASE Admit(q)
  <2>1. /\ request[q].pc = "clean" /\ RequestGoto(q, "admitted")
        /\ breaker' = "CLOSED" /\ failures' = 0 /\ cooled' = FALSE
        /\ UNCHANGED <<redisUp, expired, denylist, revoked>>
    BY <1>2 DEF Admit, RequestAt, tokenVars
  <2>2. PICK x \in [pc : RequestPcs, token : MaybeChallenge, late : BOOLEAN] :
          /\ request' = [request EXCEPT ![q] = x]
          /\ x.pc = "admitted" /\ x.token = request[q].token /\ x.late = request[q].late
          /\ x.token \in Challenges
    BY <2>1, GotoIsFine DEF RequestPcs
  <2>3. (x.late => x.token \in revoked) /\ (x.late => x.token \in expired)
    BY <2>1, <2>2 DEF CheckInv, RevocationsHold
  <2>4. /\ breaker' \in BreakerStates /\ failures' \in 0 .. FailureThreshold
        /\ cooled' \in BOOLEAN /\ (cooled' => breaker' = "OPEN")
        /\ CircuitCountsFailures'
    <3>1. 0 \in 0 .. FailureThreshold /\ 0 < FailureThreshold
      BY SessionsAssumption
    <3>2. failures' \in 0 .. FailureThreshold /\ failures' < FailureThreshold
      BY <2>1, <3>1
    <3>3. CircuitCountsFailures'
      BY <2>1, <3>2 DEF CircuitCountsFailures
    <3> QED
      BY <2>1, <3>2, <3>3 DEF BreakerStates
  <2> QED
    BY <2>1, <2>2, <2>3, <2>4, RequestMoves
<1>3. CASE RefuseRevoked(q) \/ RequestServed(q)
  <2>1. /\ request' = [request EXCEPT ![q] = IdleRequest]
        /\ UNCHANGED <<redisUp, expired, denylist, revoked, breaker, failures, cooled>>
    BY <1>3 DEF RefuseRevoked, RequestServed, RequestEnds, tokenVars, breakerVars
  <2>2. /\ breaker' \in BreakerStates /\ failures' \in 0 .. FailureThreshold
        /\ cooled' \in BOOLEAN /\ (cooled' => breaker' = "OPEN")
        /\ CircuitCountsFailures'
    BY <2>1 DEF CheckInv, CheckTypeOK, CircuitCountsFailures
  <2>3. UNCHANGED <<redisUp, expired, denylist, revoked>>
    BY <2>1
  <2> QED
    BY <2>1, <2>2, <2>3, IdleIsFine, RequestMoves
<1>4. CASE RefuseUnknown(q)
  <2>1. /\ request' = [request EXCEPT ![q] = IdleRequest]
        /\ UNCHANGED <<redisUp, expired, denylist, revoked>>
        /\ failures' = CountFailure
    BY <1>4 DEF RefuseUnknown, RequestEnds, tokenVars
  <2>2. /\ failures' \in 0 .. FailureThreshold
        /\ failures \in 0 .. FailureThreshold
        /\ failures >= FailureThreshold => failures' >= FailureThreshold
    BY <2>1, SessionsAssumption DEF CountFailure, CheckInv, CheckTypeOK
  <2>3. CASE breaker = "HALF_OPEN" \/ failures' >= FailureThreshold
    <3>1. breaker' = "OPEN" /\ cooled' = FALSE
      BY <1>4, <2>3 DEF RefuseUnknown
    <3>2. ~(failures' < FailureThreshold)
      BY <2>2, <2>3, SessionsAssumption DEF CheckInv, CircuitCountsFailures
    <3>3. CircuitCountsFailures'
      BY <3>1, <3>2 DEF CircuitCountsFailures
    <3> QED
      BY <2>1, <2>2, <3>1, <3>3, IdleIsFine, RequestMoves DEF BreakerStates
  <2>4. CASE ~(breaker = "HALF_OPEN" \/ failures' >= FailureThreshold)
    <3>1. UNCHANGED <<breaker, cooled>>
      BY <1>4, <2>4 DEF RefuseUnknown
    <3>2. failures < FailureThreshold /\ failures' < FailureThreshold
      BY <2>2, <2>4, SessionsAssumption
    <3>3. CircuitCountsFailures'
      BY <3>1, <3>2 DEF CheckInv, CircuitCountsFailures
    <3>4. breaker' \in BreakerStates /\ cooled' \in BOOLEAN /\ (cooled' => breaker' = "OPEN")
      BY <3>1 DEF CheckInv, CheckTypeOK
    <3> QED
      BY <2>1, <2>2, <3>3, <3>4, IdleIsFine, RequestMoves
  <2> QED
    BY <2>3, <2>4
<1> QED
  BY <1>1, <1>2, <1>3, <1>4 DEF CheckStep

\* Every step keeps the invariant of tokens, circuit and requests.
LEMMA CheckNextInv == CheckInv /\ [SessionsNext]_sessionsVars => CheckInv'
<1> SUFFICES ASSUME CheckInv, [SessionsNext]_sessionsVars PROVE CheckInv'
  OBVIOUS
<1> USE DEF CheckInv, CheckTypeOK, RevocationsHold, CircuitCountsFailures
<1>1. CASE LoginStep
  <2>1. UNCHANGED <<redisUp, tokenVars, breakerVars, request>>
    BY <1>1 DEF LoginStep, GetChallenge, ChallengeLapses, ConsumeReplyLost, CompareChallenge,
                FindUser, CreateUser, SignToken, ConsumeChallenge
  <2> QED
    BY <2>1 DEF tokenVars, breakerVars
<1>2. CASE TokenStep
  BY <1>2, TokenStepInv
<1>3. CASE RedisFails \/ RedisRecovers
  <2>1. redisUp' \in BOOLEAN /\ UNCHANGED <<tokenVars, breakerVars, request>>
    BY <1>3 DEF RedisFails, RedisRecovers
  <2> QED
    BY <2>1 DEF tokenVars, breakerVars
<1>4. CASE CooldownPasses
  BY <1>4 DEF CooldownPasses, tokenVars
<1>5. ASSUME NEW q \in AuthRequests, CheckStep(q) PROVE CheckInv'
  BY <1>5, CheckStepInv
<1>6. ASSUME NEW q \in AuthRequests, NEW t \in Challenges, StartCheck(q, t) PROVE CheckInv'
  BY <1>6, StartCheckInv
<1>7. CASE UNCHANGED sessionsVars
  BY <1>7 DEF sessionsVars, tokenVars, breakerVars
<1> QED
  BY <1>1, <1>2, <1>3, <1>4, <1>5, <1>6, <1>7 DEF SessionsNext

-----------------------------------------------------------------------------
\* Hence the whole invariant always holds.
LEMMA Invariance == SessionsSpec => []IInv
<1>1. IInv <=> LoginInv /\ CheckInv
  BY DEF IInv, SessionsTypeOK, LoginInv, LoginTypeOK, CheckInv, CheckTypeOK
<1>2. IInv /\ [SessionsNext]_sessionsVars => IInv'
  <2> SUFFICES ASSUME IInv, [SessionsNext]_sessionsVars PROVE IInv'
    OBVIOUS
  <2>1. LoginInv' /\ CheckInv'
    BY <1>1, LoginNextInv, CheckNextInv
  <2> QED
    BY <2>1 DEF IInv, SessionsTypeOK, LoginInv, LoginTypeOK, CheckInv, CheckTypeOK
<1> QED
  BY <1>2, InitInv, PTL DEF SessionsSpec

\* The records of logins, requests and the circuit are always well formed.
THEOREM TypeCorrect == SessionsSpec => []SessionsTypeOK
<1>1. IInv => SessionsTypeOK
  BY DEF IInv
<1> QED
  BY <1>1, Invariance, PTL

\* GETDEL makes a challenge earn one token at most, however many logins bring it.
THEOREM ChallengesAreSpentOnce == SessionsSpec => []OneTokenPerChallenge
<1>1. IInv => OneTokenPerChallenge
  BY DEF IInv, ChallengeInOnePlace, OneTokenPerChallenge
<1> QED
  BY <1>1, Invariance, PTL

\* A request that came after its token's logout is not let in while the token lives,
\* through any outage of Redis and any order of the continuations.
THEOREM RevokedTokensStayOut == SessionsSpec => []RevokedStaysOut
<1>1. IInv => RevokedStaysOut
  BY DEF IInv, RevocationsHold, RevokedStaysOut, RequestAt
<1> QED
  BY <1>1, Invariance, PTL

\* The circuit is closed exactly while fewer lookups than the threshold have failed
\* since the last success.
THEOREM CircuitCounts == SessionsSpec => []CircuitCountsFailures
<1>1. IInv => CircuitCountsFailures
  BY DEF IInv
<1> QED
  BY <1>1, Invariance, PTL
=============================================================================
