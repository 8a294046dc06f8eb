------------------------ MODULE ValidatorQuorumProofs ------------------------
(***************************************************************************)
(* Theorems about ValidatorQuorum, for every set of validators and         *)
(* requests, every quorum size and any number of failing requests.         *)
(***************************************************************************)
EXTENDS ValidatorQuorum, FiniteSetTheorems, TLAPS

-----------------------------------------------------------------------------
(* Type correctness.                                                       *)

LEMMA InitTypeOK == Init => TypeOK
  BY QuorumAssumption, IntentsAssumption
  DEF Init, TypeOK, NoVotes, NoAnswer, Ballots, Answers, Pcs

LEMMA RespondType ==
  ASSUME TypeOK, NEW r \in Requests, NEW f \in BOOLEAN,
         NEW s \in FinalStatuses \cup {None}, Respond(r, f, s)
  PROVE  pc' \in [Requests -> Pcs] /\ answer' \in [Requests -> Answers]
  BY DEF TypeOK, Respond, Pcs, Answers

LEMMA CountReviewsType ==
  ASSUME TypeOK, NEW ballot \in Ballots, CountReviews(ballot)
  PROVE  reviews' \in [Validators -> Nat]
  BY DEF TypeOK, CountReviews

LEMMA SettleReputationType ==
  ASSUME TypeOK, NEW ballot \in Ballots, NEW d \in Verdicts, SettleReputation(ballot, d)
  PROVE  reputation' \in [Validators -> Int]
  BY DEF TypeOK, SettleReputation

LEMMA RequestType ==
  ASSUME TypeOK, NEW r \in Requests, StartCast(r) \/ RequestStep(r) \/ RequestFails(r)
  PROVE  TypeOK'
<1> USE DEF proofVars, ballotVars, userVars, requestVars
<1>1. CASE StartCast(r)
  BY <1>1 DEF StartCast, TypeOK, Pcs
<1>2. CASE CastVote(r)
  <2>1. VoterOf[r] \in Validators /\ choice[r] \in Verdicts
    BY VotersAssumption DEF TypeOK
  <2>2. cast' \subseteq Validators \X Verdicts
    BY <1>2, <2>1 DEF CastVote, TypeOK
  <2>3. votes' \in Ballots
    BY <1>2, <2>1 DEF CastVote, TypeOK, Ballots
  <2>4. QED
    BY <1>2, <2>2, <2>3 DEF CastVote, TypeOK, Pcs
<1>3. CASE ReadStatus(r)
  <2>1. CASE Open
    BY <1>3, <2>1 DEF ReadStatus, TypeOK, Pcs
  <2>2. CASE ~Open
    <3>1. status \in FinalStatuses /\ Respond(r, FALSE, status)
      BY <1>3, <2>2 DEF ReadStatus, Open, TypeOK
    <3>2. QED
      BY <1>3, <3>1, RespondType DEF ReadStatus, TypeOK
  <2>3. QED
    BY <2>1, <2>2
<1>4. CASE Tally(r)
  <2>1. seen' \in [Requests -> Ballots]
    BY <1>4 DEF Tally, TypeOK
  <2>2. choice' \in [Requests -> Verdicts]
    BY <1>4 DEF Tally, TypeOK
  <2>3. pc' \in [Requests -> Pcs] /\ answer' \in [Requests -> Answers]
    <3>1. CASE Respond(r, FALSE, None)
      BY <3>1, RespondType
    <3>2. ASSUME NEW at \in {"finalize", "escalate"}, pc' = [pc EXCEPT ![r] = at],
                 UNCHANGED answer
          PROVE  pc' \in [Requests -> Pcs] /\ answer' \in [Requests -> Answers]
      BY <3>2 DEF TypeOK, Pcs
    <3>3. QED
      BY <1>4, <3>1, <3>2 DEF Tally
  <2>4. QED
    BY <1>4, <2>1, <2>2, <2>3 DEF Tally, TypeOK
<1>5. CASE FinalizeProof(r)
  <2>1. /\ choice[r] \in Verdicts /\ seen[r] \in Ballots
        /\ Granted(choice[r]) \subseteq FinalStatuses
        /\ Requested(choice[r]) \in FinalStatuses
    BY DEF TypeOK, Granted, Requested, FinalStatuses
  <2>2. PICK s \in FinalStatuses : Respond(r, TRUE, s)
    BY <1>5, <2>1 DEF FinalizeProof
  <2>3. pc' \in [Requests -> Pcs] /\ answer' \in [Requests -> Answers]
    BY <2>2, RespondType
  <2>4. status' \in {"OPEN"} \cup FinalStatuses /\ quorumVerdict' \in Verdicts \cup {None}
    BY <1>5, <2>1 DEF FinalizeProof, TypeOK
  <2>5. reviews' \in [Validators -> Nat] /\ reputation' \in [Validators -> Int]
    <3>1. CASE UNCHANGED userVars
      BY <3>1 DEF TypeOK
    <3>2. CASE CountReviews(seen[r]) /\ SettleReputation(seen[r], choice[r])
      BY <2>1, <3>2, CountReviewsType, SettleReputationType
    <3>3. QED
      BY <1>5, <3>1, <3>2 DEF FinalizeProof
  <2>6. QED
    BY <1>5, <2>3, <2>4, <2>5 DEF FinalizeProof, TypeOK
<1>6. CASE EscalateSplitVote(r)
  <2>1. seen[r] \in Ballots
    BY DEF TypeOK
  <2>2. reviews' \in [Validators -> Nat]
    BY <1>6, <2>1, CountReviewsType DEF EscalateSplitVote
  <2>3. pc' \in [Requests -> Pcs] /\ answer' \in [Requests -> Answers]
    BY <1>6, RespondType DEF EscalateSplitVote
  <2>4. QED
    BY <1>6, <2>2, <2>3 DEF EscalateSplitVote, TypeOK
<1>7. CASE RequestFails(r)
  BY <1>7 DEF RequestFails, TypeOK, Pcs
<1>8. QED
  BY <1>1, <1>2, <1>3, <1>4, <1>5, <1>6, <1>7 DEF RequestStep

LEMMA StepTypeOK == TypeOK /\ [Next]_vars => TypeOK'
<1> SUFFICES ASSUME TypeOK, [Next]_vars PROVE TypeOK'
  OBVIOUS
<1> USE DEF proofVars, ballotVars, userVars, requestVars
<1>1. CASE UNCHANGED vars
  BY <1>1 DEF vars, TypeOK
<1>2. CASE DecideElsewhere
  BY <1>2 DEF DecideElsewhere, TypeOK
<1>3. QED
  BY <1>1, <1>2, RequestType DEF Next

\* The votes, the counters and every request stay well formed.
THEOREM TypeCorrect == Spec => []TypeOK
  BY InitTypeOK, StepTypeOK, PTL DEF Spec

-----------------------------------------------------------------------------
(* A quorum verdict is backed by a quorum and given once.                  *)

\* A request finalizes only what it has counted a quorum for.
CountedInv == \A r \in Requests : pc[r] = "finalize" => HasQuorum(seen[r], choice[r])

\* Reputation has moved only with a quorum verdict, which closed the proof.
SettledInv ==
  /\ quorumVerdict = None => \A v \in Validators : reputation[v] = 0
  /\ quorumVerdict # None => ~Open

QuorumInv == CountedInv /\ SettledInv /\ QuorumBacksVerdict

\* What a finalization of an open proof does to the validators.
LEMMA FinalizationSettles ==
  ASSUME TypeOK, QuorumInv, NEW r \in Requests, FinalizeProof(r), Open
  PROVE  /\ quorumVerdict = None
         /\ quorumVerdict' = choice[r]
         /\ choice[r] \in Verdicts /\ choice[r] # None
         /\ status' \in FinalStatuses
         /\ \A v \in Validators :
              reputation'[v] = IF seen[r][v] = choice[r] THEN 1
                               ELSE IF seen[r][v] # None THEN -1 ELSE 0
<1>1. quorumVerdict = None /\ \A v \in Validators : reputation[v] = 0
  BY DEF QuorumInv, SettledInv
<1>2. choice[r] \in Verdicts /\ choice[r] # None
  BY NoneAssumption DEF TypeOK
<1>3. quorumVerdict' = choice[r] /\ SettleReputation(seen[r], choice[r])
  BY DEF FinalizeProof
<1>4. status' \in FinalStatuses
  BY DEF FinalizeProof, Granted, Requested, FinalStatuses
<1>5. QED
  BY <1>1, <1>2, <1>3, <1>4 DEF SettleReputation, InFavour, Submitted

LEMMA InitQuorum == Init => QuorumInv
  BY DEF Init, QuorumInv, CountedInv, SettledInv, QuorumBacksVerdict

LEMMA StepCounted ==
  ASSUME TypeOK, CountedInv, [Next]_vars
  PROVE  CountedInv'
<1> SUFFICES ASSUME NEW q \in Requests, pc'[q] = "finalize"
             PROVE  HasQuorum(seen'[q], choice'[q])
  BY DEF CountedInv, HasQuorum, InFavour
<1>1. CASE pc[q] = "finalize" /\ seen'[q] = seen[q] /\ choice'[q] = choice[q]
  BY <1>1 DEF CountedInv
<1>2. CASE UNCHANGED vars
  BY <1>1, <1>2 DEF vars, requestVars
<1>3. CASE DecideElsewhere
  BY <1>1, <1>3 DEF DecideElsewhere, requestVars
<1>4. ASSUME NEW r \in Requests, Tally(r) PROVE HasQuorum(seen'[q], choice'[q])
  <2>1. CASE q = r
    BY <1>4, <2>1 DEF Tally, Respond, TypeOK
  <2>2. CASE q # r
    BY <1>1, <1>4, <2>2 DEF Tally, Respond, TypeOK
  <2>3. QED
    BY <2>1, <2>2
<1>5. ASSUME NEW r \in Requests,
             \/ StartCast(r) \/ CastVote(r) \/ ReadStatus(r)
             \/ FinalizeProof(r) \/ EscalateSplitVote(r) \/ RequestFails(r)
      PROVE  HasQuorum(seen'[q], choice'[q])
  <2>1. seen' = seen /\ choice' = choice
    BY <1>5 DEF StartCast, CastVote, ReadStatus, FinalizeProof, EscalateSplitVote, RequestFails
  <2>2. pc[q] = "finalize"
    BY <1>5 DEF StartCast, CastVote, ReadStatus, FinalizeProof, EscalateSplitVote,
       RequestFails, Respond, TypeOK
  <2>3. QED
    BY <1>1, <2>1, <2>2
<1>6. QED
  BY <1>2, <1>3, <1>4, <1>5 DEF Next, RequestStep

\* Every other step leaves the verdict and the reputations, and reopens nothing.
LEMMA OnlyFinalizationSettles ==
  ASSUME TypeOK, [Next]_vars
  PROVE  \/ /\ UNCHANGED <<quorumVerdict, reputation>>
            /\ Open' => Open
         \/ \E r \in Requests : FinalizeProof(r) /\ Open
<1> USE DEF proofVars, ballotVars, userVars, requestVars, Open
<1>1. CASE UNCHANGED vars
  BY <1>1 DEF vars
<1>2. CASE DecideElsewhere
  BY <1>2 DEF DecideElsewhere
<1>3. ASSUME NEW r \in Requests, StartCast(r) \/ RequestFails(r) \/ RequestStep(r),
             ~(FinalizeProof(r) /\ Open)
      PROVE  UNCHANGED <<quorumVerdict, reputation>> /\ (Open' => Open)
  BY <1>3 DEF StartCast, RequestFails, RequestStep, CastVote, ReadStatus, Tally,
     FinalizeProof, EscalateSplitVote
<1>4. QED
  BY <1>1, <1>2, <1>3 DEF Next

LEMMA StepQuorum == TypeOK /\ QuorumInv /\ [Next]_vars => QuorumInv'
<1> SUFFICES ASSUME TypeOK, QuorumInv, [Next]_vars PROVE QuorumInv'
  OBVIOUS
<1>1. CountedInv'
  BY StepCounted DEF QuorumInv
<1>2. CASE UNCHANGED <<quorumVerdict, reputation>> /\ (Open' => Open)
  BY <1>1, <1>2 DEF QuorumInv, SettledInv, QuorumBacksVerdict
<1>3. ASSUME NEW r \in Requests, FinalizeProof(r), Open PROVE QuorumInv'
  <2>1. /\ quorumVerdict' = choice[r] /\ choice[r] # None
        /\ status' \in FinalStatuses
        /\ \A v \in Validators :
             reputation'[v] = IF seen[r][v] = choice[r] THEN 1
                              ELSE IF seen[r][v] # None THEN -1 ELSE 0
    BY <1>3, FinalizationSettles
  <2>2. {v \in Validators : reputation'[v] = 1} = InFavour(seen[r], choice[r])
    BY <2>1 DEF InFavour
  <2>3. HasQuorum(seen[r], choice[r])
    BY <1>3 DEF FinalizeProof, QuorumInv, CountedInv
  <2>4. QuorumBacksVerdict'
    BY <2>2, <2>3 DEF QuorumBacksVerdict, HasQuorum
  <2>5. SettledInv'
    BY <2>1 DEF SettledInv, Open, FinalStatuses
  <2>6. QED
    BY <1>1, <2>4, <2>5 DEF QuorumInv
<1>4. QED
  BY <1>2, <1>3, OnlyFinalizationSettles

LEMMA QuorumInvariant == Spec => []QuorumInv
  BY TypeCorrect, InitQuorum, StepQuorum, PTL DEF Spec

\* A quorum's verdict has earned at least a quorum of validators their point,
\* also when the same validator's requests race and overwrite its vote.
THEOREM VerdictsAreBacked == Spec => []QuorumBacksVerdict
<1>1. QuorumInv => QuorumBacksVerdict
  BY DEF QuorumInv
<1>2. QED
  BY <1>1, QuorumInvariant, PTL

\* A second finalization neither replaces the verdict nor pays reputation again.
THEOREM VerdictsAreGivenOnce == Spec => QuorumDecidesOnce
<1>1. TypeOK /\ QuorumInv /\ [Next]_vars
        => [quorumVerdict # None => UNCHANGED <<quorumVerdict, reputation>>]_vars
  BY OnlyFinalizationSettles DEF QuorumInv, SettledInv
<1>2. QED
  BY <1>1, TypeCorrect, QuorumInvariant, PTL DEF Spec, QuorumDecidesOnce

\* The requests together implement the ballot: the step that finalizes decides
\* it, and no other step touches it (ImplementsBallot).
THEOREM RequestsHoldOneBallot == Spec => ImplementsBallot
<1>1. Init => Outcome!Init
  <2> SUFFICES ASSUME Init PROVE Outcome!Init
    OBVIOUS
  <2>1. \A v \in Validators : reputation[v] = 0
    BY DEF Init
  <2>2. QED
    BY <2>1 DEF Init, Outcome!Init
<1>2. ASSUME TypeOK, QuorumInv, [Next]_vars
      PROVE  [Outcome!Decide]_(Outcome!ballot)
  <2>1. CASE UNCHANGED <<quorumVerdict, reputation>>
    BY <2>1 DEF Outcome!ballot
  <2>2. ASSUME NEW r \in Requests, FinalizeProof(r), Open PROVE Outcome!Decide
    <3> DEFINE backers == {v \in Validators : reputation'[v] > 0}
               dissenters == {v \in Validators : reputation'[v] < 0}
    <3>1. /\ quorumVerdict = None
          /\ quorumVerdict' \in {"approved", "rejected"}
          /\ \A v \in Validators :
               reputation'[v] = IF seen[r][v] = choice[r] THEN 1
                                ELSE IF seen[r][v] # None THEN -1 ELSE 0
      BY <1>2, <2>2, FinalizationSettles DEF Verdicts
    <3>2. backers = InFavour(seen[r], choice[r])
      BY <3>1 DEF InFavour
    <3>3. Cardinality(backers) >= QuorumRequired
      BY <1>2, <2>2, <3>2 DEF FinalizeProof, QuorumInv, CountedInv, HasQuorum
    <3>4. dissenters \in SUBSET (Validators \ backers)
      BY <3>1
    <3>5. QED
      BY <3>1, <3>3, <3>4 DEF Outcome!Decide
  <2>3. QED
    BY <1>2, <2>1, <2>2, OnlyFinalizationSettles
<1>3. QED
  BY <1>1, <1>2, TypeCorrect, QuorumInvariant, PTL DEF Spec, ImplementsBallot, Outcome!Spec

\* Only a finalization and an escalation count reviews, each with a row of its own.
LEMMA StepReviews ==
  ASSUME TypeOK, QuorumInv, ReviewsMatchRows, [Next]_vars
  PROVE  ReviewsMatchRows'
<1> USE DEF proofVars, ballotVars, userVars, requestVars
<1>1. CASE UNCHANGED <<quorumVerdict, splits, reviews>>
  BY <1>1 DEF ReviewsMatchRows
<1>2. ASSUME NEW r \in Requests, CountReviews(seen[r]), NEW v \in Validators
      PROVE  reviews[v] \in Nat /\ reviews'[v] \in Nat /\ reviews'[v] <= reviews[v] + 1
  BY <1>2 DEF CountReviews, TypeOK
<1>3. ASSUME NEW r \in Requests, FinalizeProof(r), Open PROVE ReviewsMatchRows'
  <2>1. quorumVerdict = None /\ quorumVerdict' # None /\ splits' = splits
    BY <1>3, FinalizationSettles DEF FinalizeProof
  <2>2. splits \in Nat /\ CountReviews(seen[r])
    BY <1>3 DEF FinalizeProof, TypeOK
  <2>3. QED
    BY <1>2, <2>1, <2>2 DEF ReviewsMatchRows
<1>4. ASSUME NEW r \in Requests, EscalateSplitVote(r) PROVE ReviewsMatchRows'
  <2>1. quorumVerdict' = quorumVerdict /\ splits' = splits + 1 /\ splits \in Nat
    BY <1>4 DEF EscalateSplitVote, TypeOK
  <2>2. CountReviews(seen[r])
    BY <1>4 DEF EscalateSplitVote
  <2>3. QED
    BY <1>2, <2>1, <2>2 DEF ReviewsMatchRows
<1>5. CASE UNCHANGED vars \/ DecideElsewhere
  BY <1>1, <1>5 DEF vars, DecideElsewhere
<1>6. ASSUME NEW r \in Requests,
             \/ StartCast(r) \/ RequestFails(r) \/ CastVote(r) \/ ReadStatus(r) \/ Tally(r)
             \/ FinalizeProof(r) /\ ~Open
      PROVE  ReviewsMatchRows'
  BY <1>1, <1>6 DEF StartCast, RequestFails, CastVote, ReadStatus, Tally, FinalizeProof
<1>7. QED
  BY <1>3, <1>4, <1>5, <1>6 DEF Next, RequestStep

\* Racing last voters never count a review that has no verification row.
THEOREM ReviewsHaveRows == Spec => []ReviewsMatchRows
<1>1. Init => ReviewsMatchRows
  BY DEF Init, ReviewsMatchRows
<1>2. TypeOK /\ QuorumInv /\ ReviewsMatchRows /\ [Next]_vars => ReviewsMatchRows'
  BY StepReviews
<1>3. QED
  BY <1>1, <1>2, TypeCorrect, QuorumInvariant, PTL DEF Spec

-----------------------------------------------------------------------------
(* Reputation follows votes that were cast, whoever overwrote them.        *)

\* What a request has read was stored once, and what is stored was cast.
BallotInv ==
  /\ \A v \in Validators : votes[v] # None => <<v, votes[v]>> \in cast
  /\ \A r \in Requests, v \in Validators : seen[r][v] # None => <<v, seen[r][v]>> \in cast

FollowInv == BallotInv /\ ReputationFollowsVotes

LEMMA InitFollow == Init => FollowInv
  BY DEF Init, FollowInv, BallotInv, ReputationFollowsVotes, NoVotes

LEMMA CastStays == TypeOK /\ [Next]_vars => cast \subseteq cast'
  BY DEF Next, RequestStep, StartCast, CastVote, ReadStatus, Tally, FinalizeProof,
     EscalateSplitVote, RequestFails, DecideElsewhere, vars, ballotVars, requestVars

LEMMA StepBallot ==
  ASSUME TypeOK, BallotInv, [Next]_vars
  PROVE  BallotInv'
<1> USE DEF ballotVars
<1>1. cast \subseteq cast'
  BY CastStays
<1>2. ASSUME NEW r \in Requests, CastVote(r) PROVE BallotInv'
  <2>1. /\ <<VoterOf[r], choice[r]>> \in cast' /\ seen' = seen
        /\ \A v \in Validators :
             votes'[v] = IF v = VoterOf[r] THEN choice[r] ELSE votes[v]
    BY <1>2, VotersAssumption DEF CastVote, TypeOK, Ballots
  <2>2. QED
    BY <1>1, <2>1 DEF BallotInv
<1>3. ASSUME NEW r \in Requests, Tally(r) PROVE BallotInv'
  <2>1. /\ votes' = votes /\ cast' = cast
        /\ \A q \in Requests : seen'[q] = IF q = r THEN votes ELSE seen[q]
    BY <1>3 DEF Tally, TypeOK
  <2>2. QED
    BY <2>1 DEF BallotInv
<1>4. ASSUME NEW r \in Requests,
             \/ StartCast(r) \/ ReadStatus(r) \/ FinalizeProof(r) \/ EscalateSplitVote(r)
             \/ RequestFails(r)
      PROVE  BallotInv'
  <2>1. UNCHANGED <<votes, cast, seen>>
    BY <1>4 DEF StartCast, ReadStatus, FinalizeProof, EscalateSplitVote, RequestFails
  <2>2. QED
    BY <2>1 DEF BallotInv
<1>5. CASE DecideElsewhere \/ UNCHANGED vars
  <2>1. UNCHANGED <<votes, cast, seen>>
    BY <1>5 DEF DecideElsewhere, vars, requestVars
  <2>2. QED
    BY <2>1 DEF BallotInv
<1>6. QED
  BY <1>2, <1>3, <1>4, <1>5 DEF Next, RequestStep

LEMMA StepFollow ==
  ASSUME TypeOK, QuorumInv, FollowInv, [Next]_vars
  PROVE  FollowInv'
<1>1. BallotInv'
  BY StepBallot DEF FollowInv
<1>2. CASE UNCHANGED <<quorumVerdict, reputation>>
  <2>1. cast \subseteq cast'
    BY CastStays
  <2>2. QED
    BY <1>1, <1>2, <2>1 DEF FollowInv, ReputationFollowsVotes
<1>3. ASSUME NEW r \in Requests, FinalizeProof(r), Open PROVE FollowInv'
  <2>1. /\ quorumVerdict' = choice[r]
        /\ \A v \in Validators :
             reputation'[v] = IF seen[r][v] = choice[r] THEN 1
                              ELSE IF seen[r][v] # None THEN -1 ELSE 0
    BY <1>3, FinalizationSettles
  <2>2. cast' = cast
    BY <1>3 DEF FinalizeProof, ballotVars
  <2>3. \A v \in Validators :
          /\ seen[r][v] # None => <<v, seen[r][v]>> \in cast
          /\ seen[r][v] \in Verdicts \cup {None}
    BY DEF FollowInv, BallotInv, TypeOK, Ballots
  <2>4. choice[r] # None
    BY <1>3, FinalizationSettles
  <2>5. ASSUME NEW v \in Validators, reputation'[v] > 0 PROVE <<v, quorumVerdict'>> \in cast'
    BY <2>1, <2>2, <2>3, <2>4, <2>5
  <2>6. ASSUME NEW v \in Validators, reputation'[v] < 0
        PROVE  \E d \in Verdicts \ {quorumVerdict'} : <<v, d>> \in cast'
    <3>1. seen[r][v] # choice[r] /\ seen[r][v] # None
      BY <2>1, <2>6
    <3>2. seen[r][v] \in Verdicts \ {quorumVerdict'} /\ <<v, seen[r][v]>> \in cast'
      BY <2>1, <2>2, <2>3, <3>1
    <3>3. QED
      BY <3>2
  <2>7. QED
    BY <1>1, <2>5, <2>6 DEF FollowInv, ReputationFollowsVotes
<1>4. QED
  BY <1>2, <1>3, OnlyFinalizationSettles

\* Reputation is gained only by a vote that was cast for the quorum's verdict and
\* lost only by one cast against it, however many requests of one validator race.
THEOREM ReputationIsEarned == Spec => []ReputationFollowsVotes
<1>1. TypeOK /\ QuorumInv /\ FollowInv /\ [Next]_vars => FollowInv'
  BY StepFollow
<1>2. FollowInv => ReputationFollowsVotes
  BY DEF FollowInv
<1>3. QED
  BY <1>1, <1>2, InitFollow, TypeCorrect, QuorumInvariant, PTL DEF Spec

-----------------------------------------------------------------------------
(* What VotesResolve rests on: no vote that decides is left to itself.     *)

\* While no request has failed, an open proof whose votes have a quorum is in
\* the hands of a request that has yet to read them or to finalize, and one
\* that all have voted on has such a request too, or has been escalated.
DecidingVoteIsPursued ==
  Open /\ faults = 0 =>
    /\ (\E d \in Verdicts : HasQuorum(votes, d)) =>
         \E r \in Requests : pc[r] \in {"resolve", "tally", "finalize"}
    /\ Submitted(votes) = Validators /\ Validators # {} /\ splits = 0 =>
         \E r \in Requests : pc[r] \in {"resolve", "tally", "finalize", "escalate"}

\* A step that leaves the votes alone and one request where it was, or takes it
\* on, leaves nobody behind.
LEMMA PursuitGoesOn ==
  ASSUME TypeOK, DecidingVoteIsPursued, Open, faults = 0, votes' = votes, splits' = splits,
         NEW r \in Requests, \A q \in Requests \ {r} : pc'[q] = pc[q],
         pc'[r] \in {pc[r], "tally", "finalize"}
  PROVE  DecidingVoteIsPursued'
<1>1. \A q \in Requests :
        /\ pc[q] \in {"resolve", "tally", "finalize"} => pc'[q] \in {"resolve", "tally", "finalize"}
        /\ pc[q] = "escalate" => pc'[q] \in {"escalate", "tally", "finalize"}
  OBVIOUS
<1>2. QED
  BY <1>1 DEF DecidingVoteIsPursued, HasQuorum, InFavour, Submitted

LEMMA StepPursues ==
  ASSUME TypeOK, DecidingVoteIsPursued, [Next]_vars
  PROVE  DecidingVoteIsPursued'
<1> SUFFICES ASSUME Open', faults' = 0
             PROVE  DecidingVoteIsPursued'
  BY DEF DecidingVoteIsPursued
<1> USE DEF proofVars, ballotVars, userVars, requestVars
<1>1. CASE UNCHANGED vars
  BY <1>1 DEF vars, DecidingVoteIsPursued, Open, HasQuorum, InFavour, Submitted
<1>2. ~DecideElsewhere /\ \A r \in Requests : ~RequestFails(r)
  BY DEF DecideElsewhere, RequestFails, Open, FinalStatuses, TypeOK
<1>3. ASSUME NEW r \in Requests, StartCast(r) PROVE DecidingVoteIsPursued'
  <2>1. /\ pc[r] = "start" /\ Open /\ faults = 0
        /\ UNCHANGED <<status, votes, splits, faults>>
        /\ \A q \in Requests \ {r} : pc'[q] = pc[q]
    BY <1>3 DEF StartCast, TypeOK
  <2>2. QED
    BY <2>1 DEF DecidingVoteIsPursued, HasQuorum, InFavour, Submitted
<1>4. ASSUME NEW r \in Requests, CastVote(r) PROVE DecidingVoteIsPursued'
  BY <1>4 DEF CastVote, TypeOK, DecidingVoteIsPursued
<1>5. ASSUME NEW r \in Requests, ReadStatus(r) PROVE DecidingVoteIsPursued'
  <2>1. /\ Open /\ faults = 0 /\ votes' = votes /\ splits' = splits
        /\ \A q \in Requests \ {r} : pc'[q] = pc[q]
        /\ pc'[r] = "tally"
    BY <1>5 DEF ReadStatus, TypeOK, Open
  <2>2. QED
    BY <2>1, PursuitGoesOn
<1>6. ASSUME NEW r \in Requests, Tally(r) PROVE DecidingVoteIsPursued'
  <2>1. /\ Open /\ faults = 0 /\ votes' = votes /\ splits' = splits
        /\ \A q \in Requests \ {r} : pc'[q] = pc[q]
    BY <1>6 DEF Tally, Respond, TypeOK, Open
  <2>2. CASE pc'[r] = "finalize"
    BY <2>1, <2>2, PursuitGoesOn
  <2>3. CASE pc'[r] # "finalize"
    <3>1. /\ \A d \in Verdicts : ~HasQuorum(votes, d)
          /\ Submitted(votes) = Validators => pc'[r] = "escalate"
      BY <1>6, <2>3 DEF Tally, Respond, TypeOK
    <3>2. QED
      BY <2>1, <3>1 DEF DecidingVoteIsPursued, HasQuorum, InFavour, Submitted
  <2>4. QED
    BY <2>2, <2>3
<1>7. ASSUME NEW r \in Requests, FinalizeProof(r) PROVE DecidingVoteIsPursued'
  <2>1. status' \in FinalStatuses
    BY <1>7 DEF FinalizeProof, Open, Granted, Requested, FinalStatuses, TypeOK
  <2>2. QED
    BY <2>1 DEF Open, FinalStatuses
<1>8. ASSUME NEW r \in Requests, EscalateSplitVote(r) PROVE DecidingVoteIsPursued'
  <2>1. /\ Open /\ faults = 0 /\ votes' = votes /\ splits' # 0
        /\ pc[r] = "escalate" /\ \A q \in Requests \ {r} : pc'[q] = pc[q]
    BY <1>8 DEF EscalateSplitVote, Respond, TypeOK, Open
  <2>2. QED
    BY <2>1 DEF DecidingVoteIsPursued, HasQuorum, InFavour
<1>9. QED
  BY <1>1, <1>2, <1>3, <1>4, <1>5, <1>6, <1>7, <1>8 DEF Next, RequestStep

\* DecidingVoteIsPursued: between the read of the status and that of the votes,
\* and between racing requests, no vote that decides falls through.
THEOREM VotesArePursued == Spec => []DecidingVoteIsPursued
<1>1. Init => DecidingVoteIsPursued
  <2> SUFFICES ASSUME Init PROVE DecidingVoteIsPursued
    OBVIOUS
  <2>1. \A d \in Verdicts : ~HasQuorum(votes, d)
    <3>1. \A d \in Verdicts : InFavour(votes, d) = {}
      BY NoneAssumption DEF Init, NoVotes, InFavour
    <3>2. QED
      BY <3>1, FS_EmptySet, QuorumAssumption DEF HasQuorum
  <2>2. Submitted(votes) = {}
    BY DEF Init, NoVotes, Submitted
  <2>3. QED
    BY <2>1, <2>2 DEF DecidingVoteIsPursued
<1>2. QED
  BY <1>1, StepPursues, TypeCorrect, PTL DEF Spec
=============================================================================
