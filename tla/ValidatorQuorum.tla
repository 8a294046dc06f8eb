--------------------------- MODULE ValidatorQuorum ---------------------------
(***************************************************************************)
(* The validators' vote on one inconclusive proof.                         *)
(*                                                                         *)
(* Each POST /api/validator/reviews/:proofId reads the validator's row,    *)
(* writes the vote, and then resolves the quorum from what it reads next:  *)
(* the proof's status, then all votes.  Nothing is locked between these    *)
(* statements, so the requests of one proof interleave, and the proof may  *)
(* be decided meanwhile by the worker or an admin (see ProofVerdict, which *)
(* also owns the completion slot a quorum's approval needs).               *)
(***************************************************************************)
EXTENDS Integers, FiniteSets

CONSTANTS
  Validators,      \* validators with a validator_votes row for the proof
  Requests,        \* requests to cast a vote
  VoterOf,         \* the validator each request is from
  Intents,         \* the verdicts the requests may be for
  QuorumRequired,  \* VALIDATOR_QUORUM_REQUIRED
  FaultBound,      \* bound: requests that throw, or die with their process
  None

ASSUME VotersAssumption ==
  /\ IsFiniteSet(Validators)
  /\ VoterOf \in [Requests -> Validators]

ASSUME QuorumAssumption ==
  /\ QuorumRequired \in Nat \ {0}
  /\ FaultBound \in Nat

Verdicts == {"approved", "rejected"}
FinalStatuses == {"APPROVED", "REJECTED"}

ASSUME IntentsAssumption == Intents \subseteq [Requests -> Verdicts]

ASSUME NoneAssumption == None \notin Verdicts \cup FinalStatuses

Pcs == {"start", "cast", "resolve", "tally", "finalize", "escalate", "done"}
Ballots == [Validators -> Verdicts \cup {None}]

\* The QuorumOutcome a request answers with.
Answers == [finalized : BOOLEAN, status : FinalStatuses \cup {None}]
NoAnswer == [finalized |-> FALSE, status |-> None]

VARIABLES
  status,         \* proofs.status: "OPEN" is PENDING or VERIFYING
  votes,          \* validator_votes.verdict
  cast,           \* every vote that was ever stored, by whom and for what
  reviews,        \* users.review_count, of reviews of this proof
  reputation,     \* users.validator_reputation, from this proof
  quorumVerdict,  \* the verifications row a quorum writes
  splits,         \* the "no quorum reached" rows
  pc,             \* where each request is
  choice,         \* the verdict it casts, then the one it finalizes
  seen,           \* the votes it read
  answer,         \* its response
  faults

proofVars   == <<status, quorumVerdict, splits>>
userVars    == <<reviews, reputation>>
requestVars == <<pc, choice, seen, answer>>
ballotVars  == <<votes, cast>>
vars == <<proofVars, ballotVars, userVars, requestVars, faults>>

TypeOK ==
  /\ status \in {"OPEN"} \cup FinalStatuses
  /\ votes \in Ballots
  /\ cast \subseteq Validators \X Verdicts
  /\ reviews \in [Validators -> Nat]
  /\ reputation \in [Validators -> Int]
  /\ quorumVerdict \in Verdicts \cup {None}
  /\ splits \in Nat
  /\ pc \in [Requests -> Pcs]
  /\ choice \in [Requests -> Verdicts]
  /\ seen \in [Requests -> Ballots]
  /\ answer \in [Requests -> Answers]
  /\ faults \in Nat

NoVotes == [v \in Validators |-> None]

Init ==
  /\ status = "OPEN"
  /\ votes = NoVotes
  /\ cast = {}
  /\ reviews = [v \in Validators |-> 0]
  /\ reputation = [v \in Validators |-> 0]
  /\ quorumVerdict = None
  /\ splits = 0
  /\ pc = [r \in Requests |-> "start"]
  /\ choice \in Intents
  /\ seen = [r \in Requests |-> NoVotes]
  /\ answer = [r \in Requests |-> NoAnswer]
  /\ faults = 0

Open == status = "OPEN"

Submitted(ballot)    == {v \in Validators : ballot[v] # None}
InFavour(ballot, d)  == {v \in Validators : ballot[v] = d}

\* Mutant: one vote short of the quorum is enough.
HasQuorumOneShort(ballot, d) == Cardinality(InFavour(ballot, d)) + 1 >= QuorumRequired

\* Mutant: the quorum must be exceeded.
HasQuorumExceeded(ballot, d) == Cardinality(InFavour(ballot, d)) > QuorumRequired

HasQuorum(ballot, d) == Cardinality(InFavour(ballot, d)) >= QuorumRequired

-----------------------------------------------------------------------------
(* castVote.                                                               *)

\* The row has no verdict yet and the proof is open; else the request is refused.
StartCast(r) ==
  /\ pc[r] = "start"
  /\ votes[VoterOf[r]] = None
  /\ Open
  /\ pc' = [pc EXCEPT ![r] = "cast"]
  /\ UNCHANGED <<proofVars, ballotVars, userVars, choice, seen, answer, faults>>

\* The update is by the row's id alone.
CastVote(r) ==
  /\ pc[r] = "cast"
  /\ votes' = [votes EXCEPT ![VoterOf[r]] = choice[r]]
  /\ cast' = cast \cup {<<VoterOf[r], choice[r]>>}
  /\ pc' = [pc EXCEPT ![r] = "resolve"]
  /\ UNCHANGED <<proofVars, userVars, choice, seen, answer, faults>>

-----------------------------------------------------------------------------
(* resolveQuorum.                                                          *)

Respond(r, finalized, s) ==
  /\ pc' = [pc EXCEPT ![r] = "done"]
  /\ answer' = [answer EXCEPT ![r] = [finalized |-> finalized, status |-> s]]

\* The proof row, read by a statement of its own before the votes.
ReadStatus(r) ==
  /\ pc[r] = "resolve"
  /\ IF Open
       THEN pc' = [pc EXCEPT ![r] = "tally"] /\ UNCHANGED answer
       ELSE Respond(r, FALSE, status)
  /\ UNCHANGED <<proofVars, ballotVars, userVars, choice, seen, faults>>

\* When both verdicts have a quorum, the order of the rows decides.
Tally(r) ==
  /\ pc[r] = "tally"
  /\ seen' = [seen EXCEPT ![r] = votes]
  /\ \/ \E d \in Verdicts :
          /\ HasQuorum(votes, d)
          /\ choice' = [choice EXCEPT ![r] = d]
          /\ pc' = [pc EXCEPT ![r] = "finalize"]
          /\ UNCHANGED answer
     \/ /\ \A d \in Verdicts : ~HasQuorum(votes, d)
        /\ UNCHANGED choice
        /\ IF Submitted(votes) = Validators
             THEN pc' = [pc EXCEPT ![r] = "escalate"] /\ UNCHANGED answer
             ELSE Respond(r, FALSE, None)
  /\ UNCHANGED <<proofVars, ballotVars, userVars, faults>>

CountReviews(ballot) ==
  reviews' = [v \in Validators |->
                reviews[v] + IF v \in Submitted(ballot) THEN 1 ELSE 0]

\* Mutant: whoever did not vote for the verdict is taken to have dissented.
SettleReputationOfAll(ballot, d) ==
  reputation' = [v \in Validators |->
    reputation[v] + IF v \in InFavour(ballot, d) THEN 1 ELSE -1]

SettleReputation(ballot, d) ==
  reputation' = [v \in Validators |->
    reputation[v] + IF v \in InFavour(ballot, d) THEN 1
                    ELSE IF v \in Submitted(ballot) THEN -1 ELSE 0]

\* The status a quorum asks for; the task may have no slot left for an approval.
Requested(d) == IF d = "approved" THEN "APPROVED" ELSE "REJECTED"

Granted(d) == {Requested(d), "REJECTED"}

\* Mutant: the transaction does not look at the proof's status again.
FinalizeProofUnguarded(r) ==
  /\ pc[r] = "finalize"
  /\ \E s \in Granted(choice[r]) : status' = s /\ Respond(r, TRUE, s)
  /\ quorumVerdict' = choice[r]
  /\ CountReviews(seen[r])
  /\ SettleReputation(seen[r], choice[r])
  /\ UNCHANGED <<splits, ballotVars, choice, seen, faults>>

\* The transaction of finalizeProof: nothing happens to a proof that is decided
\* by now, but the request reports the status it asked for.
FinalizeProof(r) ==
  LET d == choice[r] IN
  /\ pc[r] = "finalize"
  /\ \/ /\ Open
        /\ \E s \in Granted(d) : status' = s /\ Respond(r, TRUE, s)
        /\ quorumVerdict' = d
        /\ CountReviews(seen[r])
        /\ SettleReputation(seen[r], d)
     \/ /\ ~Open
        /\ Respond(r, TRUE, Requested(d))
        /\ UNCHANGED <<status, quorumVerdict, userVars>>
  /\ UNCHANGED <<splits, ballotVars, choice, seen, faults>>

\* All have voted and no verdict has a quorum; the proof's status is not read.
EscalateSplitVote(r) ==
  /\ pc[r] = "escalate"
  /\ CountReviews(seen[r])
  /\ splits' = splits + 1
  /\ Respond(r, FALSE, None)
  /\ UNCHANGED <<status, quorumVerdict, ballotVars, reputation, choice, seen, faults>>

-----------------------------------------------------------------------------
(* The environment.                                                        *)

\* A statement throws and its transaction rolls back, or the process dies.
RequestFails(r) ==
  /\ pc[r] \notin {"start", "done"}
  /\ faults < FaultBound
  /\ faults' = faults + 1
  /\ pc' = [pc EXCEPT ![r] = "done"]
  /\ UNCHANGED <<proofVars, ballotVars, userVars, choice, seen, answer>>

\* An admin's review, or a late run of the verification worker.
DecideElsewhere ==
  /\ Open
  /\ status' \in FinalStatuses
  /\ UNCHANGED <<quorumVerdict, splits, ballotVars, userVars, requestVars, faults>>

RequestStep(r) ==
  \/ CastVote(r) \/ ReadStatus(r) \/ Tally(r) \/ FinalizeProof(r) \/ EscalateSplitVote(r)

Next ==
  \/ \E r \in Requests : StartCast(r) \/ RequestStep(r) \/ RequestFails(r)
  \/ DecideElsewhere

Spec == Init /\ [][Next]_vars

\* A request under way is carried through; nobody is obliged to vote.
Fairness == \A r \in Requests : WF_vars(RequestStep(r))

FairSpec == Spec /\ Fairness

-----------------------------------------------------------------------------
(* Properties.                                                             *)

\* "agreeing with the final quorum verdict earns +1 validatorReputation"
\* (README.md:414): a quorum's verdict has paid at least a quorum of
\* validators, however many requests of the same validators were in flight.
QuorumBacksVerdict ==
  quorumVerdict # None =>
    Cardinality({v \in Validators : reputation[v] = 1}) >= QuorumRequired

\* One quorum verdict is final for the validators: no second finalization
\* replaces it or moves their reputation again.
QuorumDecidesOnce ==
  [][quorumVerdict # None => UNCHANGED <<quorumVerdict, reputation>>]_vars

\* A validator gains reputation only when it cast a vote for the quorum's verdict
\* and loses it only when it cast one against it, whichever of its racing
\* requests stored the vote that the winning request had counted.
ReputationFollowsVotes ==
  \A v \in Validators :
    /\ reputation[v] > 0 => <<v, quorumVerdict>> \in cast
    /\ reputation[v] < 0 => \E d \in Verdicts \ {quorumVerdict} : <<v, d>> \in cast

\* review_count goes up once per verification row that the vote wrote, at most:
\* a quorum that two requests reach is counted once, and each escalation of a
\* split vote, of which there may be several, adds one.
ReviewsMatchRows ==
  \A v \in Validators :
    reviews[v] <= splits + (IF quorumVerdict = None THEN 0 ELSE 1)

\* The contract with the validators that all requests together keep: one verdict,
\* a quorum behind it, and reputation moved once, by that verdict.
Outcome == INSTANCE Ballot
  WITH Quorums <- {backers \in SUBSET Validators : Cardinality(backers) >= QuorumRequired},
       verdict <- quorumVerdict,
       credited <- {v \in Validators : reputation[v] > 0},
       debited <- {v \in Validators : reputation[v] < 0}

ImplementsBallot == Outcome!Spec

\* "first verdict to reach VALIDATOR_QUORUM_REQUIRED votes finalizes the proof"
\* (README.md:407): a quorum of votes that stands, no request of the same validator
\* having overwritten one of them, gets the proof decided, and a full vote gets it
\* decided or escalated, unless a request failed after storing its vote.
VotesResolve ==
  /\ []<>\/ ~Open \/ faults > 0
         \/ \A d \in Verdicts : Cardinality(InFavour(votes, d)) < QuorumRequired
  /\ Submitted(votes) = Validators ~> (~Open \/ splits > 0 \/ faults > 0)
=============================================================================
