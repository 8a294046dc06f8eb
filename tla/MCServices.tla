----------------------------- MODULE MCServices -----------------------------
(***************************************************************************)
(* An instance, for TLC, of five components that share no state: Sessions, *)
(* ProofSubmission, AutoVerify, RewardPayout and TaskPaging.  In each      *)
(* behaviour one of them works and the others rest in a fixed state, so    *)
(* the behaviours, and what is checked of them, are the components' own.   *)
(***************************************************************************)
EXTENDS AutoVerify, ProofSubmission, RewardPayout, Sessions, TaskPaging, TLC

CONSTANTS a, b, f1, f2, g1, c1, c2

\* Too old at 0 already, recent only at 0, within the skew, beyond it.
SomeCaptureTimes == {-9, -1, 1, 3}

\* The first submission has two photos, the second one of the same.
MCRequestOf == (f1 :> a) @@ (f2 :> a) @@ (g1 :> b)
SharedPhoto == (f1 :> c1) @@ (f2 :> c2) @@ (g1 :> c1)

\* Both submissions are of users of their own.
OwnUser == [r \in Submissions |-> r]

\* One payout row, of no other's age.
OneTime == [p \in Payouts |-> 0]

Symmetry == Permutations(Workers) \cup Permutations(Sweepers)

VARIABLE part  \* the component that works

serviceVars == <<verifyVars, submissionVars, vars, sessionsVars, pagingVars, part>>

VerifyRests ==
  /\ location = "missing" /\ upload = [p \in {} |-> None]
  /\ expiresAt = None /\ others = {} /\ now = 0 /\ verdict = None /\ moved = FALSE

SubmissionRests == claim = [u \in Users |-> "none"] /\ SubmissionInit

SessionsRest == user = FALSE /\ SessionsInit

PagingRests == row = [t \in Tasks |-> "none"] /\ PagingInit

ServicesInit ==
  /\ \/ part = "verify" /\ VerifyInit /\ SubmissionRests /\ SessionsRest /\ PagingRests
     \/ part = "submission" /\ VerifyRests /\ SubmissionInit /\ SessionsRest /\ PagingRests
     \/ part = "payout" /\ VerifyRests /\ SubmissionRests /\ SessionsRest /\ PagingRests
     \/ part = "sessions" /\ VerifyRests /\ SubmissionRests /\ SessionsInit /\ PagingRests
     \/ part = "paging" /\ VerifyRests /\ SubmissionRests /\ SessionsRest /\ PagingInit
  /\ Init

ServicesNext ==
  /\ \/ /\ part = "verify" /\ VerifyNext
        /\ UNCHANGED <<submissionVars, vars, sessionsVars, pagingVars>>
     \/ /\ part = "submission" /\ SubmissionNext
        /\ UNCHANGED <<verifyVars, vars, sessionsVars, pagingVars>>
     \/ /\ part = "payout" /\ Next
        /\ UNCHANGED <<verifyVars, submissionVars, sessionsVars, pagingVars>>
     \/ /\ part = "sessions" /\ SessionsNext
        /\ UNCHANGED <<verifyVars, submissionVars, vars, pagingVars>>
     \/ /\ part = "paging" /\ PagingNext
        /\ UNCHANGED <<verifyVars, submissionVars, vars, sessionsVars>>
  /\ UNCHANGED part

ServicesSpec == ServicesInit /\ [][ServicesNext]_serviceVars
=============================================================================
