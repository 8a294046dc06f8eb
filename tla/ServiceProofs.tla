---------------------------- MODULE ServiceProofs ----------------------------
(***************************************************************************)
(* Theorems about the three components that stand alone: AutoVerify, the   *)
(* verdict on one proof, TaskPaging, the listing of tasks, and Lifecycle,  *)
(* the end of the process.  They share no variable and no constant.        *)
(*                                                                         *)
(* Of AutoVerify, for every set of files, hashes and times and for every   *)
(* age and skew limit; the one fact about numbers is ScoreRule, which      *)
(* combinations of checks reach the thresholds.  A proof's photos never    *)
(* change; its place changes with the task, and what a verdict says of it  *)
(* holds until the task is moved.  Of TaskPaging, for any finite set of    *)
(* tasks, clock and page sizes.  Of Lifecycle, for any number of requests, *)
(* of calls of gracefulShutdown and of failed steps.                       *)
(***************************************************************************)
EXTENDS AutoVerify, TaskPaging, Lifecycle,
        SequenceTheorems, FiniteSetTheorems, WellFoundedInduction, TLAPS

-----------------------------------------------------------------------------
(* AutoVerify.                                                             *)

\* The verdict of the last run is explained by the photos, which never change, and
\* by the place, as long as the task has not been moved since.
VerdictExplained ==
  /\ verdict = "approved" => (moved \/ GpsLocation) /\ ServerProofSignal /\ ~CorruptPhotos
  /\ verdict = "rejected" => (moved \/ ~GpsLocation) /\ ~CorruptPhotos

VerdictInv == VerifyTypeOK /\ VerdictExplained

-----------------------------------------------------------------------------
\* The unique index makes the duplicate check pass always.
LEMMA NeverDuplicated == VerifyTypeOK => ~Duplicated
  BY DEF VerifyTypeOK, HashesUnique, Duplicated

\* Only a proof with photos has a sharp, a recent or a hashed one.
LEMMA PhotoFacts ==
  /\ PhotoQuality => PhotosPresent
  /\ PhotoRecency => PhotosPresent
  /\ ServerProofSignal => PhotosPresent
  /\ CorruptPhotos => PhotosPresent
  /\ ~PhotosPresent => NotForged
  BY DEF PhotoQuality, PhotoRecency, ServerProofSignal, CorruptPhotos, PhotosPresent,
     NotForged

\* Which outcomes of the checks reach the two thresholds.
LEMMA ScoreRule ==
  /\ Score >= 70 /\ PhotosPresent <=>
       GpsLocation /\ PhotosPresent /\ (PhotoQuality \/ PhotoRecency \/ NotForged \/ NotExpired)
  /\ Score < 40 <=>
       ~GpsLocation
         /\ (~PhotosPresent \/ (~NotExpired /\ ~(PhotoQuality /\ (PhotoRecency \/ NotForged))))
<1> DEFINE g == GpsLocation    pp == PhotosPresent  q == PhotoQuality
           r == PhotoRecency   f == NotForged       e == NotExpired
<1>1. Score = Weight(g, 40) + Weight(pp, 15) + Weight(q, 10)
                + Weight(r, 5) + Weight(f, 5) + 10 + Weight(e, 20)
  BY DEF Score
<1>2. (q => pp) /\ (r => pp) /\ (~pp => f)
  BY PhotoFacts
<1> HIDE DEF g, pp, q, r, f, e
<1>3. /\ Score >= 70 /\ pp <=> g /\ pp /\ (q \/ r \/ f \/ e)
      /\ Score < 40 <=> ~g /\ (~pp \/ (~e /\ ~(q /\ (r \/ f))))
  BY <1>1, <1>2 DEF Weight
<1> QED
  BY <1>3 DEF g, pp, q, r, f, e

\* A score is a number.
LEMMA ScoreIsInt == Score \in Int
  BY DEF Score, Weight

-----------------------------------------------------------------------------
\* In every well-typed state, the verdict a run gives is the rule's.
LEMMA JudgeRule == VerifyTypeOK => VerdictRule
<1> SUFFICES ASSUME VerifyTypeOK PROVE VerdictRule
  OBVIOUS
<1>1. ~Duplicated
  BY NeverDuplicated
<1>2. ~PhotosPresent <=> Photos = {}
  BY DEF PhotosPresent
<1>3. Judge = "approved" <=>
        ~CorruptPhotos /\ GpsLocation /\ ServerProofSignal
          /\ (PhotoQuality \/ PhotoRecency \/ NotForged \/ NotExpired)
  BY <1>1, PhotoFacts, ScoreRule DEF Judge
<1>4. Score >= 70 => ~(Score < 40)
  BY ScoreIsInt
<1>5. Score >= 40 <=> ~(Score < 40)
  BY ScoreIsInt
<1>6. Judge = "rejected" <=> ~CorruptPhotos /\ Score < 40
  BY <1>1, <1>4, <1>5 DEF Judge
<1> QED
  BY <1>1, <1>2, <1>3, <1>6, ScoreRule DEF VerdictRule

\* A run gives one of the three verdicts.
LEMMA JudgeIsVerdict == Judge \in Verdicts
  BY DEF Judge, Verdicts

-----------------------------------------------------------------------------
\* The inductive invariant holds initially ...
LEMMA VerdictInitially == VerifyInit => VerdictInv
<1> SUFFICES ASSUME VerifyInit PROVE VerdictInv
  OBVIOUS
<1>1. verdict = None /\ None \notin Verdicts
  BY TimeAssumption DEF VerifyInit
<1>2. VerifyTypeOK
  BY DEF VerifyInit, VerifyTypeOK
<1> QED
  BY <1>1, <1>2 DEF VerdictInv, VerdictExplained, Verdicts

\* What a verdict says of the photos depends on the files alone ...
LEMMA PhotoEvidenceStays ==
  ASSUME UNCHANGED upload
  PROVE  /\ ServerProofSignal' <=> ServerProofSignal
         /\ CorruptPhotos' <=> CorruptPhotos
  BY DEF ServerProofSignal, CorruptPhotos, photo, Photos, ExtractPhotoMetadata

\* ... and is kept by every step, with what it says of the place.
LEMMA VerdictStays == VerdictInv /\ [VerifyNext]_verifyVars => VerdictInv'
<1> SUFFICES ASSUME VerdictInv, [VerifyNext]_verifyVars PROVE VerdictInv'
  OBVIOUS
<1>1. UNCHANGED upload
  BY DEF VerifyNext, verifyVars, AutoVerify, TimePasses, OthersChange, MoveTask, MoveExpiry
<1>2. /\ ServerProofSignal' <=> ServerProofSignal
      /\ CorruptPhotos' <=> CorruptPhotos
  BY <1>1, PhotoEvidenceStays
<1>3. UNCHANGED others => HashesUnique'
  BY <1>1 DEF VerdictInv, VerifyTypeOK, HashesUnique, OwnHashes, Photos
<1>4. CASE AutoVerify
  <2>1. verdict' = Judge /\ UNCHANGED <<location, expiresAt, others, now>>
        /\ moved' = FALSE
    BY <1>4 DEF AutoVerify
  <2>2. VerifyTypeOK'
    BY <1>1, <1>3, <2>1, JudgeIsVerdict DEF VerdictInv, VerifyTypeOK
  <2>3. /\ Judge = "approved" => GpsLocation /\ ServerProofSignal /\ ~CorruptPhotos
        /\ Judge = "rejected" => ~GpsLocation /\ ~CorruptPhotos
    BY JudgeRule, NeverDuplicated DEF VerdictInv, VerdictRule
  <2>4. GpsLocation' <=> GpsLocation
    BY <2>1 DEF GpsLocation
  <2> QED
    BY <1>2, <2>1, <2>2, <2>3, <2>4 DEF VerdictInv, VerdictExplained
<1>5. CASE TimePasses
  <2>1. now' \in Times /\ UNCHANGED <<location, expiresAt, others, verdict, moved>>
    BY <1>5 DEF TimePasses
  <2> QED
    BY <1>1, <1>2, <1>3, <2>1
    DEF VerdictInv, VerifyTypeOK, VerdictExplained, GpsLocation
<1>6. CASE OthersChange
  <2>1. /\ others' \subseteq Hashes
        /\ others' \cap OwnHashes = {}
        /\ UNCHANGED <<location, expiresAt, now, verdict, moved>>
    BY <1>6 DEF OthersChange
  <2>2. VerifyTypeOK'
    BY <1>1, <2>1 DEF VerdictInv, VerifyTypeOK, HashesUnique, OwnHashes, Photos
  <2> QED
    BY <1>2, <2>1, <2>2 DEF VerdictInv, VerdictExplained, GpsLocation
<1>7. CASE MoveTask
  <2>1. /\ location' \in Locations
        /\ moved' = TRUE
        /\ UNCHANGED <<expiresAt, others, now, verdict>>
    BY <1>7 DEF MoveTask
  <2> QED
    BY <1>1, <1>2, <1>3, <2>1 DEF VerdictInv, VerifyTypeOK, VerdictExplained
<1>8. CASE MoveExpiry
  <2>1. expiresAt' \in ExpiryTimes /\ UNCHANGED <<location, others, now, verdict, moved>>
    BY <1>8 DEF MoveExpiry
  <2> QED
    BY <1>1, <1>2, <1>3, <2>1
    DEF VerdictInv, VerifyTypeOK, VerdictExplained, GpsLocation
<1>9. CASE UNCHANGED verifyVars
  BY <1>1, <1>2, <1>3, <1>9
  DEF VerdictInv, VerifyTypeOK, VerdictExplained, GpsLocation, verifyVars
<1> QED
  BY <1>4, <1>5, <1>6, <1>7, <1>8, <1>9 DEF VerifyNext

\* Hence it always holds.
LEMMA VerdictInvariant == VerifySpec => []VerdictInv
  BY VerdictInitially, VerdictStays, PTL DEF VerifySpec

-----------------------------------------------------------------------------
(* Every state has the values its variables should have, the uniqueness of *)
(* hashes within the proof and across proofs included.                     *)
THEOREM AutoVerifyTypeCorrect == VerifySpec => []VerifyTypeOK
<1>1. VerdictInv => VerifyTypeOK
  BY DEF VerdictInv
<1> QED
  BY <1>1, VerdictInvariant, PTL

\* autoVerify's weights and thresholds come to the rule, whatever photos,
\* capture times, limits and expiry.
THEOREM WeightsComeToRule == VerifySpec => []VerdictRule
<1>1. VerdictInv => VerdictRule
  BY JudgeRule DEF VerdictInv
<1> QED
  BY <1>1, VerdictInvariant, PTL

\* No automatic approval without photos and a hash from the bytes, nor, until the task
\* is moved, without a place in range.
THEOREM ApprovalsAreEvidenced == VerifySpec => []ApprovalIsEvidenced
<1>1. VerdictInv => ApprovalIsEvidenced
  <2> SUFFICES ASSUME VerdictInv, verdict = "approved"
               PROVE  /\ moved \/ location = "near"
                      /\ \E p \in Photos : upload[p].hash # None
                      /\ \A p \in Photos : upload[p].content \in {"small", "large"}
    BY DEF ApprovalIsEvidenced
  <2>1. (moved \/ GpsLocation) /\ ServerProofSignal /\ ~CorruptPhotos
    BY DEF VerdictInv, VerdictExplained
  <2> QED
    BY <2>1 DEF GpsLocation, ServerProofSignal, CorruptPhotos, photo, ExtractPhotoMetadata
<1> QED
  BY <1>1, VerdictInvariant, PTL

\* Running a proof's verification again reverses its verdict only where the task was
\* moved in between, however its expiry was edited meanwhile.
THEOREM VerdictsAreNotReversed == VerifySpec => NoReversal
<1> DEFINE Reversal ==
      \/ verdict = "approved" /\ verdict' = "rejected"
      \/ verdict = "rejected" /\ verdict' = "approved"
<1>1. VerdictInv /\ VerdictInv' /\ [VerifyNext]_verifyVars /\ Reversal => moved
  <2> SUFFICES ASSUME VerdictInv, VerdictInv', [VerifyNext]_verifyVars, Reversal, ~moved
               PROVE  FALSE
    BY DEF VerdictInv, VerifyTypeOK
  <2>1. AutoVerify
    BY DEF VerifyNext, verifyVars, TimePasses, OthersChange, MoveTask, MoveExpiry
  <2>2. moved' = FALSE /\ (GpsLocation' <=> GpsLocation)
    BY <2>1 DEF AutoVerify, GpsLocation
  <2> QED
    BY <2>2 DEF VerdictInv, VerdictExplained
<1>2. VerdictInv /\ VerdictInv' /\ [VerifyNext]_verifyVars =>
        [\/ verdict = "approved" /\ verdict' = "rejected"
         \/ verdict = "rejected" /\ verdict' = "approved"
         => moved]_verifyVars
  BY <1>1
<1> QED
  BY <1>2, VerdictInvariant, PTL DEF VerifySpec, NoReversal

-----------------------------------------------------------------------------
(* TaskPaging: the order of the listing.                                   *)

\* A finite set has an element with nothing before it, in any order.
LEMMA FiniteMinimum ==
  ASSUME NEW S, IsFiniteSet(S), S # {}, NEW R,
         \A x \in S : <<x, x>> \notin R,
         \A x, y, z \in S : <<x, y>> \in R /\ <<y, z>> \in R => <<x, z>> \in R
  PROVE  \E x \in S : \A y \in S : <<y, x>> \notin R
<1> DEFINE Pred(x) == {y \in S : <<y, x>> \in R}
           T == {Pred(x) : x \in S}
<1>1. T \subseteq FiniteSubsetsOf(S) /\ T # {}
  <2>1. ASSUME NEW x \in S PROVE Pred(x) \in FiniteSubsetsOf(S)
    <3>1. Pred(x) \in SUBSET S
      OBVIOUS
    <3> HIDE DEF Pred
    <3>2. IsFiniteSet(Pred(x))
      BY <3>1, FS_Subset
    <3>3. QED
      BY <3>1, <3>2 DEF FiniteSubsetsOf
  <2> HIDE DEF Pred
  <2>2. QED
    BY <2>1
<1>2. PICK P \in T : \A Q \in T : ~ (<<Q, P>> \in StrictSubsetOrdering(S))
  BY <1>1, FS_StrictSubsetOrderingWellFounded, WFMin
<1>3. PICK x \in S : P = Pred(x)
  BY <1>2
<1>4. ASSUME NEW y \in S, <<y, x>> \in R PROVE FALSE
  <2>1. Pred(y) \in T /\ Pred(y) \subseteq S /\ Pred(x) \subseteq S
    OBVIOUS
  <2>2. Pred(y) \subseteq Pred(x) /\ y \in Pred(x) /\ y \notin Pred(y)
    BY <1>4
  <2>3. Pred(y) \subseteq Pred(x) /\ Pred(y) # Pred(x)
    BY <2>2
  <2> HIDE DEF Pred, T
  <2>4. <<Pred(y), P>> \in StrictSubsetOrdering(S)
    BY <1>3, <2>1, <2>3 DEF StrictSubsetOrdering
  <2>5. QED
    BY <1>2, <2>1, <2>4
<1>5. QED
  BY <1>4

LEMMA BeforeOrders ==
  ASSUME PagingTypeOK
  PROVE  /\ \A t \in Tasks : ~Before(t, t)
         /\ \A t, u, v \in Tasks : Before(t, u) /\ Before(u, v) => Before(t, v)
         /\ \A t, u \in Tasks : t = u \/ Before(t, u) \/ Before(u, t)
<1>1. \A t \in Tasks : t \in Nat /\ at[t] \in Nat
  BY PagingAssumption DEF PagingTypeOK, Dates
<1>2. QED
  BY <1>1 DEF Before

\* Of some tasks there is a first one, and a last one.
LEMMA FirstOfAll ==
  ASSUME PagingTypeOK, NEW S \in SUBSET Tasks, S # {}
  PROVE  \E t \in S : \A u \in S : ~Before(u, t)
<1> DEFINE R == {p \in S \X S : Before(p[1], p[2])}
<1>1. \A x, y \in S : <<x, y>> \in R <=> Before(x, y)
  OBVIOUS
<1> HIDE DEF R
<1>2. IsFiniteSet(S)
  BY PagingAssumption, FS_Subset
<1>3. /\ \A x \in S : <<x, x>> \notin R
      /\ \A x, y, z \in S : <<x, y>> \in R /\ <<y, z>> \in R => <<x, z>> \in R
  BY <1>1, BeforeOrders
<1>4. \E x \in S : \A y \in S : <<y, x>> \notin R
  BY <1>2, <1>3, FiniteMinimum
<1>5. QED
  BY <1>1, <1>4

LEMMA LastOfAll ==
  ASSUME PagingTypeOK, NEW S \in SUBSET Tasks, S # {}
  PROVE  \E t \in S : \A u \in S \ {t} : Before(u, t)
<1> DEFINE R == {p \in S \X S : Before(p[2], p[1])}
<1>1. \A x, y \in S : <<x, y>> \in R <=> Before(y, x)
  OBVIOUS
<1> HIDE DEF R
<1>2. IsFiniteSet(S)
  BY PagingAssumption, FS_Subset
<1>3. /\ \A x \in S : <<x, x>> \notin R
      /\ \A x, y, z \in S : <<x, y>> \in R /\ <<y, z>> \in R => <<x, z>> \in R
  BY <1>1, BeforeOrders
<1>4. \E x \in S : \A y \in S : <<y, x>> \notin R
  BY <1>2, <1>3, FiniteMinimum
<1>5. QED
  BY <1>1, <1>4, BeforeOrders

\* The first rows of some are some of them, with those before each, ...
LEMMA TakeTakesFirst ==
  ASSUME PagingTypeOK, NEW S \in SUBSET Tasks, NEW n \in Nat
  PROVE  /\ Take(S, n) \subseteq S
         /\ \A t \in S, u \in Take(S, n) : Before(t, u) => t \in Take(S, n)
<1> DEFINE Pred(t) == {u \in S : Before(u, t)}
<1>1. IsFiniteSet(S)
  BY PagingAssumption, FS_Subset
<1>2. ASSUME NEW t \in S, NEW u \in S, Before(t, u), Cardinality(Pred(u)) < n
      PROVE  Cardinality(Pred(t)) < n
  <2>1. Pred(t) \in SUBSET Pred(u) /\ IsFiniteSet(Pred(u))
    BY <1>1, <1>2, BeforeOrders, FS_Subset
  <2> HIDE DEF Pred
  <2>2. IsFiniteSet(Pred(t)) /\ Cardinality(Pred(t)) <= Cardinality(Pred(u))
    BY <2>1, FS_Subset
  <2>3. Cardinality(Pred(t)) \in Nat /\ Cardinality(Pred(u)) \in Nat
    BY <2>1, <2>2, FS_CardinalityType
  <2>4. QED
    BY <1>2, <2>2, <2>3
<1>3. QED
  BY <1>2 DEF Take

\* ... all of them when they are fewer than asked for, ...
LEMMA TakeTakesAll ==
  ASSUME PagingTypeOK, NEW S \in SUBSET Tasks, NEW n \in Nat,
         Cardinality(Take(S, n)) < n
  PROVE  Take(S, n) = S
<1>1. SUFFICES ASSUME S \ Take(S, n) # {} PROVE FALSE
  BY DEF Take
<1>2. PICK t \in S \ Take(S, n) : \A u \in S \ Take(S, n) : ~Before(u, t)
  BY <1>1, FirstOfAll
<1> DEFINE P == {u \in S : Before(u, t)}
<1>3. P \in SUBSET Take(S, n)
  BY <1>2
<1>4. IsFiniteSet(Take(S, n))
  <2>1. Take(S, n) \in SUBSET Tasks
    BY DEF Take
  <2>2. QED
    BY <2>1, PagingAssumption, FS_Subset
<1>5. /\ IsFiniteSet(P) /\ Cardinality(P) <= Cardinality(Take(S, n))
      /\ Cardinality(P) \in Nat /\ Cardinality(Take(S, n)) \in Nat
  <2> HIDE DEF P
  <2>1. IsFiniteSet(P) /\ Cardinality(P) <= Cardinality(Take(S, n))
    BY <1>3, <1>4, FS_Subset
  <2>2. QED
    BY <1>4, <2>1, FS_CardinalityType
<1>6. Cardinality(P) < n
  <2> HIDE DEF P
  <2>1. QED
    BY <1>5
<1>7. t \in Take(S, n)
  BY <1>2, <1>6 DEF Take
<1>8. QED
  BY <1>2, <1>7

\* ... and at least one of those there are.
LEMMA TakeTakesSome ==
  ASSUME PagingTypeOK, NEW S \in SUBSET Tasks, S # {}, NEW n \in Nat \ {0}
  PROVE  Take(S, n) # {}
<1>1. PICK t \in S : \A u \in S : ~Before(u, t)
  BY FirstOfAll
<1>2. {u \in S : Before(u, t)} = {}
  BY <1>1
<1>3. Cardinality({u \in S : Before(u, t)}) < n
  BY <1>2, FS_EmptySet
<1>4. QED
  BY <1>3 DEF Take

-----------------------------------------------------------------------------
(* Pages.                                                                  *)

\* A page is the first part of what is listed beyond the cursor, and the next
\* cursor its last row, or it is all of it.
LEMMA PageRead ==
  ASSUME PagingTypeOK, NEW limit \in PageLimits, ReadPage(limit)
  PROVE  \E items \in SUBSET {t \in Listed : Beyond(cursor, t)} :
           /\ pages' = Append(pages, items)
           /\ \/ /\ items = {t \in Listed : Beyond(cursor, t)}
                 /\ listing' = "end" /\ cursor' = cursor
              \/ /\ listing' = "on"
                 /\ \E last \in items :
                      /\ cursor' = [at |-> at[last], id |-> last]
                      /\ \A u \in items : u = last \/ Before(u, last)
                      /\ \A t \in {t \in Listed : Beyond(cursor, t)} \ items : Before(last, t)
<1> DEFINE S == {t \in Listed : Beyond(cursor, t)}
           found == Take(S, limit + 1)
           more == Cardinality(found) > limit
           items == IF more THEN Take(found, limit) ELSE found
           last == CHOOSE t \in items : \A u \in items \ {t} : Before(u, t)
<1>1. /\ pages' = Append(pages, items)
      /\ IF more
         THEN cursor' = [at |-> at[last], id |-> last] /\ listing' = listing
         ELSE listing' = "end" /\ cursor' = cursor
      /\ listing = "on"
  BY DEF ReadPage
<1>2. limit \in Nat \ {0} /\ limit + 1 \in Nat \ {0}
  BY PagingAssumption
<1>3. S \in SUBSET Tasks
  BY DEF Listed, PagingTypeOK
<1> HIDE DEF S
<1>4. /\ found \in SUBSET S
      /\ \A t \in S, u \in found : Before(t, u) => t \in found
  BY <1>2, <1>3, TakeTakesFirst
<1>5. Cardinality(found) \in Nat
  <2>1. found \in SUBSET Tasks
    BY <1>3, <1>4
  <2> HIDE DEF found
  <2>2. QED
    BY <2>1, PagingAssumption, FS_Subset, FS_CardinalityType
<1>6. CASE ~more
  <2>1. found = S
    <3>1. Cardinality(found) < limit + 1
      BY <1>2, <1>5, <1>6
    <3>2. QED
      BY <1>2, <1>3, <3>1, TakeTakesAll
  <2>2. pages' = Append(pages, S) /\ listing' = "end" /\ cursor' = cursor
    BY <1>1, <1>6, <2>1
  <2>3. QED
    BY <2>2 DEF S
<1>7. CASE more
  <2>1. found # {}
    <3>1. Cardinality(found) # 0
      BY <1>2, <1>5, <1>7
    <3>2. QED
      BY <3>1, FS_EmptySet
  <2>2. found \in SUBSET Tasks
    BY <1>3, <1>4
  <2> HIDE DEF found
  <2>3. /\ items = Take(found, limit)
        /\ pages' = Append(pages, items) /\ listing' = "on"
        /\ cursor' = [at |-> at[last], id |-> last]
    BY <1>1, <1>7
  <2> HIDE DEF more
  <2>4. /\ items \in SUBSET found /\ items # {}
        /\ \A t \in found, u \in items : Before(t, u) => t \in items
    BY <1>2, <2>1, <2>2, <2>3, TakeTakesFirst, TakeTakesSome
  <2> HIDE DEF items
  <2>5. items \in SUBSET Tasks
    BY <2>2, <2>4
  <2>6. last \in items /\ \A u \in items \ {last} : Before(u, last)
    BY <2>4, <2>5, LastOfAll
  <2> HIDE DEF last
  <2>7. ASSUME NEW t \in S \ items PROVE Before(last, t)
    <3>1. t \in Tasks /\ last \in Tasks /\ last \in S /\ last \in found
      BY <1>3, <1>4, <2>4, <2>5, <2>6
    <3>2. ~Before(t, last)
      BY <1>4, <2>4, <2>6, <3>1
    <3>3. t # last
      BY <2>6
    <3>4. QED
      BY <3>1, <3>2, <3>3, BeforeOrders
  <2>8. items \in SUBSET S
    BY <1>4, <2>4
  <2>9. QED
    BY <2>3, <2>6, <2>7, <2>8 DEF S
<1>8. QED
  BY <1>6, <1>7

-----------------------------------------------------------------------------
(* Type correctness.                                                       *)

LEMMA PagingInitType == PagingInit => PagingTypeOK
<1> SUFFICES ASSUME PagingInit PROVE PagingTypeOK
  OBVIOUS
<1>1. 1 \in Dates
  BY PagingAssumption DEF Dates
<1>2. Start \in Cursors
  BY PagingAssumption DEF Start, Cursors
<1>3. pages \in Seq(SUBSET Tasks)
  BY EmptySeq DEF PagingInit
<1>4. QED
  BY <1>1, <1>2, <1>3 DEF PagingInit, PagingTypeOK

LEMMA PagingStepType ==
  ASSUME PagingTypeOK, [PagingNext]_pagingVars
  PROVE  PagingTypeOK'
<1> USE DEF taskVars, listingVars
<1>1. CASE Tick
  BY <1>1, PagingAssumption DEF Tick, PagingTypeOK, Dates
<1>2. ASSUME NEW t \in Tasks,
             CreateTask(t) \/ CreateCommits(t) \/ UpdateTask(t) \/ DeleteTask(t)
      PROVE  PagingTypeOK'
  BY <1>2 DEF CreateTask, CreateCommits, UpdateTask, DeleteTask, PagingTypeOK
<1>3. CASE BeginListing
  <2>1. first' \in Cursors /\ cursor' \in Cursors
    BY <1>3, PagingAssumption DEF BeginListing, Cursors, Dates
  <2>2. steady' \subseteq Tasks
    BY <1>3 DEF BeginListing, Listed, PagingTypeOK
  <2>3. QED
    BY <1>3, <2>1, <2>2 DEF BeginListing, PagingTypeOK
<1>4. ASSUME NEW limit \in PageLimits, ReadPage(limit)
      PROVE  PagingTypeOK'
  <2>1. PICK items \in SUBSET {t \in Listed : Beyond(cursor, t)} :
          /\ pages' = Append(pages, items)
          /\ \/ listing' = "end" /\ cursor' = cursor
             \/ listing' = "on" /\ \E last \in items : cursor' = [at |-> at[last], id |-> last]
    BY <1>4, PageRead
  <2>2. items \in SUBSET Tasks
    BY DEF Listed, PagingTypeOK
  <2>3. pages' \in Seq(SUBSET Tasks)
    BY <2>1, <2>2, AppendProperties DEF PagingTypeOK
  <2>4. listing' \in {"off", "on", "end"} /\ cursor' \in Cursors
    BY <2>1, <2>2, PagingAssumption DEF PagingTypeOK, Cursors, Dates
  <2>5. QED
    BY <1>4, <2>3, <2>4 DEF ReadPage, PagingTypeOK
<1>5. CASE UNCHANGED pagingVars
  BY <1>5 DEF pagingVars, PagingTypeOK
<1>6. QED
  BY <1>1, <1>2, <1>3, <1>4, <1>5 DEF PagingNext

\* The listing and its writers stay well typed.
THEOREM PagingTypeCorrect == PagingSpec => []PagingTypeOK
  BY PagingInitType, PagingStepType, PTL DEF PagingSpec

-----------------------------------------------------------------------------
(* What was returned, and what is to come.                                 *)

\* Rows that were seen once: they keep their date.
Seen(t) == row[t] \in {"live", "deleted"}

\* The cursor is the last row of the pages so far.
CursorIsLast ==
  listing = "on" /\ pages # <<>> =>
    /\ cursor.id \in Tasks /\ Seen(cursor.id) /\ cursor.at = at[cursor.id]
    /\ \A i \in 1 .. Len(pages) : \A t \in pages[i] : t = cursor.id \/ Before(t, cursor.id)

PagesInv ==
  /\ listing = "off" => pages = <<>> /\ steady = {}
  /\ steady \subseteq Listed
  /\ \A i \in 1 .. Len(pages) : \A t \in pages[i] : Seen(t)
  /\ CursorIsLast
  /\ PagesDescend
  /\ NothingSkipped

LEMMA PagesInitially == PagingInit => PagesInv
<1>1. Len(<<>>) = 0 /\ DOMAIN <<>> = {}
  BY EmptySeq
<1>2. QED
  BY <1>1 DEF PagingInit, PagesInv, CursorIsLast, PagesDescend, NothingSkipped

\* Writers, and the clock.
LEMMA WritersKeep ==
  ASSUME PagingTypeOK, PagesInv, UNCHANGED listingVars,
         \/ Tick
         \/ \E t \in Tasks : CreateTask(t) \/ CreateCommits(t) \/ UpdateTask(t) \/ DeleteTask(t)
  PROVE  PagesInv'
<1>1. \A t \in Tasks : Seen(t) => Seen(t)' /\ at'[t] = at[t]
  BY DEF Seen, Tick, CreateTask, CreateCommits, UpdateTask, DeleteTask, PagingTypeOK
<1>2. steady' \subseteq steady /\ steady' \subseteq Listed'
  BY DEF PagesInv, Listed, Tick, CreateTask, CreateCommits, UpdateTask, DeleteTask,
     PagingTypeOK
<1>3. \A i \in 1 .. Len(pages) : \A t \in pages[i] : t \in Tasks /\ Seen(t)
  BY DEF PagesInv, PagingTypeOK
<1>4. \A t, u \in Tasks : Seen(t) /\ Seen(u) => (Before(t, u)' <=> Before(t, u))
  BY <1>1 DEF Before
<1>5. \A t \in Tasks : Seen(t) => (Beyond(cursor, t)' <=> Beyond(cursor, t))
                               /\ (Beyond(first, t)' <=> Beyond(first, t))
  BY <1>1 DEF Beyond, listingVars
<1>6. CursorIsLast'
  BY <1>1, <1>3, <1>4 DEF PagesInv, CursorIsLast, listingVars
<1>7. PagesDescend'
  <2>1. DOMAIN pages = 1 .. Len(pages)
    BY LenProperties DEF PagingTypeOK
  <2>2. QED
    BY <1>3, <1>4, <2>1 DEF PagesInv, PagesDescend, listingVars
<1>8. NothingSkipped'
  <2>1. \A t \in steady' : t \in Tasks /\ Seen(t)
    BY <1>2 DEF PagesInv, Listed, PagingTypeOK, Seen
  <2>2. QED
    BY <1>2, <1>5, <2>1 DEF PagesInv, NothingSkipped, listingVars
<1>9. QED
  BY <1>1, <1>2, <1>3, <1>6, <1>7, <1>8 DEF PagesInv, listingVars

LEMMA BeginKeeps ==
  ASSUME PagingTypeOK, PagesInv, BeginListing
  PROVE  PagesInv'
<1>1. /\ pages = <<>> /\ pages' = <<>> /\ listing' = "on" /\ steady' = Listed
      /\ cursor' = first' /\ UNCHANGED taskVars
  BY DEF BeginListing, PagesInv
<1>2. Len(<<>>) = 0 /\ DOMAIN <<>> = {}
  BY EmptySeq
<1>3. Listed' = Listed
  BY <1>1 DEF Listed, taskVars
<1>4. QED
  BY <1>1, <1>2, <1>3 DEF PagesInv, CursorIsLast, PagesDescend, NothingSkipped, Beyond

LEMMA ReadKeeps ==
  ASSUME PagingTypeOK, PagesInv, NEW limit \in PageLimits, ReadPage(limit)
  PROVE  PagesInv'
<1> DEFINE S == {t \in Listed : Beyond(cursor, t)}
<1>1. PICK items \in SUBSET S :
        /\ pages' = Append(pages, items)
        /\ \/ items = S /\ listing' = "end" /\ cursor' = cursor
           \/ /\ listing' = "on"
              /\ \E last \in items :
                   /\ cursor' = [at |-> at[last], id |-> last]
                   /\ \A u \in items : u = last \/ Before(u, last)
                   /\ \A t \in S \ items : Before(last, t)
  BY PageRead
<1>2. listing = "on" /\ UNCHANGED <<taskVars, first, steady>>
  BY DEF ReadPage
<1>3. S \subseteq Tasks /\ \A t \in S : Seen(t) /\ Beyond(cursor, t) /\ t \in Listed
  BY DEF Listed, Seen, PagingTypeOK
<1>4. \A t \in steady : Beyond(cursor, t) => t \in S
  BY DEF PagesInv
<1> HIDE DEF S
<1> DEFINE n == Len(pages)
<1>5. /\ n \in Nat /\ DOMAIN pages = 1 .. n /\ DOMAIN pages' = 1 .. n + 1
      /\ Len(pages') = n + 1
      /\ \A i \in 1 .. n : pages'[i] = pages[i] /\ pages[i] \subseteq Tasks
      /\ pages'[n + 1] = items
  <2>1. pages \in Seq(SUBSET Tasks) /\ items \in SUBSET Tasks
    BY <1>3 DEF PagingTypeOK
  <2>2. QED
    BY <1>1, <2>1, LenProperties, AppendProperties
<1>6. \A t, u : (Before(t, u)' <=> Before(t, u)) /\ (Seen(t)' <=> Seen(t))
  BY <1>2 DEF Before, Seen, taskVars
<1>7. \A i \in 1 .. n : \A t \in pages[i], u \in S : Before(t, u)
  <2>1. ASSUME NEW i \in 1 .. n, NEW t \in pages[i], NEW u \in S PROVE Before(t, u)
    <3>1. pages # <<>>
      BY <1>5, EmptySeq
    <3>2. /\ cursor.id \in Tasks /\ cursor.at = at[cursor.id]
          /\ t = cursor.id \/ Before(t, cursor.id)
      BY <1>2, <3>1 DEF PagesInv, CursorIsLast
    <3>3. Before(cursor.id, u)
      BY <1>3, <3>2 DEF Beyond, Before
    <3>4. t \in Tasks /\ u \in Tasks
      BY <1>3, <1>5
    <3>5. QED
      BY <3>2, <3>3, <3>4, BeforeOrders
  <2>2. QED
    BY <2>1
<1> HIDE DEF n
<1>8. \A i \in 1 .. n + 1 : \A t \in pages'[i] : Seen(t)'
  <2>1. \A i \in 1 .. n : \A t \in pages[i] : Seen(t)
    BY DEF n, PagesInv
  <2>2. QED
    BY <1>1, <1>3, <1>5, <1>6, <2>1
<1>9. PagesDescend'
  <2>1. ASSUME NEW i \in 1 .. n + 1, NEW j \in 1 .. n + 1, i < j,
               NEW t \in pages'[i], NEW u \in pages'[j]
        PROVE  Before(t, u)
    <3>1. i \in 1 .. n /\ t \in pages[i]
      BY <1>5, <2>1
    <3>2. CASE j = n + 1
      BY <1>5, <1>7, <3>1, <3>2
    <3>3. CASE j \in 1 .. n
      BY <1>5, <2>1, <3>1, <3>3 DEF PagesInv, PagesDescend
    <3>4. QED
      BY <1>5, <3>2, <3>3
  <2>2. QED
    BY <1>5, <1>6, <2>1 DEF PagesDescend
<1>10. NothingSkipped'
  <2>1. ASSUME NEW t \in steady, Beyond(first, t)
        PROVE  \/ \E i \in 1 .. n + 1 : t \in pages'[i]
               \/ listing' = "on" /\ Beyond(cursor', t)
    <3>1. CASE \E i \in 1 .. n : t \in pages[i]
      BY <1>5, <3>1
    <3>2. CASE t \in items
      BY <1>5, <3>2
    <3>3. CASE t \in S \ items
      <4>1. PICK last \in items :
              listing' = "on" /\ cursor' = [at |-> at[last], id |-> last] /\ Before(last, t)
        BY <1>1, <3>3
      <4>2. last # NoId
        BY <1>3, PagingAssumption
      <4>3. t \in Nat /\ last \in Nat /\ at[t] \in Nat /\ at[last] \in Nat
        BY <1>3, <3>3, PagingAssumption DEF PagingTypeOK, Dates
      <4>4. Beyond(cursor', t)
        BY <4>1, <4>2, <4>3 DEF Beyond, Before
      <4>5. QED
        BY <4>1, <4>4
    <3>4. t \in S \/ \E i \in 1 .. n : t \in pages[i]
      BY <1>4, <1>5, <2>1 DEF PagesInv, NothingSkipped
    <3>5. QED
      BY <3>1, <3>2, <3>3, <3>4
  <2>2. \A c, t : Beyond(c, t)' <=> at[t] < c'.at \/ (c'.id # NoId /\ at[t] = c'.at /\ t < c'.id)
    BY <1>2 DEF Beyond, taskVars
  <2>3. QED
    BY <1>2, <1>5, <2>1 DEF NothingSkipped, Beyond, taskVars
<1>11. CursorIsLast'
  <2>1. SUFFICES ASSUME listing' = "on" PROVE CursorIsLast'
    BY DEF CursorIsLast
  <2>2. PICK last \in items :
          /\ cursor' = [at |-> at[last], id |-> last]
          /\ \A u \in items : u = last \/ Before(u, last)
    BY <1>1, <2>1
  <2>3. last \in Tasks /\ Seen(last) /\ last \in S
    BY <1>3
  <2>4. \A i \in 1 .. n + 1 : \A t \in pages'[i] : t = last \/ Before(t, last)
    BY <1>5, <1>7, <2>2, <2>3
  <2>5. cursor'.id = last /\ cursor'.at = at'[last]
    BY <1>2, <2>2 DEF taskVars
  <2>6. QED
    BY <1>5, <1>6, <2>3, <2>4, <2>5 DEF CursorIsLast
<1>12. steady' \subseteq Listed' /\ listing' # "off"
  BY <1>1, <1>2 DEF PagesInv, Listed, taskVars
<1>13. QED
  BY <1>5, <1>8, <1>9, <1>10, <1>11, <1>12 DEF PagesInv

LEMMA PagesStay ==
  ASSUME PagingTypeOK, PagesInv, [PagingNext]_pagingVars
  PROVE  PagesInv'
<1>1. CASE \/ Tick
           \/ \E t \in Tasks : CreateTask(t) \/ CreateCommits(t) \/ UpdateTask(t) \/ DeleteTask(t)
  <2>1. UNCHANGED listingVars
    BY <1>1 DEF Tick, CreateTask, CreateCommits, UpdateTask, DeleteTask
  <2>2. QED
    BY <1>1, <2>1, WritersKeep
<1>2. CASE UNCHANGED pagingVars
  BY <1>2 DEF pagingVars, taskVars, listingVars, PagesInv, CursorIsLast, PagesDescend,
     NothingSkipped, Listed, Seen, Before, Beyond
<1>3. QED
  BY <1>1, <1>2, BeginKeeps, ReadKeeps DEF PagingNext

LEMMA PagesInvariant == PagingSpec => []PagesInv
  BY PagesInitially, PagesStay, PagingTypeCorrect, PTL DEF PagingSpec

\* PagesDescend: no later page has a task that comes before one of an earlier
\* page, or is one of its tasks.
THEOREM PagesKeepOrder == PagingSpec => []PagesDescend
<1>1. PagesInv => PagesDescend
  BY DEF PagesInv
<1>2. QED
  BY <1>1, PagesInvariant, PTL

\* NothingSkipped: a task that was listed at the first page and matched ever
\* since is on a page, or beyond the cursor of one that is still to be read.
THEOREM PagesAreComplete == PagingSpec => []NothingSkipped
<1>1. PagesInv => NothingSkipped
  BY DEF PagesInv
<1>2. QED
  BY <1>1, PagesInvariant, PTL

-----------------------------------------------------------------------------
(* Lifecycle: the steps of the shutdown.                                   *)

Waits == {"none", "worker", "queue", "await"}

\* One step of the shutdown after the other.
LEMMA AfterIs ==
  /\ DOMAIN After = {"server", "verification", "reward", "notification", "admin",
                     "redis", "timers"}
  /\ After["server"] = "verification" /\ After["verification"] = "reward"
  /\ After["reward"] = "notification" /\ After["notification"] = "admin"
  /\ After["admin"] = "redis" /\ After["redis"] = "timers" /\ After["timers"] = "prisma"
  BY DEF After

LEMMA StepsAre ==
  Steps = {"off", "server", "verification", "reward", "notification", "admin",
           "redis", "timers", "prisma"}
  BY AfterIs DEF Steps

\* The steps behind the one that closes the worker of k.
Past(k) ==
  {"admin", "redis", "timers", "prisma"}
    \cup (IF k = "notification" THEN {} ELSE {"notification"})
    \cup (IF k = "verification" THEN {"reward"} ELSE {})

Late == {"redis", "timers", "prisma"}

LEMMA AfterMoves ==
  ASSUME NEW s \in DOMAIN After
  PROVE  /\ After[s] \in Steps \ {"off", "server"}
         /\ \A k \in Kinds : After[s] \in Past(k) => s = k \/ s \in Past(k)
         /\ s \in Late => After[s] \in Late
         /\ After[s] \in Late => s = "admin" \/ s \in Late
  BY AfterIs, StepsAre DEF Past, Late, Kinds

\* A call of gracefulShutdown goes to another step of it.
LEMMA GotoType ==
  ASSUME LifecycleTypeOK, NEW c \in Callers, NEW st \in Steps, NEW w \in Waits,
         CallGoto(c, st, w)
  PROVE  /\ call' \in [Callers -> [step : Steps, wait : Waits]]
         /\ call'[c] = [step |-> st, wait |-> w]
         /\ \A b \in Callers : b # c => call'[b] = call[b]
  BY DEF CallGoto, LifecycleTypeOK, Waits

LEMMA MoveOnType ==
  ASSUME LifecycleTypeOK, NEW c \in Callers, call[c].step \in DOMAIN After, MoveOn(c)
  PROVE  /\ call' \in [Callers -> [step : Steps, wait : Waits]]
         /\ call'[c] = [step |-> After[call[c].step], wait |-> "none"]
         /\ \A b \in Callers : b # c => call'[b] = call[b]
  BY AfterMoves, GotoType DEF MoveOn, Waits

-----------------------------------------------------------------------------
(* Type correctness.                                                       *)

LEMMA LifecycleInitType == LifecycleInit => LifecycleTypeOK
<1> SUFFICES ASSUME LifecycleInit PROVE LifecycleTypeOK
  OBVIOUS
<1>1. call \in [Callers -> [step : Steps, wait : Waits]]
  BY StepsAre DEF LifecycleInit, Waits
<1>2. queueOn \in [Kinds -> 0 .. clients] /\ worker \in [Kinds -> {"open", "closing", "null"}]
  BY DEF LifecycleInit
<1>3. QED
  BY <1>1, <1>2, LifecycleAssumption DEF LifecycleInit, LifecycleTypeOK, Waits

LEMMA GetClientType ==
  ASSUME LifecycleTypeOK, GetClient
  PROVE  /\ clients' \in Nat /\ clients' >= clients
         /\ client' \in 1 .. clients'
         /\ quitted' \subseteq 1 .. clients'
         /\ queueOn \in [Kinds -> 0 .. clients']
  BY DEF LifecycleTypeOK, GetClient

LEMMA LifecycleStepType ==
  ASSUME LifecycleTypeOK, [LifecycleNext]_lifecycleVars
  PROVE  LifecycleTypeOK'
<1> USE DEF requestVars, workerVars, redisVars
<1>1. ASSUME NEW r \in Requests,
             Arrive(r) \/ HandlerUsesRedis(r) \/ Respond(r) \/ ClientLeaves(r)
      PROVE  LifecycleTypeOK'
  <2>1. CASE Arrive(r)
    BY <2>1, GetClientType DEF Arrive, LifecycleTypeOK
  <2>2. CASE HandlerUsesRedis(r)
    BY <2>2, GetClientType DEF HandlerUsesRedis, LifecycleTypeOK
  <2>3. CASE Respond(r)
    BY <2>3 DEF Respond, LifecycleTypeOK
  <2>4. CASE ClientLeaves(r)
    BY <2>4 DEF ClientLeaves, LifecycleTypeOK
  <2>5. QED
    BY <1>1, <2>1, <2>2, <2>3, <2>4
<1>2. ASSUME NEW k \in Kinds, JobStarts(k) \/ JobEnds(k) \/ SweepEnqueues(k)
      PROVE  LifecycleTypeOK'
  <2>1. CASE JobStarts(k) \/ JobEnds(k)
    BY <1>2, <2>1 DEF JobStarts, JobEnds, LifecycleTypeOK
  <2>2. CASE SweepEnqueues(k)
    <3>1. queueOn' \in [Kinds -> 0 .. clients']
      BY <2>2, GetClientType DEF SweepEnqueues
    <3>2. QED
      BY <2>2, <3>1, GetClientType DEF SweepEnqueues, LifecycleTypeOK
  <2>3. QED
    BY <1>2, <2>1, <2>2
<1>3. ASSUME NEW c \in Callers, NEW k \in Kinds,
             CloseWorker(c, k) \/ WorkerClosed(c, k) \/ WorkerGone(c, k) \/ QueueClosed(c, k)
      PROVE  LifecycleTypeOK'
  <2>1. call[c].step = k /\ k \in DOMAIN After /\ k \in Steps
    BY <1>3, AfterIs DEF CloseWorker, WorkerClosed, WorkerGone, QueueClosed, At, Kinds, Steps
  <2>2. call' \in [Callers -> [step : Steps, wait : Waits]]
    BY <1>3, <2>1, GotoType, MoveOnType
    DEF CloseWorker, WorkerClosed, WorkerGone, QueueClosed, ThenQueue, Waits
  <2>3. worker' \in [Kinds -> {"open", "closing", "null"}]
    BY <1>3 DEF CloseWorker, WorkerClosed, WorkerGone, QueueClosed, LifecycleTypeOK
  <2>4. queueOn' \in [Kinds -> 0 .. clients]
    BY <1>3 DEF CloseWorker, WorkerClosed, WorkerGone, QueueClosed, LifecycleTypeOK
  <2>5. UNCHANGED <<requestVars, busy, redisVars, exit, stepFaults>>
    BY <1>3 DEF CloseWorker, WorkerClosed, WorkerGone, QueueClosed
  <2>6. QED
    BY <2>2, <2>3, <2>4, <2>5 DEF LifecycleTypeOK, Waits
<1>4. ASSUME NEW c \in Callers,
             \/ Begin(c) \/ ServerClosed(c) \/ PlainStep(c) \/ CloseRedis(c) \/ QuitEnds(c)
             \/ StepThrows(c) \/ ExitProcess(c) \/ ForceExit(c)
      PROVE  LifecycleTypeOK'
  <2>1. CASE Begin(c)
    <3>1. call' \in [Callers -> [step : Steps, wait : Waits]]
      BY <2>1, StepsAre, GotoType DEF Begin, Waits
    <3>2. QED
      BY <2>1, <3>1 DEF Begin, LifecycleTypeOK, Waits
  <2>2. CASE ServerClosed(c) \/ PlainStep(c) \/ QuitEnds(c)
    <3>1. call[c].step \in DOMAIN After
      BY <2>2, AfterIs DEF ServerClosed, PlainStep, QuitEnds, At
    <3>2. call' \in [Callers -> [step : Steps, wait : Waits]]
      BY <2>2, <3>1, MoveOnType DEF ServerClosed, PlainStep, QuitEnds
    <3>3. QED
      BY <2>2, <3>2 DEF ServerClosed, PlainStep, QuitEnds, LifecycleTypeOK, Waits
  <2>3. CASE CloseRedis(c)
    <3>1. call[c].step \in DOMAIN After /\ "redis" \in Steps
      BY <2>3, AfterIs, StepsAre DEF CloseRedis, At
    <3>2. call' \in [Callers -> [step : Steps, wait : Waits]]
      BY <2>3, <3>1, MoveOnType, GotoType DEF CloseRedis, Waits
    <3>3. client' \in 0 .. clients' /\ quitted' \subseteq 1 .. clients' /\ clients' = clients
      <4>1. CASE client = 0
        BY <2>3, <4>1 DEF CloseRedis, LifecycleTypeOK
      <4>2. CASE client # 0
        <5>1. client' = 0 /\ quitted' = quitted \cup {client} /\ clients' = clients
          BY <2>3, <4>2 DEF CloseRedis
        <5>2. client \in 1 .. clients
          BY <4>2 DEF LifecycleTypeOK
        <5>3. QED
          BY <5>1, <5>2 DEF LifecycleTypeOK
      <4>3. QED
        BY <4>1, <4>2
    <3>4. QED
      BY <2>3, <3>2, <3>3 DEF CloseRedis, LifecycleTypeOK, Waits
  <2>4. CASE StepThrows(c)
    <3>1. call[c].step \in DOMAIN After
      BY <2>4, AfterIs DEF StepThrows, At, Kinds
    <3>2. call' \in [Callers -> [step : Steps, wait : Waits]]
      BY <2>4, <3>1, MoveOnType DEF StepThrows
    <3>3. stepFaults' \in 0 .. StepFaults
      BY <2>4, LifecycleAssumption DEF StepThrows, LifecycleTypeOK
    <3>4. QED
      BY <2>4, <3>2, <3>3 DEF StepThrows, LifecycleTypeOK, Waits
  <2>5. CASE ExitProcess(c) \/ ForceExit(c)
    BY <2>5 DEF ExitProcess, ForceExit, LifecycleTypeOK
  <2>6. QED
    BY <1>4, <2>1, <2>2, <2>3, <2>4, <2>5
<1>5. CASE UNCHANGED lifecycleVars
  BY <1>5 DEF lifecycleVars, LifecycleTypeOK
<1>6. QED
  BY <1>1, <1>2, <1>3, <1>4, <1>5 DEF LifecycleNext

\* The shutdown and what goes on meanwhile stay well typed.
THEOREM LifecycleTypeCorrect == LifecycleSpec => []LifecycleTypeOK
  BY LifecycleInitType, LifecycleStepType, PTL DEF LifecycleSpec

-----------------------------------------------------------------------------
(* The client of the manager.                                              *)

\* ClientIsLive: a client is dropped by the manager in the step that tells it
\* to quit, and a new one is none of those before.
THEOREM ManagerForgetsQuitters == LifecycleSpec => []ClientIsLive
<1>1. LifecycleInit => ClientIsLive
  BY DEF LifecycleInit, ClientIsLive
<1>2. LifecycleTypeOK /\ ClientIsLive /\ [LifecycleNext]_lifecycleVars => ClientIsLive'
  <2> SUFFICES ASSUME LifecycleTypeOK, ClientIsLive, [LifecycleNext]_lifecycleVars
               PROVE  ClientIsLive'
    OBVIOUS
  <2>1. CASE UNCHANGED redisVars
    BY <2>1 DEF redisVars, ClientIsLive
  <2>2. CASE GetClient
    BY <2>2 DEF GetClient, ClientIsLive, LifecycleTypeOK
  <2>3. ASSUME NEW c \in Callers, CloseRedis(c)
        PROVE  ClientIsLive'
    BY <2>3 DEF CloseRedis, redisVars, ClientIsLive, LifecycleTypeOK
  <2>4. QED
    BY <2>1, <2>2, <2>3
    DEF LifecycleNext, Arrive, HandlerUsesRedis, Respond, ClientLeaves, JobStarts, JobEnds,
        SweepEnqueues, CloseWorker, WorkerClosed, WorkerGone, QueueClosed, Begin,
        ServerClosed,
        PlainStep, QuitEnds, StepThrows, ExitProcess, ForceExit, lifecycleVars, redisVars
<1>3. QED
  BY <1>1, <1>2, LifecycleTypeCorrect, PTL DEF LifecycleSpec

-----------------------------------------------------------------------------
(* The order of the shutdown.                                              *)

\* Behind its first step nobody is connected any more ...
RequestsDone ==
  \A c \in Callers :
    /\ call[c].step # "off" => ~server
    /\ call[c].step \notin {"off", "server"} => Connected = {}

WorkerDown(k) == worker[k] # "open" /\ k \notin busy

\* ... behind the step of a worker, unless one failed, that worker is idle and
\* stays so ...
WorkersDone ==
  /\ \A k \in Kinds : worker[k] = "null" => k \notin busy
  /\ \A c \in Callers, k \in Kinds :
       /\ call[c].step = k /\ call[c].wait = "worker" => worker[k] # "open"
       /\ call[c].step = k /\ call[c].wait = "queue" => WorkerDown(k)
       /\ stepFaults = 0 /\ call[c].step \in Past(k) => WorkerDown(k)

\* ... and only behind all of them a client is told to quit.
QuitComesLate == quitted # {} => \E c \in Callers : call[c].step \in Late

ShutdownInv == RequestsDone /\ WorkersDone /\ QuitComesLate

LEMMA ShutdownInitially == LifecycleInit => ShutdownInv
  BY DEF LifecycleInit, ShutdownInv, RequestsDone, WorkersDone, QuitComesLate, Past, Late,
     Kinds

\* Steps that leave the calls where they are.
LEMMA RunningKeeps ==
  ASSUME LifecycleTypeOK, ShutdownInv, UNCHANGED <<call, stepFaults>>,
         \/ \E r \in Requests : Arrive(r) \/ HandlerUsesRedis(r) \/ Respond(r) \/ ClientLeaves(r)
         \/ \E k \in Kinds : JobStarts(k) \/ JobEnds(k) \/ SweepEnqueues(k)
         \/ \E c \in Callers : ExitProcess(c) \/ ForceExit(c)
         \/ UNCHANGED lifecycleVars
  PROVE  ShutdownInv'
<1> USE DEF requestVars, workerVars, redisVars, lifecycleVars
<1>1. quitted' = quitted /\ server' = server /\ worker' = worker
  BY DEF Arrive, HandlerUsesRedis, Respond, ClientLeaves, JobStarts, JobEnds, SweepEnqueues,
     ExitProcess, ForceExit, GetClient
<1>2. RequestsDone'
  <2>1. server \/ Connected' \subseteq Connected
    BY DEF LifecycleTypeOK, Connected, Arrive, HandlerUsesRedis, Respond, ClientLeaves,
       JobStarts, JobEnds, SweepEnqueues, ExitProcess, ForceExit
  <2>2. QED
    BY <1>1, <2>1 DEF ShutdownInv, RequestsDone
<1>3. \A k \in Kinds : k \in busy' => k \in busy \/ worker[k] = "open"
  BY DEF Arrive, HandlerUsesRedis, Respond, ClientLeaves, JobStarts, JobEnds, SweepEnqueues,
     ExitProcess, ForceExit
<1>4. WorkersDone'
  BY <1>1, <1>3 DEF ShutdownInv, WorkersDone, WorkerDown
<1>5. QED
  BY <1>1, <1>2, <1>4 DEF ShutdownInv, QuitComesLate

\* A call that leaves the step of a worker, or waits there.
LEMMA WorkerStepsKeep ==
  ASSUME LifecycleTypeOK, ShutdownInv, NEW c \in Callers, NEW k \in Kinds,
         CloseWorker(c, k) \/ WorkerClosed(c, k) \/ WorkerGone(c, k) \/ QueueClosed(c, k)
  PROVE  ShutdownInv'
<1>1. /\ call[c].step = k /\ k \in DOMAIN After /\ k \in Steps
      /\ UNCHANGED <<requestVars, busy, redisVars, exit, stepFaults>>
  BY AfterIs DEF CloseWorker, WorkerClosed, WorkerGone, QueueClosed, At, Kinds, Steps,
     workerVars
<1>2. k \notin {"off", "server"} /\ k \notin Late
  BY DEF Kinds, Late
<1>3. /\ \A j \in Kinds : worker'[j] = "open" => worker[j] = "open"
      /\ \A j \in Kinds : worker'[j] = "null" => worker[j] = "null" \/ (j = k /\ k \notin busy)
  BY DEF CloseWorker, WorkerClosed, WorkerGone, QueueClosed, workerVars, LifecycleTypeOK
<1>4. \A b \in Callers : b # c => call'[b] = call[b]
  BY <1>1, GotoType, MoveOnType
  DEF CloseWorker, WorkerClosed, WorkerGone, QueueClosed, ThenQueue, Waits
<1>5. \/ /\ call'[c] = [step |-> k, wait |-> "worker"] /\ worker'[k] # "open"
      \/ /\ call'[c] = [step |-> k, wait |-> "queue"] /\ WorkerDown(k)'
      \/ /\ call'[c] = [step |-> After[k], wait |-> "none"] /\ WorkerDown(k)'
  <2>1. CASE CloseWorker(c, k)
    <3>1. worker'[k] = "closing"
      BY <2>1 DEF CloseWorker, LifecycleTypeOK
    <3>2. QED
      BY <1>1, <2>1, <3>1, GotoType DEF CloseWorker, Waits
  <2>2. CASE WorkerClosed(c, k)
    <3>1. worker[k] # "open" /\ k \notin busy
      BY <2>2 DEF WorkerClosed, At, ShutdownInv, WorkersDone
    <3>2. WorkerDown(k)'
      BY <1>1, <1>3, <3>1 DEF WorkerDown
    <3>3. QED
      BY <1>1, <2>2, <3>2, GotoType, MoveOnType DEF WorkerClosed, ThenQueue, Waits
  <2>3. CASE WorkerGone(c, k)
    <3>1. WorkerDown(k)'
      BY <1>1, <2>3 DEF WorkerGone, workerVars, ShutdownInv, WorkersDone, WorkerDown
    <3>2. QED
      BY <1>1, <2>3, <3>1, GotoType, MoveOnType DEF WorkerGone, ThenQueue, Waits
  <2>4. CASE QueueClosed(c, k)
    <3>1. WorkerDown(k)'
      BY <1>1, <2>4 DEF QueueClosed, At, ShutdownInv, WorkersDone, WorkerDown
    <3>2. QED
      BY <1>1, <2>4, <3>1, MoveOnType DEF QueueClosed
  <2>5. QED
    BY <2>1, <2>2, <2>3, <2>4
<1>6. RequestsDone'
  <2>1. ~server /\ Connected = {} /\ Connected' = Connected /\ server' = server
    BY <1>1, <1>2 DEF ShutdownInv, RequestsDone, requestVars, Connected
  <2>2. QED
    BY <2>1 DEF RequestsDone
<1>7. WorkersDone'
  <2>1. \A j \in Kinds : worker'[j] = "null" => j \notin busy'
    BY <1>1, <1>3 DEF ShutdownInv, WorkersDone
  <2>2. \A j \in Kinds : WorkerDown(j) => WorkerDown(j)'
    BY <1>1, <1>3 DEF WorkerDown
  <2>3. ASSUME NEW b \in Callers, NEW j \in Kinds
        PROVE  /\ call'[b].step = j /\ call'[b].wait = "worker" => worker'[j] # "open"
               /\ call'[b].step = j /\ call'[b].wait = "queue" => WorkerDown(j)'
               /\ stepFaults' = 0 /\ call'[b].step \in Past(j) => WorkerDown(j)'
    <3>1. CASE b # c
      BY <1>1, <1>3, <1>4, <2>2, <3>1 DEF ShutdownInv, WorkersDone
    <3>2. CASE b = c /\ call'[c].step = k
      BY <1>1, <1>5, <2>2, <3>2, AfterMoves DEF ShutdownInv, WorkersDone
    <3>3. CASE b = c /\ call'[c].step # k
      <4>1. call'[c] = [step |-> After[k], wait |-> "none"] /\ WorkerDown(k)'
        BY <1>5, <3>3
      <4>2. After[k] \in Past(j) => k = j \/ k \in Past(j)
        BY <1>1, AfterMoves
      <4>3. QED
        BY <1>1, <2>2, <3>3, <4>1, <4>2 DEF ShutdownInv, WorkersDone
    <3>4. QED
      BY <3>1, <3>2, <3>3
  <2>4. QED
    BY <2>1, <2>3 DEF WorkersDone
<1>8. QuitComesLate'
  BY <1>1, <1>2, <1>4 DEF ShutdownInv, QuitComesLate, redisVars
<1>9. QED
  BY <1>6, <1>7, <1>8 DEF ShutdownInv

\* The other steps of a call.
LEMMA PlainStepsKeep ==
  ASSUME LifecycleTypeOK, ShutdownInv, NEW c \in Callers,
         Begin(c) \/ ServerClosed(c) \/ PlainStep(c) \/ CloseRedis(c) \/ QuitEnds(c)
  PROVE  ShutdownInv'
<1> DEFINE s == call[c].step
           t == call'[c].step
<1>1. /\ UNCHANGED <<req, gone, workerVars, exit, stepFaults>>
      /\ server' = FALSE \/ server' = server
  BY DEF Begin, ServerClosed, PlainStep, CloseRedis, QuitEnds, requestVars
<1>2. /\ \A b \in Callers : b # c => call'[b] = call[b]
      /\ \/ s = "off" /\ t = "server" /\ call'[c].wait = "await" /\ ~server'
         \/ s = "server" /\ t = "verification" /\ call'[c].wait = "none" /\ Connected = {}
         \/ s = "admin" /\ t = "redis" /\ call'[c].wait = "none"
         \/ s \in {"redis", "timers"} /\ t \in Late /\ call'[c].wait \in {"none", "await"}
  <2>1. CASE Begin(c)
    <3>1. call[c].step = "off" /\ server' = FALSE /\ CallGoto(c, "server", "await")
      BY <2>1 DEF Begin, At
    <3>2. "server" \in Steps /\ "await" \in Waits
      BY StepsAre DEF Waits
    <3>3. /\ call'[c] = [step |-> "server", wait |-> "await"]
          /\ \A b \in Callers : b # c => call'[b] = call[b]
      BY <3>1, <3>2, GotoType
    <3>4. QED
      BY <3>1, <3>3
  <2>2. CASE ServerClosed(c) \/ PlainStep(c) \/ QuitEnds(c)
    <3>1. MoveOn(c) /\ \/ call[c].step = "server" /\ Connected = {}
                       \/ call[c].step \in {"admin", "timers", "redis"}
      BY <2>2 DEF ServerClosed, PlainStep, QuitEnds, At
    <3>2. /\ call'[c] = [step |-> After[call[c].step], wait |-> "none"]
          /\ \A b \in Callers : b # c => call'[b] = call[b]
      BY <3>1, AfterIs, MoveOnType
    <3>3. QED
      BY <3>1, <3>2, AfterIs DEF Late
  <2>3. CASE CloseRedis(c)
    <3>1. call[c].step = "redis" /\ (MoveOn(c) \/ CallGoto(c, "redis", "await"))
      BY <2>3 DEF CloseRedis, At
    <3>2. "redis" \in Steps /\ "await" \in Waits
      BY StepsAre DEF Waits
    <3>3. /\ \/ call'[c] = [step |-> "timers", wait |-> "none"]
             \/ call'[c] = [step |-> "redis", wait |-> "await"]
          /\ \A b \in Callers : b # c => call'[b] = call[b]
      BY <3>1, <3>2, AfterIs, MoveOnType, GotoType
    <3>4. QED
      BY <3>1, <3>3 DEF Late
  <2>4. QED
    BY <2>1, <2>2, <2>3
<1>3. quitted' = quitted \/ (s = "redis" /\ t \in Late)
  BY <1>2 DEF Begin, ServerClosed, PlainStep, CloseRedis, QuitEnds, redisVars, At, Late
<1> HIDE DEF s, t
<1>4. RequestsDone'
  <2>1. Connected' = Connected
    BY <1>1 DEF Connected
  <2>2. s # "off" => ~server
    BY DEF s, ShutdownInv, RequestsDone
  <2>3. s \notin {"off", "server"} => Connected = {}
    BY DEF s, ShutdownInv, RequestsDone
  <2>4. /\ t # "off" => ~server'
        /\ t \notin {"off", "server"} => Connected' = {}
    BY <1>1, <1>2, <2>1, <2>2, <2>3 DEF Late
  <2>5. QED
    BY <1>1, <1>2, <2>1, <2>4 DEF t, ShutdownInv, RequestsDone
<1>5. WorkersDone'
  <2>1. \A j \in Kinds : WorkerDown(j)' <=> WorkerDown(j)
    BY <1>1 DEF workerVars, WorkerDown
  <2>2. ASSUME NEW j \in Kinds, stepFaults' = 0, t \in Past(j) PROVE WorkerDown(j)'
    <3>1. s \in Past(j)
      BY <1>2, <2>2 DEF Past, Kinds, Late
    <3>2. QED
      BY <1>1, <2>1, <2>2, <3>1 DEF s, ShutdownInv, WorkersDone
  <2>3. QED
    BY <1>1, <1>2, <2>1, <2>2 DEF t, ShutdownInv, WorkersDone, workerVars
<1>6. QuitComesLate'
  <2>1. t \in Late \/ s \notin Late
    BY <1>2 DEF Late
  <2>2. QED
    BY <1>2, <1>3, <2>1 DEF s, t, ShutdownInv, QuitComesLate
<1>7. QED
  BY <1>4, <1>5, <1>6 DEF ShutdownInv

LEMMA ThrowsKeep ==
  ASSUME LifecycleTypeOK, ShutdownInv, NEW c \in Callers, StepThrows(c)
  PROVE  ShutdownInv'
<1>1. call[c].step \in DOMAIN After /\ call[c].step \in Kinds \cup {"admin"}
  BY AfterIs DEF StepThrows, At, Kinds
<1>2. /\ call'[c] = [step |-> After[call[c].step], wait |-> "none"]
      /\ \A b \in Callers : b # c => call'[b] = call[b]
  BY <1>1, MoveOnType DEF StepThrows
<1>3. UNCHANGED <<requestVars, workerVars, redisVars>> /\ stepFaults' # 0
  BY DEF StepThrows, LifecycleTypeOK
<1>4. call[c].step \notin {"off", "server"} /\ call[c].step \notin Late
  BY <1>1 DEF Kinds, Late
<1>5. RequestsDone'
  BY <1>2, <1>3, <1>4 DEF ShutdownInv, RequestsDone, requestVars, Connected
<1>6. WorkersDone'
  BY <1>2, <1>3 DEF ShutdownInv, WorkersDone, WorkerDown, workerVars
<1>7. QuitComesLate'
  BY <1>2, <1>3, <1>4 DEF ShutdownInv, QuitComesLate, redisVars
<1>8. QED
  BY <1>5, <1>6, <1>7 DEF ShutdownInv

LEMMA ShutdownStays ==
  ASSUME LifecycleTypeOK, ShutdownInv, [LifecycleNext]_lifecycleVars
  PROVE  ShutdownInv'
<1>1. CASE \/ \E r \in Requests :
                Arrive(r) \/ HandlerUsesRedis(r) \/ Respond(r) \/ ClientLeaves(r)
           \/ \E k \in Kinds : JobStarts(k) \/ JobEnds(k) \/ SweepEnqueues(k)
           \/ \E c \in Callers : ExitProcess(c) \/ ForceExit(c)
           \/ UNCHANGED lifecycleVars
  <2>1. UNCHANGED <<call, stepFaults>>
    BY <1>1 DEF Arrive, HandlerUsesRedis, Respond, ClientLeaves, JobStarts, JobEnds,
       SweepEnqueues, ExitProcess, ForceExit, lifecycleVars
  <2>2. QED
    BY <1>1, <2>1, RunningKeeps
<1>2. QED
  BY <1>1, WorkerStepsKeep, PlainStepsKeep, ThrowsKeep DEF LifecycleNext

\* RedisOutlivesWork: while no step of the shutdown has failed, Redis is told
\* to quit only when no connected client waits and no worker has a job.
THEOREM ShutdownKeepsOrder == LifecycleSpec => []RedisOutlivesWork
<1>1. LifecycleTypeOK /\ ShutdownInv => RedisOutlivesWork
  <2> SUFFICES ASSUME LifecycleTypeOK, ShutdownInv, quitted # {}, stepFaults = 0
               PROVE  Connected = {} /\ busy = {}
    BY DEF RedisOutlivesWork
  <2>1. PICK c \in Callers : call[c].step \in Late
    BY DEF ShutdownInv, QuitComesLate
  <2>2. Connected = {}
    BY <2>1 DEF ShutdownInv, RequestsDone, Late
  <2>3. \A k \in Kinds : k \notin busy
    BY <2>1 DEF ShutdownInv, WorkersDone, WorkerDown, Past, Late
  <2>4. QED
    BY <2>2, <2>3 DEF LifecycleTypeOK
<1>2. QED
  BY <1>1, ShutdownInitially, ShutdownStays, LifecycleTypeCorrect, PTL DEF LifecycleSpec

=============================================================================
