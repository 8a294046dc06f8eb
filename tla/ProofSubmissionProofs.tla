------------------------ MODULE ProofSubmissionProofs ------------------------
(***************************************************************************)
(* Theorems about ProofSubmission, for every set of submissions, users and *)
(* photos, every assignment of photos to submissions and of bytes to       *)
(* photos, and any number of faults.                                       *)
(***************************************************************************)
EXTENDS ProofSubmission, TLAPS

-----------------------------------------------------------------------------
(* What a step leaves alone.                                               *)

\* Claims and the task's status are all that a claim step changes.
LEMMA ClaimStepLeaves ==
  ASSUME ClaimStep \/ UNCHANGED submissionVars
  PROVE  UNCHANGED <<pc, prepVars, dbVars, ipfsVars, faultVars>>
  BY DEF ClaimStep, ClaimTask, ReleaseClaim, ClaimLapses, ExpireClaims, TaskChanges,
     submissionVars

-----------------------------------------------------------------------------
(* Type correctness.                                                       *)

LEMMA ClaimStepType ==
  ASSUME SubmissionTypeOK, ClaimStep
  PROVE  task' \in TaskStates /\ claim' \in [Users -> Claims] /\ lapsed' \subseteq Users
<1>1. ASSUME NEW u \in Users, ClaimTask(u) \/ ReleaseClaim(u) \/ ClaimLapses(u)
      PROVE  task' \in TaskStates /\ claim' \in [Users -> Claims] /\ lapsed' \subseteq Users
  BY <1>1 DEF SubmissionTypeOK, ClaimTask, ReleaseClaim, ClaimLapses, Claims
<1>2. CASE ExpireClaims
  BY <1>2 DEF SubmissionTypeOK, ExpireClaims, Claims
<1>3. CASE TaskChanges
  BY <1>3 DEF SubmissionTypeOK, TaskChanges
<1>4. QED
  BY <1>1, <1>2, <1>3 DEF ClaimStep

\* proof_photos has a row for exactly the photos of the stored proofs.
LEMMA InsertRowsType ==
  ASSUME SubmissionTypeOK, NEW r \in Submissions, InsertRows(r)
  PROVE  /\ proofs' \subseteq Submissions
         /\ photoRow' \in [PhotoFiles -> {"none", "owner", "copy"}]
         /\ \A f \in PhotoFiles : photoRow'[f] # "none" <=> RequestOf[f] \in proofs'
  BY DEF SubmissionTypeOK, InsertRows, FilesOf

LEMMA RollbackType ==
  ASSUME SubmissionTypeOK, NEW r \in Submissions, Rollback(r)
  PROVE  /\ proofs' \subseteq Submissions
         /\ photoRow' \in [PhotoFiles -> {"none", "owner", "copy"}]
         /\ \A f \in PhotoFiles : photoRow'[f] # "none" <=> RequestOf[f] \in proofs'
  BY DEF SubmissionTypeOK, Rollback, DeletePhotos, FilesOf

LEMMA SubmitStepType ==
  ASSUME SubmissionTypeOK, NEW r \in Submissions, SubmitStep(r)
  PROVE  SubmissionTypeOK'
<1> USE SubmissionAssumption DEF SubmissionTypeOK
<1>1. \A p \in Pcs : [pc EXCEPT ![r] = p] \in [Submissions -> Pcs]
  OBVIOUS
<1>2. ASSUME NEW p \in Pcs, Move(r, p)
      PROVE  SubmissionTypeOK'
  BY <1>1, <1>2 DEF Move, SubmitGoto, claimVars, prepVars, dbVars, ipfsVars, faultVars
<1>m. ASSUME NEW m \in Mishaps, Suffer(r, m)
      PROVE  mishaps' \in [Submissions -> SUBSET Mishaps]
  BY <1>m DEF Suffer
<1>3. CASE Preflight(r) \/ HashThrows(r) \/ PhotosSettle(r) \/ CheckAgain(r) \/ CommitThrows(r)
           \/ EnqueueVerification(r)
  BY <1>2, <1>3 DEF Preflight, HashThrows, PhotosSettle, CheckAgain, CommitThrows,
     EnqueueVerification,
     Pcs, Running
<1>4. CASE MatchPhotos(r)
  <2>1. matched' \in [Submissions -> SUBSET Contents]
    BY <1>4 DEF MatchPhotos, FilesOf
  <2>2. pc' \in [Submissions -> Pcs]
    BY <1>1, <1>4 DEF MatchPhotos, SubmitGoto, Pcs, Running
  <2>3. QED
    BY <1>4, <2>1, <2>2 DEF MatchPhotos, claimVars, dbVars, ipfsVars, faultVars
<1>5. ASSUME NEW f \in PhotoFiles, PreparePhoto(r, f)
      PROVE  SubmissionTypeOK'
  BY <1>5 DEF PreparePhoto, Settle, FilesOf, claimVars, dbVars, faultVars
<1>6. ASSUME NEW f \in PhotoFiles, UploadThrows(r, f)
      PROVE  SubmissionTypeOK'
  BY <1>6 DEF UploadThrows, Settle, SpendFault, FilesOf, claimVars, dbVars
<1>7. CASE CreateProof(r)
  <2>1. pc' \in [Submissions -> Pcs]
    BY <1>1, <1>7 DEF CreateProof, SubmitGoto, Pcs, Running
  <2>2. QED
    BY <1>7, <2>1, InsertRowsType DEF CreateProof, claimVars, prepVars, ipfsVars, faultVars
<1>8. CASE CommitReplyLost(r)
  <2>1. pc' \in [Submissions -> Pcs]
    BY <1>1, <1>8 DEF CommitReplyLost, SubmitGoto, Pcs, Running
  <2>2. QED
    BY <1>8, <1>m, <2>1, InsertRowsType DEF CommitReplyLost, Mishaps, SpendFault, claimVars,
       prepVars, ipfsVars
<1>9. CASE Rollback(r)
  <2>1. pc' \in [Submissions -> Pcs]
    BY <1>1, <1>9 DEF Rollback, SubmitGoto, Pcs, Running
  <2>2. QED
    BY <1>9, <2>1, RollbackType DEF Rollback, claimVars, prepVars, ipfsVars, faultVars
<1>10. CASE RollbackThrows(r)
  <2>1. pc' \in [Submissions -> Pcs]
    BY <1>1, <1>10 DEF RollbackThrows, SubmitGoto, Pcs, Running
  <2>2. QED
    BY <1>10, <1>m, <2>1 DEF RollbackThrows, Mishaps, claimVars, prepVars, dbVars, ipfsVars
<1>11. CASE CleanUp(r)
  <2>1. pc' \in [Submissions -> Pcs]
    BY <1>1, <1>11 DEF CleanUp, SubmitGoto, Pcs
  <2>2. QED
    BY <1>11, <2>1 DEF CleanUp, SpendFault, claimVars, prepVars, dbVars
<1>12. CASE Crash(r)
  <2>1. pc' \in [Submissions -> Pcs]
    BY <1>1, <1>12 DEF Crash, SubmitGoto, Pcs
  <2>2. QED
    BY <1>12, <1>m, <2>1 DEF Crash, Mishaps, SpendFault, claimVars, prepVars, dbVars
<1>13. CASE EnqueueFails(r)
  <2>1. pc' \in [Submissions -> Pcs]
    BY <1>1, <1>13 DEF EnqueueFails, SubmitGoto, Pcs, Running
  <2>2. QED
    BY <1>13, <1>m, <2>1 DEF EnqueueFails, Mishaps, claimVars, prepVars, dbVars, ipfsVars
<1>14. QED
  BY <1>3, <1>4, <1>5, <1>6, <1>7, <1>8, <1>9, <1>10, <1>11, <1>12, <1>13 DEF SubmitStep

\* Every variable keeps its type, and the photo rows agree with the proofs.
THEOREM TypeCorrect == SubmissionSpec => []SubmissionTypeOK
<1>1. SubmissionInit => SubmissionTypeOK
  BY SubmissionAssumption DEF SubmissionInit, SubmissionTypeOK, Pcs, Running, Claims,
     TaskStates
<1>2. SubmissionTypeOK /\ [SubmissionNext]_submissionVars => SubmissionTypeOK'
  <2> SUFFICES ASSUME SubmissionTypeOK, [SubmissionNext]_submissionVars
               PROVE  SubmissionTypeOK'
    OBVIOUS
  <2>1. CASE ClaimStep
    BY <2>1, ClaimStepType, ClaimStepLeaves
    DEF SubmissionTypeOK, prepVars, dbVars, ipfsVars, faultVars
  <2>2. CASE UNCHANGED submissionVars
    BY <2>2 DEF SubmissionTypeOK, submissionVars, claimVars, prepVars, dbVars, ipfsVars,
       faultVars
  <2>3. QED
    BY <2>1, <2>2, SubmitStepType DEF SubmissionNext
<1>3. QED
  BY <1>1, <1>2, PTL DEF SubmissionSpec

-----------------------------------------------------------------------------
(* The stages of a submission.                                             *)

Early     == {"preflight", "match", "refused"}
Prepared  == {"check", "create", "enqueue", "created"}

\* What may leave a failed submission with a proof.
Excused(r) ==
  \/ {"enqueue", "rollback"} \subseteq mishaps[r]
  \/ "reply" \in mishaps[r]
  \/ "crash" \in mishaps[r]

\* A proof is stored from its commit on; in "rollback" it may be.
Stage(r) ==
  /\ pc[r] \in Early \cup {"upload", "check", "create"} => r \notin proofs
  /\ pc[r] \in {"enqueue", "created"} => r \in proofs
  /\ pc[r] = "rollback" => "enqueue" \in mishaps[r]
  /\ pc[r] \in {"cleanup", "failed"} /\ r \in proofs => Excused(r)
  /\ "crash" \in mishaps[r] => pc[r] = "failed"

StageInv == \A r \in Submissions : Stage(r)

ContentsOf(r) == {ContentOf[f] : f \in FilesOf(r)}

\* What a submission uploads is its own, and nothing it found stored; when no
\* upload failed, every photo it has prepared is the one or the other.
Photos(r) ==
  /\ uploaded[r] \subseteq ContentsOf(r)
  /\ uploaded[r] \cap matched[r] = {}
  /\ pc[r] \in Early => uploaded[r] = {} /\ settled[r] = {}
  /\ r \notin uploadFailed =>
       \A f \in settled[r] : ContentOf[f] \in matched[r] \cup uploaded[r]
  /\ pc[r] \in Prepared =>
       \A f \in FilesOf(r) : ContentOf[f] \in matched[r] \cup uploaded[r]

UploadInv == \A r \in Submissions : Photos(r)

\* A photo that stores its hash was uploaded by its submission.
OwnersUploaded ==
  \A f \in PhotoFiles : photoRow[f] = "owner" => ContentOf[f] \in uploaded[RequestOf[f]]

\* What a submission found stored, another one uploaded.
MatchInv ==
  \A r \in Submissions : \A c \in matched[r] : \E q \in Submissions \ {r} : c \in uploaded[q]

\* What IPFS keeps was lost, or belongs to a submission that is under way or
\* has its proof stored.
Holds(r, c) == c \in uploaded[r] /\ (pc[r] \in Running \/ r \in proofs)

HeldInv == \A c \in stored : c \in lost \/ \E r \in Submissions : Holds(r, c)

\* What was uploaded is stored, or somebody took it back.
KeptInv ==
  \A r \in Submissions : \A c \in uploaded[r] :
    c \in stored \/ \E q \in Submissions : TookBack(q, c)

-----------------------------------------------------------------------------
(* Lemmas about a step of one submission.                                  *)

\* Another submission's place, matches, uploads and proof are not its business.
LEMMA OthersStay ==
  ASSUME SubmissionTypeOK, NEW r \in Submissions, SubmitStep(r), NEW q \in Submissions, q # r
  PROVE  /\ pc'[q] = pc[q]
         /\ matched'[q] = matched[q]
         /\ settled'[q] = settled[q]
         /\ uploaded'[q] = uploaded[q]
         /\ q \in uploadFailed' <=> q \in uploadFailed
         /\ q \in proofs' <=> q \in proofs
         /\ mishaps'[q] = mishaps[q]
         /\ \A f \in FilesOf(q) : photoRow'[f] = photoRow[f]
<1> USE DEF SubmissionTypeOK, SubmitGoto, Move, Settle, Suffer, claimVars, prepVars, dbVars,
   ipfsVars, faultVars
<1>1. CASE Preflight(r) \/ HashThrows(r) \/ PhotosSettle(r) \/ CheckAgain(r) \/ CommitThrows(r)
           \/ EnqueueVerification(r) \/ EnqueueFails(r) \/ MatchPhotos(r)
  BY <1>1 DEF Preflight, HashThrows, PhotosSettle, CheckAgain, CommitThrows,
     EnqueueVerification,
     EnqueueFails, MatchPhotos
<1>2. CASE \E f \in PhotoFiles : PreparePhoto(r, f) \/ UploadThrows(r, f)
  BY <1>2 DEF PreparePhoto, UploadThrows
<1>3. CASE CreateProof(r) \/ CommitReplyLost(r)
  BY <1>3 DEF CreateProof, CommitReplyLost, InsertRows, FilesOf
<1>4. CASE Rollback(r) \/ RollbackThrows(r)
  BY <1>4 DEF Rollback, RollbackThrows, DeletePhotos, FilesOf
<1>5. CASE CleanUp(r) \/ Crash(r)
  BY <1>5 DEF CleanUp, Crash
<1>6. QED
  BY <1>1, <1>2, <1>3, <1>4, <1>5 DEF SubmitStep

-----------------------------------------------------------------------------
(* A failed submission leaves no proof.                                    *)

LEMMA StepStage ==
  ASSUME SubmissionTypeOK, StageInv, [SubmissionNext]_submissionVars
  PROVE  StageInv'
<1>1. CASE ClaimStep \/ UNCHANGED submissionVars
  BY <1>1, ClaimStepLeaves DEF StageInv, Stage, Excused, dbVars, faultVars
<1>2. ASSUME NEW r \in Submissions, SubmitStep(r)
      PROVE  StageInv'
  <2>1. \A q \in Submissions : Stage(q)
    BY DEF StageInv
  <2>3. \A q \in Submissions \ {r} : Stage(q)'
    BY <1>2, <2>1, OthersStay DEF Stage, Excused
  <2>4. Stage(r)'
    <3> USE <2>1 DEF Stage, Excused, SubmissionTypeOK, SubmitAt, SubmitGoto, Move, Suffer,
       Early, Mishaps, dbVars, faultVars
    <3>1. CASE Preflight(r) \/ MatchPhotos(r) \/ HashThrows(r) \/ PhotosSettle(r)
      BY <3>1 DEF Preflight, MatchPhotos, HashThrows, PhotosSettle
    <3>2. CASE \E f \in PhotoFiles : PreparePhoto(r, f) \/ UploadThrows(r, f)
      BY <3>2 DEF PreparePhoto, UploadThrows
    <3>3. CASE CheckAgain(r) \/ CommitThrows(r) \/ EnqueueVerification(r) \/ EnqueueFails(r)
      BY <3>3 DEF CheckAgain, CommitThrows, EnqueueVerification, EnqueueFails
    <3>4. CASE CreateProof(r) \/ CommitReplyLost(r)
      BY <3>4 DEF CreateProof, CommitReplyLost, InsertRows
    <3>5. CASE Rollback(r) \/ RollbackThrows(r)
      BY <3>5 DEF Rollback, RollbackThrows
    <3>6. CASE CleanUp(r) \/ Crash(r)
      BY <3>6 DEF CleanUp, Crash, Running
    <3>7. QED
      BY <1>2, <3>1, <3>2, <3>3, <3>4, <3>5, <3>6 DEF SubmitStep
  <2>5. QED
    BY <2>3, <2>4 DEF StageInv
<1>3. QED
  BY <1>1, <1>2 DEF SubmissionNext

LEMMA StageInvariant == SubmissionSpec => []StageInv
<1>1. SubmissionInit => StageInv
  BY DEF SubmissionInit, StageInv, Stage, Early
<1>2. QED
  BY <1>1, StepStage, TypeCorrect, PTL DEF SubmissionSpec

\* FailedLeaveNoProof: what a submission had committed before it failed is rolled
\* back, unless the rollback failed after the enqueue, the reply to the commit was
\* lost, or the process ended.
THEOREM FailuresAreRolledBack == SubmissionSpec => []FailedLeaveNoProof
<1>1. StageInv => FailedLeaveNoProof
  BY DEF StageInv, Stage, Excused, FailedLeaveNoProof
<1>2. QED
  BY <1>1, StageInvariant, PTL

-----------------------------------------------------------------------------
(* Uploads.                                                                *)

LEMMA StepUpload ==
  ASSUME SubmissionTypeOK, UploadInv, [SubmissionNext]_submissionVars
  PROVE  UploadInv'
<1>1. CASE ClaimStep \/ UNCHANGED submissionVars
  BY <1>1, ClaimStepLeaves DEF UploadInv, Photos, ContentsOf, FilesOf, prepVars
<1>2. ASSUME NEW r \in Submissions, SubmitStep(r)
      PROVE  UploadInv'
  <2>1. \A q \in Submissions : Photos(q)
    BY DEF UploadInv
  <2>2. \A q \in Submissions \ {r} : Photos(q)'
    BY <1>2, <2>1, OthersStay DEF Photos, ContentsOf, FilesOf
  <2>3. Photos(r)'
    <3> USE DEF Photos, SubmissionTypeOK, SubmitAt, SubmitGoto, Move, Settle, Early,
       Prepared, prepVars
    <3>0. Photos(r)
      BY <2>1
    <3>1. CASE Preflight(r) \/ HashThrows(r) \/ PhotosSettle(r) \/ CheckAgain(r)
               \/ CommitThrows(r) \/ EnqueueVerification(r) \/ EnqueueFails(r)
      BY <3>0, <3>1 DEF Preflight, HashThrows, PhotosSettle, CheckAgain, CommitThrows,
         EnqueueVerification,
         EnqueueFails, ContentsOf, FilesOf
    <3>2. CASE MatchPhotos(r)
      <4>1. /\ uploaded'[r] = {} /\ settled'[r] = {} /\ pc'[r] = "upload"
        BY <3>0, <3>2 DEF MatchPhotos
      <4>2. QED
        BY <4>1
    <3>3. ASSUME NEW f \in PhotoFiles, PreparePhoto(r, f)
          PROVE  Photos(r)'
      <4>1. /\ matched' = matched /\ pc' = pc /\ uploadFailed' = uploadFailed
            /\ pc[r] = "upload" /\ f \in FilesOf(r)
            /\ settled'[r] = settled[r] \cup {f}
            /\ uploaded'[r] = IF ContentOf[f] \in matched[r] THEN uploaded[r]
                                                             ELSE uploaded[r] \cup {ContentOf[f]}
        BY <3>3 DEF PreparePhoto
      <4>2. QED
        BY <3>0, <4>1 DEF ContentsOf, FilesOf
    <3>4. ASSUME NEW f \in PhotoFiles, UploadThrows(r, f)
          PROVE  Photos(r)'
      BY <3>0, <3>4 DEF UploadThrows, ContentsOf, FilesOf
    <3>5. CASE CreateProof(r) \/ CommitReplyLost(r) \/ Rollback(r) \/ RollbackThrows(r)
      BY <3>0, <3>5 DEF CreateProof, CommitReplyLost, Rollback, RollbackThrows, ContentsOf,
         FilesOf
    <3>6. CASE CleanUp(r) \/ Crash(r)
      BY <3>0, <3>6 DEF CleanUp, Crash, ContentsOf, FilesOf
    <3>7. QED
      BY <1>2, <3>1, <3>2, <3>3, <3>4, <3>5, <3>6 DEF SubmitStep
  <2>4. QED
    BY <2>2, <2>3 DEF UploadInv
<1>3. QED
  BY <1>1, <1>2 DEF SubmissionNext

LEMMA UploadInvariant == SubmissionSpec => []UploadInv
<1>1. SubmissionInit => UploadInv
  BY DEF SubmissionInit, UploadInv, Photos, Prepared
<1>2. QED
  BY <1>1, StepUpload, TypeCorrect, PTL DEF SubmissionSpec

\* What a submission has uploaded it never forgets.
LEMMA UploadsGrow ==
  ASSUME SubmissionTypeOK, NEW r \in Submissions, SubmitStep(r), NEW q \in Submissions
  PROVE  uploaded[q] \subseteq uploaded'[q]
<1>1. CASE q # r
  BY <1>1, OthersStay
<1>2. CASE q = r
  <2>1. ASSUME NEW f \in PhotoFiles, PreparePhoto(r, f)
        PROVE  uploaded[q] \subseteq uploaded'[q]
    BY <1>2, <2>1 DEF PreparePhoto, SubmissionTypeOK
  <2>2. QED
    BY <1>2, <2>1 DEF SubmitStep, Preflight, MatchPhotos, HashThrows, PhotosSettle,
       UploadThrows, CheckAgain, CreateProof, CommitThrows, CommitReplyLost,
       EnqueueVerification,
       EnqueueFails, Rollback, RollbackThrows, CleanUp, Crash, Move, prepVars
<1>3. QED
  BY <1>1, <1>2

LEMMA StepOwners ==
  ASSUME SubmissionTypeOK, UploadInv, OwnersUploaded, [SubmissionNext]_submissionVars
  PROVE  OwnersUploaded'
<1>1. CASE ClaimStep \/ UNCHANGED submissionVars
  BY <1>1, ClaimStepLeaves DEF OwnersUploaded, prepVars, dbVars
<1>2. ASSUME NEW r \in Submissions, SubmitStep(r), NEW f \in PhotoFiles,
             photoRow'[f] = "owner"
      PROVE  ContentOf[f] \in uploaded'[RequestOf[f]]
  <2> USE SubmissionAssumption DEF OwnersUploaded
  <2>1. CASE photoRow[f] = "owner"
    BY <1>2, <2>1, UploadsGrow
  <2>2. CASE photoRow[f] # "owner"
    <3>1. CreateProof(r) \/ CommitReplyLost(r)
      BY <1>2, <2>2 DEF SubmitStep, Preflight, MatchPhotos, HashThrows, PhotosSettle,
         PreparePhoto, UploadThrows, CheckAgain, CommitThrows, EnqueueVerification,
         EnqueueFails,
         Rollback, RollbackThrows, DeletePhotos, CleanUp, Crash, Move, dbVars,
         SubmissionTypeOK
    <3>2. /\ pc[r] = "create" /\ InsertRows(r) /\ UNCHANGED uploaded
      BY <3>1 DEF CreateProof, CommitReplyLost, SubmitAt, prepVars
    <3>3. f \in Hashed(r)
      BY <1>2, <2>2, <3>2 DEF InsertRows, SubmissionTypeOK
    <3>4. QED
      BY <3>2, <3>3 DEF Hashed, FilesOf, UploadInv, Photos, Prepared
  <2>3. QED
    BY <2>1, <2>2
<1>3. QED
  BY <1>1, <1>2 DEF SubmissionNext, OwnersUploaded

LEMMA OwnersInvariant == SubmissionSpec => []OwnersUploaded
<1>1. SubmissionInit => OwnersUploaded
  BY DEF SubmissionInit, OwnersUploaded
<1>2. QED
  BY <1>1, StepOwners, TypeCorrect, UploadInvariant, PTL DEF SubmissionSpec

LEMMA StepMatch ==
  ASSUME SubmissionTypeOK, StageInv, OwnersUploaded, MatchInv, [SubmissionNext]_submissionVars
  PROVE  MatchInv'
<1>1. CASE ClaimStep \/ UNCHANGED submissionVars
  BY <1>1, ClaimStepLeaves DEF MatchInv, prepVars
<1>2. ASSUME NEW s \in Submissions, SubmitStep(s), NEW r \in Submissions,
             NEW c \in matched'[r]
      PROVE  \E q \in Submissions \ {r} : c \in uploaded'[q]
  <2>1. CASE c \in matched[r]
    BY <1>2, <2>1, UploadsGrow DEF MatchInv
  <2>2. CASE c \notin matched[r]
    <3>1. r = s
      BY <1>2, <2>2, OthersStay
    <3>2. MatchPhotos(r)
      BY <1>2, <2>2, <3>1 DEF SubmitStep, Preflight, HashThrows, PhotosSettle, PreparePhoto,
         UploadThrows, CheckAgain, CreateProof, CommitThrows, CommitReplyLost,
         EnqueueVerification,
         EnqueueFails, Rollback, RollbackThrows, CleanUp, Crash, Move, prepVars
    <3>3. PICK g \in PhotoFiles : photoRow[g] = "owner" /\ ContentOf[g] = c
      BY <1>2, <3>2 DEF MatchPhotos, SubmissionTypeOK
    <3>4. RequestOf[g] \in Submissions /\ RequestOf[g] \in proofs
      BY <3>3, SubmissionAssumption DEF SubmissionTypeOK
    <3>5. r \notin proofs
      BY <3>2 DEF MatchPhotos, SubmitAt, StageInv, Stage, Early
    <3>6. QED
      BY <1>2, <3>3, <3>4, <3>5, UploadsGrow DEF OwnersUploaded
  <2>3. QED
    BY <2>1, <2>2
<1>3. QED
  BY <1>1, <1>2 DEF SubmissionNext, MatchInv

LEMMA MatchInvariant == SubmissionSpec => []MatchInv
<1>1. SubmissionInit => MatchInv
  BY DEF SubmissionInit, MatchInv
<1>2. QED
  BY <1>1, StepMatch, TypeCorrect, StageInvariant, OwnersInvariant, PTL DEF SubmissionSpec

-----------------------------------------------------------------------------
(* IPFS keeps nothing without a reason.                                    *)

\* A submission holds its uploads until it answers: then its proof refers to
\* them, or they are removed, or lost.
LEMMA HolderSteps ==
  ASSUME SubmissionTypeOK, StageInv, UploadInv, NEW r \in Submissions, SubmitStep(r),
         NEW c \in stored,
         Holds(r, c)
  PROVE  Holds(r, c)' \/ c \notin stored' \/ c \in lost'
<1> USE DEF Holds, SubmissionTypeOK, SubmitAt, SubmitGoto, Move, Settle, Running, prepVars,
   dbVars
<1>1. CASE Preflight(r)
  BY <1>1 DEF Preflight, UploadInv, Photos, Early
<1>2. CASE MatchPhotos(r) \/ HashThrows(r) \/ PhotosSettle(r) \/ CheckAgain(r)
           \/ CommitThrows(r) \/ EnqueueFails(r)
  BY <1>2 DEF MatchPhotos, HashThrows, PhotosSettle, CheckAgain, CommitThrows, EnqueueFails
<1>3. CASE \E f \in PhotoFiles : PreparePhoto(r, f) \/ UploadThrows(r, f)
  BY <1>3 DEF PreparePhoto, UploadThrows
<1>4. CASE CreateProof(r) \/ CommitReplyLost(r)
  BY <1>4 DEF CreateProof, CommitReplyLost
<1>5. CASE EnqueueVerification(r)
  BY <1>5 DEF EnqueueVerification, StageInv, Stage
<1>6. CASE Rollback(r) \/ RollbackThrows(r)
  BY <1>6 DEF Rollback, RollbackThrows
<1>7. CASE CleanUp(r)
  BY <1>7 DEF CleanUp
<1>8. CASE Crash(r)
  BY <1>8 DEF Crash
<1>9. QED
  BY <1>1, <1>2, <1>3, <1>4, <1>5, <1>6, <1>7, <1>8 DEF SubmitStep

\* What is new on IPFS has a submission under way, or is lost.
LEMMA NewlyStored ==
  ASSUME SubmissionTypeOK, NEW r \in Submissions, SubmitStep(r), NEW c \in stored' \ stored
  PROVE  c \in lost' \/ Holds(r, c)'
<1> USE DEF Holds, SubmissionTypeOK, SubmitAt, Settle, Running, ipfsVars
<1>1. ASSUME NEW f \in PhotoFiles, PreparePhoto(r, f)
      PROVE  c \in lost' \/ Holds(r, c)'
  BY <1>1 DEF PreparePhoto
<1>2. ASSUME NEW f \in PhotoFiles, UploadThrows(r, f)
      PROVE  c \in lost'
  BY <1>2 DEF UploadThrows
<1>3. QED
  BY <1>1, <1>2 DEF SubmitStep, Preflight, MatchPhotos, HashThrows, PhotosSettle, CheckAgain,
     CreateProof, CommitThrows, CommitReplyLost, EnqueueVerification, EnqueueFails, Rollback,
     RollbackThrows, CleanUp, Crash, Move

LEMMA LostGrows ==
  ASSUME NEW r \in Submissions, SubmitStep(r)
  PROVE  lost \subseteq lost'
  BY DEF SubmitStep, Preflight, MatchPhotos, HashThrows, PhotosSettle, PreparePhoto,
     UploadThrows, CheckAgain, CreateProof, CommitThrows, CommitReplyLost,
     EnqueueVerification,
     EnqueueFails, Rollback, RollbackThrows, CleanUp, Crash, Move, ipfsVars

LEMMA StepHeld ==
  ASSUME SubmissionTypeOK, StageInv, UploadInv, HeldInv, [SubmissionNext]_submissionVars
  PROVE  HeldInv'
<1>1. CASE ClaimStep \/ UNCHANGED submissionVars
  BY <1>1, ClaimStepLeaves DEF HeldInv, Holds, prepVars, dbVars, ipfsVars
<1>2. ASSUME NEW r \in Submissions, SubmitStep(r), NEW c \in stored'
      PROVE  c \in lost' \/ \E q \in Submissions : Holds(q, c)'
  <2>1. CASE c \notin stored
    BY <1>2, <2>1, NewlyStored
  <2>2. CASE c \in lost
    BY <1>2, <2>2, LostGrows
  <2>3. ASSUME NEW q \in Submissions, Holds(q, c), c \in stored
        PROVE  c \in lost' \/ Holds(q, c)'
    <3>1. CASE q = r
      BY <1>2, <2>3, <3>1, HolderSteps
    <3>2. CASE q # r
      BY <1>2, <2>3, <3>2, OthersStay DEF Holds
    <3>3. QED
      BY <3>1, <3>2
  <2>4. QED
    BY <2>1, <2>2, <2>3 DEF HeldInv
<1>3. QED
  BY <1>1, <1>2 DEF SubmissionNext, HeldInv

\* NoOrphans: every CID that IPFS keeps for the service is a photo's, or is
\* under way, or was lost to a fault.
THEOREM NothingIsOrphaned == SubmissionSpec => []NoOrphans
<1>1. SubmissionInit => HeldInv
  BY DEF SubmissionInit, HeldInv
<1>2. SubmissionTypeOK /\ UploadInv /\ HeldInv => NoOrphans
  <2> SUFFICES ASSUME SubmissionTypeOK, UploadInv, HeldInv, NEW c \in stored, c \notin lost
               PROVE  c \in Referenced \cup InFlight
    BY DEF NoOrphans
  <2>1. PICK r \in Submissions : Holds(r, c)
    BY DEF HeldInv
  <2>2. CASE pc[r] \in Running
    BY <2>1, <2>2 DEF InFlight, Holds
  <2>3. CASE r \in proofs
    <3>1. PICK f \in FilesOf(r) : ContentOf[f] = c
      BY <2>1 DEF Holds, UploadInv, Photos, ContentsOf
    <3>2. photoRow[f] # "none"
      BY <2>3, <3>1 DEF SubmissionTypeOK, FilesOf
    <3>3. QED
      BY <3>1, <3>2 DEF Referenced, FilesOf
  <2>4. QED
    BY <2>1, <2>2, <2>3 DEF Holds
<1>3. QED
  BY <1>1, <1>2, StepHeld, TypeCorrect, StageInvariant, UploadInvariant,
     PTL DEF SubmissionSpec

-----------------------------------------------------------------------------
(* IPFS keeps what an accepted proof refers to.                            *)

\* A submission never removes what it did not upload itself.
LEMMA RemovesOwn ==
  ASSUME SubmissionTypeOK, UploadInv, NEW q \in Submissions, SubmitStep(q), NEW c \in stored,
         c \notin stored'
  PROVE  /\ c \in uploaded[q]
         /\ pc[q] = "cleanup" /\ pc'[q] = "failed"
         /\ UNCHANGED <<prepVars, mishaps>>
  BY DEF SubmitStep, Preflight, MatchPhotos, HashThrows, PhotosSettle, PreparePhoto,
     UploadThrows, CheckAgain, CreateProof, CommitThrows, CommitReplyLost,
     EnqueueVerification,
     EnqueueFails, Rollback, RollbackThrows, CleanUp, Crash, Move, ipfsVars,
     SubmissionTypeOK, SubmitGoto, SubmitAt

\* An upload is recorded when the bytes are stored.
LEMMA RecordsStored ==
  ASSUME SubmissionTypeOK, NEW q \in Submissions, SubmitStep(q),
         NEW c \in uploaded'[q] \ uploaded[q]
  PROVE  c \in stored'
<1>1. ASSUME NEW f \in PhotoFiles, PreparePhoto(q, f)
      PROVE  c \in stored'
  BY <1>1 DEF PreparePhoto, SubmissionTypeOK
<1>2. ASSUME NEW f \in PhotoFiles, UploadThrows(q, f)
      PROVE  FALSE
  BY <1>2 DEF UploadThrows
<1>3. QED
  BY <1>1, <1>2 DEF SubmitStep, Preflight, MatchPhotos, HashThrows, PhotosSettle, CheckAgain,
     CreateProof, CommitThrows, CommitReplyLost, EnqueueVerification, EnqueueFails, Rollback,
     RollbackThrows, CleanUp, Crash, Move, prepVars

\* A failed submission is over.
LEMMA FailedIsFinal ==
  ASSUME SubmissionTypeOK, NEW q \in Submissions, SubmitStep(q)
  PROVE  pc[q] # "failed"
  BY DEF SubmitStep, Preflight, MatchPhotos, HashThrows, PhotosSettle, PreparePhoto,
     UploadThrows, CheckAgain, CreateProof, CommitThrows, CommitReplyLost,
     EnqueueVerification,
     EnqueueFails, Rollback, RollbackThrows, CleanUp, Crash, Settle, SubmitAt, Running

\* Nobody gives back what he took.
LEMMA TookBackForGood ==
  ASSUME SubmissionTypeOK, NEW s \in Submissions, SubmitStep(s), NEW q \in Submissions,
         NEW c, TookBack(q, c)
  PROVE  TookBack(q, c)'
<1>1. q # s
  BY FailedIsFinal DEF TookBack
<1>2. QED
  BY <1>1, OthersStay DEF TookBack

LEMMA StepKept ==
  ASSUME SubmissionTypeOK, StageInv, UploadInv, KeptInv, [SubmissionNext]_submissionVars
  PROVE  KeptInv'
<1>1. CASE ClaimStep \/ UNCHANGED submissionVars
  BY <1>1, ClaimStepLeaves DEF KeptInv, TookBack, prepVars, ipfsVars, faultVars
<1>2. ASSUME NEW s \in Submissions, SubmitStep(s), NEW r \in Submissions,
             NEW c \in uploaded'[r]
      PROVE  c \in stored' \/ \E q \in Submissions : TookBack(q, c)'
  <2>1. CASE c \notin uploaded[r]
    BY <1>2, <2>1, RecordsStored, OthersStay
  <2>2. ASSUME NEW q \in Submissions, TookBack(q, c)
        PROVE  TookBack(q, c)'
    BY <1>2, <2>2, TookBackForGood
  <2>3. ASSUME c \in stored, c \notin stored'
        PROVE  TookBack(s, c)'
    <3>1. /\ c \in uploaded[s] /\ pc[s] = "cleanup" /\ pc'[s] = "failed"
          /\ UNCHANGED <<prepVars, mishaps>>
      BY <1>2, <2>3, RemovesOwn
    <3>2. "crash" \notin mishaps[s] /\ c \notin matched[s]
      BY <3>1 DEF StageInv, Stage, UploadInv, Photos
    <3>3. QED
      BY <3>1, <3>2 DEF TookBack, prepVars
  <2>4. QED
    BY <1>2, <2>1, <2>2, <2>3 DEF KeptInv
<1>3. QED
  BY <1>1, <1>2 DEF SubmissionNext, KeptInv

\* AcceptedPhotosAreKept: the bytes of every photo of an accepted proof, uploaded or
\* reused, are on IPFS unless a submission that uploaded them failed and took them
\* back.
THEOREM AcceptedPhotosStay == SubmissionSpec => []AcceptedPhotosAreKept
<1>1. SubmissionInit => KeptInv
  BY DEF SubmissionInit, KeptInv
<1>2. SubmissionTypeOK /\ UploadInv /\ MatchInv /\ KeptInv => AcceptedPhotosAreKept
  <2> SUFFICES ASSUME SubmissionTypeOK, UploadInv, MatchInv, KeptInv, NEW f \in PhotoFiles,
                      pc[RequestOf[f]] = "created"
               PROVE  ContentOf[f] \in stored \/ \E r \in Submissions : TookBack(r, ContentOf[f])
    BY DEF AcceptedPhotosAreKept
  <2>1. RequestOf[f] \in Submissions /\ f \in FilesOf(RequestOf[f])
    BY SubmissionAssumption DEF FilesOf
  <2>2. ContentOf[f] \in matched[RequestOf[f]] \cup uploaded[RequestOf[f]]
    BY <2>1 DEF UploadInv, Photos, Prepared
  <2>3. PICK q \in Submissions : ContentOf[f] \in uploaded[q]
    BY <2>1, <2>2 DEF MatchInv
  <2>4. QED
    BY <2>3 DEF KeptInv
<1>3. QED
  BY <1>1, <1>2, StepKept, TypeCorrect, StageInvariant, UploadInvariant, MatchInvariant, PTL
     DEF SubmissionSpec

=============================================================================
